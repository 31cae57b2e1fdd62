--------------------------- MODULE PlatformProofs ---------------------------
(***************************************************************************)
(* The ways out: refreshes of OAuth tokens that overlap, and connections   *)
(* of accounts, for any number of accounts, replicas, requests, states and *)
(* instances; the posts of the adapters, for threads, files and limits of  *)
(* every length; and the registry of provider apps, for any list and rows. *)
(***************************************************************************)
EXTENDS MCPlatforms, FiniteSetTheorems, WellFoundedInduction, TLAPS

(* Tokens of accounts *)

AccountRow == [active : BOOLEAN, refresh : Nat, expires : {"far", "near"}]

Task == [pc      : {"idle", "loaded", "refreshed", "delete", "insert"},
         job     : BOOLEAN,
         account : TokenAccounts,
         row     : AccountRow,
         new     : Nat]

TokensTypeOK ==
  /\ account \in [TokenAccounts -> AccountRow]
  /\ latest \in [TokenAccounts -> Nat]
  /\ refreshJobs \in [TokenAccounts -> Nat]
  /\ unwritten \subseteq TokenAccounts /\ jobless \subseteq TokenAccounts
  /\ replica \in [Replicas -> Task]

TaskAt(w, a, pc) == replica[w].account = a /\ replica[w].pc = pc

\* A replica that has an answer of the provider not yet written has the token
\* the provider accepts, which is newer than the row's.
AnswerIsLatest ==
  \A a \in TokenAccounts \ unwritten : \A w \in Replicas :
    TaskAt(w, a, "refreshed") => replica[w].new = latest[a] /\ account[a].refresh < latest[a]

\* Only one of the refreshes that overlap is answered.
OneAnswer ==
  \A a \in TokenAccounts \ unwritten : \A v, w \in Replicas :
    TaskAt(v, a, "refreshed") /\ TaskAt(w, a, "refreshed") => v = w

\* With no answer to be written the row is the one the provider accepts.
RowIsLatest ==
  \A a \in TokenAccounts \ unwritten :
    (\A w \in Replicas : ~TaskAt(w, a, "refreshed")) => account[a].refresh = latest[a]

\* What was read is not newer than the row.
ReadIsOlder ==
  \A a \in TokenAccounts \ unwritten : \A w \in Replicas :
    TaskAt(w, a, "loaded") => replica[w].row.refresh <= account[a].refresh

\* A task that puts the refresh job back, whatever becomes of it: a job's, or
\* one that has deleted the pending jobs.
Schedules(w, a) ==
  /\ replica[w].account = a
  /\ replica[w].pc # "idle"
  /\ replica[w].job \/ replica[w].pc = "insert"

SomeoneSchedules ==
  \A a \in TokenAccounts \ jobless :
    refreshJobs[a] > 0 \/ \E w \in Replicas : Schedules(w, a)

CurrentInv == TokensTypeOK /\ AnswerIsLatest /\ OneAnswer /\ RowIsLatest /\ ReadIsOlder

-----------------------------------------------------------------------------
LEMMA NoTaskIsATask == NoTask \in Task
  BY AccountTokensAssumption DEF NoTask, Task, AccountRow

LEMMA InitTokens == AccountTokensInit => CurrentInv /\ SomeoneSchedules
<1> SUFFICES ASSUME AccountTokensInit PROVE CurrentInv /\ SomeoneSchedules
  OBVIOUS
<1>1. TokensTypeOK
  BY NoTaskIsATask DEF AccountTokensInit, TokensTypeOK, AccountRow
<1>2. \A w \in Replicas : replica[w].pc = "idle"
  BY DEF AccountTokensInit, NoTask
<1> QED
  BY <1>1, <1>2 DEF AccountTokensInit, CurrentInv, AnswerIsLatest, OneAnswer, RowIsLatest,
     ReadIsOlder, TaskAt, SomeoneSchedules

-----------------------------------------------------------------------------
(* Types *)

LEMMA LoadTypes ==
  ASSUME TokensTypeOK, NEW w \in Replicas, NEW a \in TokenAccounts, NEW job \in BOOLEAN,
         Load(w, a, job)
  PROVE  replica' \in [Replicas -> Task]
<1>1. [pc |-> "loaded", job |-> job, account |-> a, row |-> account[a], new |-> 0] \in Task
  BY DEF TokensTypeOK, Task
<1> QED
  BY <1>1 DEF TokensTypeOK, Load

\* The ways in which a task ends without its work done.
Fails(w) ==
  RefuseInactive(w) \/ AnswerLost(w) \/ ProviderRefuses(w) \/ PersistFails(w) \/ WorkerDies(w)

\* An answer of the provider is dropped only with the account given up.
LEMMA FailureFacts ==
  ASSUME TokensTypeOK, NEW w \in Replicas, Fails(w)
  PROVE  /\ JobFails(w) /\ account' = account /\ TokensTypeOK'
         /\ unwritten \subseteq unwritten'
         /\ replica[w].pc = "refreshed" => replica[w].account \in unwritten'
         /\ \A a \in TokenAccounts \ unwritten' : latest'[a] = latest[a]
<1>1. JobFails(w) /\ account' = account
  BY DEF Fails, RefuseInactive, AnswerLost, ProviderRefuses, PersistFails, WorkerDies
<1>2. PICK a \in TokenAccounts : a = replica[w].account
  BY DEF TokensTypeOK, Task
<1>3. refreshJobs' \in [TokenAccounts -> Nat] /\ jobless' \subseteq TokenAccounts
  BY <1>1, <1>2 DEF JobFails, TokensTypeOK
<1>4. replica' \in [Replicas -> Task]
  BY <1>1, NoTaskIsATask DEF JobFails, Finish, TokensTypeOK
<1>5. unwritten' = unwritten \/ unwritten' = unwritten \cup {a}
  BY <1>2 DEF Fails, RefuseInactive, AnswerLost, ProviderRefuses, PersistFails, WorkerDies, NeverWritten
<1>6. CASE AnswerLost(w)
  <2>1. latest' = [latest EXCEPT ![a] = @ + 1] /\ unwritten' = unwritten \cup {a}
    BY <1>2, <1>6 DEF AnswerLost, Rotates, NeverWritten
  <2>2. latest[a] + 1 \in Nat
    BY DEF TokensTypeOK
  <2>3. latest' \in [TokenAccounts -> Nat]
    BY <2>1, <2>2 DEF TokensTypeOK
  <2> QED
    BY <1>1, <1>2, <1>3, <1>4, <2>1, <2>3 DEF TokensTypeOK
<1>7. CASE RefuseInactive(w) \/ ProviderRefuses(w) \/ PersistFails(w) \/ WorkerDies(w)
  <2>1. latest' = latest
    BY <1>7 DEF RefuseInactive, ProviderRefuses, PersistFails, WorkerDies
  <2>2. replica[w].pc = "refreshed" => a \in unwritten'
    BY <1>2, <1>7 DEF RefuseInactive, ProviderRefuses, PersistFails, WorkerDies, NeverWritten
  <2> QED
    BY <1>1, <1>2, <1>3, <1>4, <1>5, <2>1, <2>2 DEF TokensTypeOK
<1> QED
  BY <1>6, <1>7 DEF Fails

LEMMA StepTypes == TokensTypeOK /\ [AccountTokensNext]_tokenMgrVars => TokensTypeOK'
<1> SUFFICES ASSUME TokensTypeOK, [AccountTokensNext]_tokenMgrVars PROVE TokensTypeOK'
  OBVIOUS
<1> USE NoTaskIsATask, AccountTokensAssumption
<1>1. ASSUME NEW w \in Replicas, StartPublication(w) PROVE TokensTypeOK'
  <2>1. PICK a \in TokenAccounts : Load(w, a, FALSE)
    BY <1>1 DEF StartPublication
  <2>2. replica' \in [Replicas -> Task]
    BY <2>1, LoadTypes
  <2> QED
    BY <1>1, <2>2 DEF StartPublication, TokensTypeOK
<1>2. ASSUME NEW w \in Replicas, StartJob(w) PROVE TokensTypeOK'
  <2>1. PICK a \in TokenAccounts :
          /\ refreshJobs[a] > 0
          /\ Load(w, a, TRUE)
          /\ refreshJobs' = [refreshJobs EXCEPT ![a] = @ - 1]
    BY <1>2 DEF StartJob
  <2>2. replica' \in [Replicas -> Task]
    BY <2>1, LoadTypes
  <2>3. refreshJobs' \in [TokenAccounts -> Nat]
    BY <2>1 DEF TokensTypeOK
  <2> QED
    BY <1>2, <2>2, <2>3 DEF StartJob, TokensTypeOK
<1>3. ASSUME NEW w \in Replicas, Fails(w) PROVE TokensTypeOK'
  BY <1>3, FailureFacts
<1>4. ASSUME NEW w \in Replicas, UseToken(w) PROVE TokensTypeOK'
  BY <1>4 DEF UseToken, Finish, TokensTypeOK
<1>5. ASSUME NEW w \in Replicas, ProviderRefreshes(w) PROVE TokensTypeOK'
  <2>1. replica[w].account \in TokenAccounts
    BY DEF TokensTypeOK, Task
  <2>2. latest[replica[w].account] + 1 \in Nat
    BY <2>1 DEF TokensTypeOK
  <2>3. replica' \in [Replicas -> Task]
    BY <1>5, <2>2 DEF ProviderRefreshes, Rotates, TokensTypeOK, Task
  <2>4. latest' \in [TokenAccounts -> Nat]
    BY <1>5, <2>1, <2>2 DEF ProviderRefreshes, Rotates, TokensTypeOK
  <2> QED
    BY <1>5, <2>3, <2>4 DEF ProviderRefreshes, Rotates, TokensTypeOK
<1>6. ASSUME NEW w \in Replicas, PersistTokens(w) PROVE TokensTypeOK'
  <2>1. Refreshed(w) \in AccountRow
    BY DEF Refreshed, NewRefreshToken, TokensTypeOK, Task, AccountRow
  <2>2. replica' \in [Replicas -> Task]
    BY <1>6 DEF PersistTokens, ReplicaGoes, TokensTypeOK, Task
  <2> QED
    BY <1>6, <2>1, <2>2 DEF PersistTokens, TokensTypeOK
<1>7. ASSUME NEW w \in Replicas, ScheduleDelete(w) \/ ScheduleInsert(w) \/ ScheduleFails(w)
      PROVE  TokensTypeOK'
  <2>1. replica' \in [Replicas -> Task]
    BY <1>7 DEF ScheduleDelete, ScheduleInsert, ScheduleFails, Finish, ReplicaGoes, TokensTypeOK, Task
  <2>2. refreshJobs' \in [TokenAccounts -> Nat] /\ jobless' \subseteq TokenAccounts
    BY <1>7 DEF ScheduleDelete, ScheduleInsert, ScheduleFails, Scheduled, TokensTypeOK, Task
  <2> QED
    BY <1>7, <2>1, <2>2 DEF ScheduleDelete, ScheduleInsert, ScheduleFails, TokensTypeOK
<1>9. ASSUME NEW a \in TokenAccounts, Disconnect(a) \/ ComesNear(a) PROVE TokensTypeOK'
  <2>1. account \in [TokenAccounts -> AccountRow] /\ account[a] \in AccountRow
    BY DEF TokensTypeOK
  <2>2. /\ [account[a] EXCEPT !.expires = "near"] \in AccountRow
        /\ [account[a] EXCEPT !.active = FALSE] \in AccountRow
    BY <2>1 DEF AccountRow
  <2>3. account' \in [TokenAccounts -> AccountRow]
    BY <1>9, <2>1, <2>2 DEF Disconnect, ComesNear
  <2>4. refreshJobs' \in [TokenAccounts -> Nat] /\ UNCHANGED <<latest, unwritten, jobless, replica>>
    BY <1>9 DEF Disconnect, ComesNear, TokensTypeOK
  <2> QED
    BY <2>3, <2>4 DEF TokensTypeOK
<1>10. CASE UNCHANGED tokenMgrVars
  BY <1>10 DEF tokenMgrVars, TokensTypeOK
<1> QED
  BY <1>1, <1>2, <1>3, <1>4, <1>5, <1>6, <1>7, <1>9, <1>10 DEF AccountTokensNext, Fails

-----------------------------------------------------------------------------
(* The token in the row *)

\* A step writes no token, brings no answer and drops none, but for accounts it
\* gives up, and what it reads is the row.
Quiet ==
  /\ unwritten \subseteq unwritten'
  /\ \A a \in TokenAccounts \ unwritten' : latest'[a] = latest[a]
  /\ \A a \in TokenAccounts : account'[a].refresh = account[a].refresh
  /\ \A a \in TokenAccounts \ unwritten', w \in Replicas :
       /\ TaskAt(w, a, "refreshed")' <=> TaskAt(w, a, "refreshed")
       /\ TaskAt(w, a, "refreshed") => replica'[w].new = replica[w].new
       /\ TaskAt(w, a, "loaded")' => \/ TaskAt(w, a, "loaded") /\ replica'[w].row = replica[w].row
                                 \/ replica'[w].row = account[a]

LEMMA QuietStep == ASSUME CurrentInv, TokensTypeOK', Quiet PROVE CurrentInv'
<1> USE DEF Quiet, CurrentInv
<1>1. AnswerIsLatest'
  BY DEF AnswerIsLatest
<1>2. OneAnswer'
  BY DEF OneAnswer
<1>3. RowIsLatest'
  BY DEF RowIsLatest
<1>4. ReadIsOlder'
  <2> SUFFICES ASSUME NEW a \in TokenAccounts \ unwritten', NEW w \in Replicas,
                      TaskAt(w, a, "loaded")'
               PROVE  replica'[w].row.refresh <= account'[a].refresh
    BY DEF ReadIsOlder
  <2>1. account[a].refresh \in Nat /\ a \notin unwritten
    BY DEF TokensTypeOK, AccountRow
  <2>2. CASE TaskAt(w, a, "loaded") /\ replica'[w].row = replica[w].row
    BY <2>1, <2>2 DEF ReadIsOlder
  <2>3. CASE replica'[w].row = account[a]
    BY <2>1, <2>3
  <2> QED
    BY <2>2, <2>3
<1> QED
  BY <1>1, <1>2, <1>3, <1>4

\* A task that ends without an answer is quiet.
LEMMA FinishIsQuiet ==
  ASSUME TokensTypeOK, NEW w \in Replicas, Finish(w), account' = account,
         \A a \in TokenAccounts \ unwritten' : latest'[a] = latest[a],
         unwritten \subseteq unwritten',
         replica[w].pc # "refreshed" \/ replica[w].account \in unwritten'
  PROVE  Quiet
<1>1. replica'[w].pc = "idle" /\ \A v \in Replicas \ {w} : replica'[v] = replica[v]
  BY DEF Finish, NoTask, TokensTypeOK
<1> QED
  BY <1>1 DEF Quiet, TaskAt

LEMMA LoadIsQuiet ==
  ASSUME TokensTypeOK, NEW w \in Replicas, NEW a \in TokenAccounts, NEW job \in BOOLEAN,
         Load(w, a, job), UNCHANGED <<account, latest, unwritten>>
  PROVE  Quiet
<1>1. replica'[w] = [pc |-> "loaded", job |-> job, account |-> a, row |-> account[a], new |-> 0]
  BY DEF Load, TokensTypeOK
<1>2. replica[w].pc = "idle" /\ \A v \in Replicas \ {w} : replica'[v] = replica[v]
  BY DEF Load, TokensTypeOK
<1> QED
  BY <1>1, <1>2 DEF Quiet, TaskAt

LEMMA StepCurrent ==
  ASSUME CurrentInv, [AccountTokensNext]_tokenMgrVars
  PROVE  CurrentInv'
<1>0. TokensTypeOK /\ TokensTypeOK'
  BY StepTypes DEF CurrentInv
<1>1. ASSUME NEW w \in Replicas, StartPublication(w) \/ StartJob(w) PROVE CurrentInv'
  <2>1. PICK a \in TokenAccounts, job \in BOOLEAN : Load(w, a, job)
    BY <1>1 DEF StartPublication, StartJob
  <2>2. UNCHANGED <<account, latest, unwritten>>
    BY <1>1 DEF StartPublication, StartJob
  <2> QED
    BY <1>0, <2>1, <2>2, LoadIsQuiet, QuietStep
<1>2. ASSUME NEW w \in Replicas, UseToken(w) \/ ScheduleInsert(w) \/ ScheduleFails(w)
      PROVE  CurrentInv'
  <2>1. /\ Finish(w) /\ UNCHANGED <<account, latest, unwritten>>
        /\ replica[w].pc # "refreshed"
    BY <1>2 DEF UseToken, ScheduleInsert, ScheduleFails
  <2> QED
    BY <1>0, <2>1, FinishIsQuiet, QuietStep
<1>3. ASSUME NEW w \in Replicas, Fails(w) PROVE CurrentInv'
  <2>1. Finish(w)
    BY <1>0, <1>3, FailureFacts DEF JobFails
  <2> QED
    BY <1>0, <1>3, <2>1, FailureFacts, FinishIsQuiet, QuietStep
<1>4. ASSUME NEW w \in Replicas, ScheduleDelete(w) PROVE CurrentInv'
  <2>1. \A v \in Replicas, a \in TokenAccounts, pc \in {"loaded", "refreshed"} :
          TaskAt(v, a, pc)' <=> TaskAt(v, a, pc)
    BY <1>0, <1>4 DEF ScheduleDelete, ReplicaGoes, TokensTypeOK, Task, TaskAt
  <2>2. \A v \in Replicas : replica'[v].new = replica[v].new /\ replica'[v].row = replica[v].row
    BY <1>0, <1>4 DEF ScheduleDelete, ReplicaGoes, TokensTypeOK, Task
  <2> QED
    BY <1>0, <1>4, <2>1, <2>2, QuietStep DEF ScheduleDelete, Quiet
<1>5. ASSUME NEW w \in Replicas, ProviderRefreshes(w) PROVE CurrentInv'
  <2>0. PICK a \in TokenAccounts : a = replica[w].account
    BY <1>0 DEF TokensTypeOK, Task
  <2>1. a \in TokenAccounts /\ latest[a] \in Nat /\ latest'[a] = latest[a] + 1
    BY <1>0, <1>5, <2>0 DEF ProviderRefreshes, Rotates, TokensTypeOK, Task
  <2>2. /\ TaskAt(w, a, "refreshed")' /\ replica'[w].new = latest'[a]
        /\ \A v \in Replicas \ {w} : replica'[v] = replica[v]
        /\ \A b \in TokenAccounts : b # a => latest'[b] = latest[b] /\ ~TaskAt(w, b, "refreshed")'
        /\ \A b \in TokenAccounts : ~TaskAt(w, b, "loaded")'
    BY <1>0, <1>5, <2>0, <2>1 DEF ProviderRefreshes, Rotates, TokensTypeOK, Task, TaskAt
  <2>3. UNCHANGED <<account, unwritten>>
    BY <1>5 DEF ProviderRefreshes, Rotates
  <2>4. a \notin unwritten => /\ account[a].refresh = latest[a]
                           /\ \A v \in Replicas : ~TaskAt(v, a, "refreshed")
    <3> SUFFICES ASSUME a \notin unwritten PROVE \A v \in Replicas : ~TaskAt(v, a, "refreshed")
      BY <2>1 DEF CurrentInv, RowIsLatest
    <3>1. TaskAt(w, a, "loaded") /\ replica[w].row.refresh = latest[a]
      BY <1>5, <2>0 DEF ProviderRefreshes, Rotates, TaskAt
    <3>2. latest[a] <= account[a].refresh /\ account[a].refresh \in Nat
      BY <1>0, <2>1, <3>1 DEF CurrentInv, ReadIsOlder, TokensTypeOK, AccountRow
    <3> QED
      BY <2>1, <3>2 DEF CurrentInv, AnswerIsLatest
  <2>5. \A v \in Replicas, b \in TokenAccounts :
          v # w => (TaskAt(v, b, "refreshed")' <=> TaskAt(v, b, "refreshed"))
                   /\ (TaskAt(v, b, "loaded")' <=> TaskAt(v, b, "loaded"))
    BY <2>2 DEF TaskAt
  <2>6. AnswerIsLatest'
    <3> SUFFICES ASSUME NEW b \in TokenAccounts \ unwritten, NEW v \in Replicas,
                        TaskAt(v, b, "refreshed")'
                 PROVE  replica'[v].new = latest'[b] /\ account'[b].refresh < latest'[b]
      BY <2>3 DEF AnswerIsLatest
    <3>1. CASE v = w
      BY <3>1, <2>1, <2>2, <2>3, <2>4
    <3>2. CASE v # w
      <4>1. TaskAt(v, b, "refreshed") /\ b # a
        BY <3>2, <2>4, <2>5
      <4> QED
        BY <4>1, <3>2, <2>2, <2>3 DEF CurrentInv, AnswerIsLatest
    <3> QED
      BY <3>1, <3>2
  <2>7. OneAnswer'
    <3> SUFFICES ASSUME NEW b \in TokenAccounts \ unwritten, NEW u \in Replicas, NEW v \in Replicas,
                        TaskAt(u, b, "refreshed")', TaskAt(v, b, "refreshed")'
                 PROVE  u = v
      BY <2>3 DEF OneAnswer
    <3>1. CASE b = a
      BY <3>1, <2>4, <2>5
    <3>2. CASE b # a
      BY <3>2, <2>2, <2>5 DEF CurrentInv, OneAnswer
    <3> QED
      BY <3>1, <3>2
  <2>8. RowIsLatest'
    <3> SUFFICES ASSUME NEW b \in TokenAccounts \ unwritten,
                        \A v \in Replicas : ~TaskAt(v, b, "refreshed")'
                 PROVE  account'[b].refresh = latest'[b]
      BY <2>3 DEF RowIsLatest
    <3>1. b # a
      BY <2>1, <2>2
    <3>2. \A v \in Replicas : ~TaskAt(v, b, "refreshed")
      <4>1. ~TaskAt(w, b, "refreshed")
        BY <1>5 DEF ProviderRefreshes, Rotates, TaskAt
      <4> QED
        BY <4>1, <2>5
    <3> QED
      BY <3>1, <3>2, <2>2, <2>3 DEF CurrentInv, RowIsLatest
  <2>9. ReadIsOlder'
    BY <2>2, <2>3, <2>5 DEF CurrentInv, ReadIsOlder
  <2> QED
    BY <1>0, <2>6, <2>7, <2>8, <2>9 DEF CurrentInv
<1>6. ASSUME NEW w \in Replicas, PersistTokens(w) PROVE CurrentInv'
  <2>0. PICK a \in TokenAccounts : a = replica[w].account
    BY <1>0 DEF TokensTypeOK, Task
  <2>1. a \in TokenAccounts /\ account[a] \in AccountRow /\ replica[w].new \in Nat
    BY <1>0, <2>0 DEF TokensTypeOK, Task
  <2>2. TaskAt(w, a, "refreshed") /\ UNCHANGED <<latest, unwritten>>
    BY <1>6, <2>0 DEF PersistTokens, TaskAt
  <2>3. /\ account'[a].refresh = replica[w].new
        /\ \A b \in TokenAccounts : b # a => account'[b] = account[b]
    BY <1>0, <1>6, <2>0, <2>1 DEF PersistTokens, Refreshed, NewRefreshToken, TokensTypeOK, AccountRow
  <2>4. /\ \A v \in Replicas \ {w} : replica'[v] = replica[v]
        /\ \A b \in TokenAccounts : ~TaskAt(w, b, "refreshed")' /\ ~TaskAt(w, b, "loaded")'
    BY <1>0, <1>6, <2>0 DEF PersistTokens, ReplicaGoes, TokensTypeOK, Task, TaskAt
  <2>5. a \notin unwritten => /\ replica[w].new = latest[a]
                           /\ account[a].refresh < latest[a]
                           /\ \A v \in Replicas \ {w} : ~TaskAt(v, a, "refreshed")
    BY <2>1, <2>2 DEF CurrentInv, AnswerIsLatest, OneAnswer
  <2>5a. \A b \in TokenAccounts : b # a => ~TaskAt(w, b, "refreshed")
    BY <2>0 DEF TaskAt
  <2>6. \A v \in Replicas, b \in TokenAccounts :
          v # w => (TaskAt(v, b, "refreshed")' <=> TaskAt(v, b, "refreshed"))
                   /\ (TaskAt(v, b, "loaded")' <=> TaskAt(v, b, "loaded"))
    BY <2>4 DEF TaskAt
  <2>7. AnswerIsLatest'
    <3> SUFFICES ASSUME NEW b \in TokenAccounts \ unwritten, NEW v \in Replicas,
                        TaskAt(v, b, "refreshed")'
                 PROVE  replica'[v].new = latest'[b] /\ account'[b].refresh < latest'[b]
      BY <2>2 DEF AnswerIsLatest
    <3>1. v # w /\ TaskAt(v, b, "refreshed") /\ b # a
      BY <2>4, <2>5, <2>6
    <3> QED
      BY <3>1, <2>2, <2>3, <2>4 DEF CurrentInv, AnswerIsLatest
  <2>8. OneAnswer'
    BY <2>2, <2>4, <2>6 DEF CurrentInv, OneAnswer
  <2>9. RowIsLatest'
    <3> SUFFICES ASSUME NEW b \in TokenAccounts \ unwritten,
                        \A v \in Replicas : ~TaskAt(v, b, "refreshed")'
                 PROVE  account'[b].refresh = latest'[b]
      BY <2>2 DEF RowIsLatest
    <3>1. CASE b = a
      BY <3>1, <2>2, <2>3, <2>5
    <3>2. CASE b # a
      <4>1. \A v \in Replicas : ~TaskAt(v, b, "refreshed")
        BY <3>2, <2>5a, <2>6
      <4> QED
        BY <4>1, <3>2, <2>2, <2>3 DEF CurrentInv, RowIsLatest
    <3> QED
      BY <3>1, <3>2
  <2>10. ReadIsOlder'
    <3> SUFFICES ASSUME NEW b \in TokenAccounts \ unwritten, NEW v \in Replicas,
                        TaskAt(v, b, "loaded")'
                 PROVE  replica'[v].row.refresh <= account'[b].refresh
      BY <2>2 DEF ReadIsOlder
    <3>1. v # w /\ TaskAt(v, b, "loaded") /\ replica'[v] = replica[v]
      BY <2>4, <2>6
    <3>2. replica[v].row.refresh <= account[b].refresh
      BY <3>1 DEF CurrentInv, ReadIsOlder
    <3>3. replica[v].row.refresh \in Nat /\ account[b].refresh \in Nat /\ latest[b] \in Nat
      BY <1>0 DEF TokensTypeOK, Task, AccountRow
    <3> QED
      BY <3>1, <3>2, <3>3, <2>3, <2>5
  <2> QED
    BY <1>0, <2>7, <2>8, <2>9, <2>10 DEF CurrentInv
<1>7. ASSUME NEW a \in TokenAccounts, Disconnect(a) \/ ComesNear(a) PROVE CurrentInv'
  <2>1. \A b \in TokenAccounts : account'[b].refresh = account[b].refresh
    BY <1>0, <1>7 DEF Disconnect, ComesNear, TokensTypeOK, AccountRow
  <2>2. UNCHANGED <<latest, unwritten, replica>>
    BY <1>7 DEF Disconnect, ComesNear
  <2> QED
    BY <1>0, <2>1, <2>2, QuietStep DEF Quiet, TaskAt
<1>8. CASE UNCHANGED tokenMgrVars
  BY <1>0, <1>8, QuietStep DEF tokenMgrVars, Quiet, TaskAt
<1> QED
  BY <1>1, <1>2, <1>3, <1>4, <1>5, <1>6, <1>7, <1>8 DEF AccountTokensNext, Fails

-----------------------------------------------------------------------------
(* The refresh job *)

\* An account keeps its job, or a task that puts one back.
LEMMA KeepsScheduling ==
  ASSUME TokensTypeOK, SomeoneSchedules,
         jobless \subseteq jobless',
         \A a \in TokenAccounts \ jobless' :
           \/ refreshJobs'[a] > 0
           \/ \E w \in Replicas : Schedules(w, a)'
           \/ /\ refreshJobs'[a] = refreshJobs[a]
              /\ \A w \in Replicas : Schedules(w, a) => Schedules(w, a)'
  PROVE  SomeoneSchedules'
  BY DEF SomeoneSchedules

\* A task of a job that fails leaves the job, or the account is given up.
LEMMA FailedJobStays ==
  ASSUME TokensTypeOK, NEW w \in Replicas, JobFails(w),
         replica[w].pc \in {"delete", "insert"} => replica[w].job,
         NEW a \in TokenAccounts \ jobless'
  PROVE  \/ refreshJobs'[a] > 0
         \/ /\ refreshJobs'[a] = refreshJobs[a]
            /\ \A v \in Replicas : Schedules(v, a) => Schedules(v, a)'
<1>1. \A v \in Replicas \ {w} : replica'[v] = replica[v]
  BY DEF JobFails, Finish, TokensTypeOK
<1>2. CASE replica[w].job /\ replica[w].account = a
  BY <1>2 DEF JobFails, TokensTypeOK
<1>3. CASE ~(replica[w].job /\ replica[w].account = a)
  <2>1. refreshJobs'[a] = refreshJobs[a]
    BY <1>3 DEF JobFails, TokensTypeOK
  <2>2. ~Schedules(w, a)
    BY <1>3 DEF Schedules, TokensTypeOK, Task
  <2> QED
    BY <1>1, <2>1, <2>2 DEF Schedules
<1> QED
  BY <1>2, <1>3

LEMMA StepSchedules ==
  ASSUME TokensTypeOK, SomeoneSchedules, [AccountTokensNext]_tokenMgrVars
  PROVE  SomeoneSchedules'
<1>1. ASSUME NEW w \in Replicas, StartPublication(w) PROVE SomeoneSchedules'
  <2>1. PICK a \in TokenAccounts : Load(w, a, FALSE)
    BY <1>1 DEF StartPublication
  <2>2. replica[w].pc = "idle" /\ \A v \in Replicas \ {w} : replica'[v] = replica[v]
    BY <2>1 DEF Load, TokensTypeOK
  <2> QED
    BY <1>1, <2>2, KeepsScheduling DEF StartPublication, Schedules
<1>2. ASSUME NEW w \in Replicas, StartJob(w) PROVE SomeoneSchedules'
  <2>1. PICK a \in TokenAccounts :
          /\ Load(w, a, TRUE)
          /\ refreshJobs' = [refreshJobs EXCEPT ![a] = @ - 1]
    BY <1>2 DEF StartJob
  <2>2. replica[w].pc = "idle" /\ \A v \in Replicas \ {w} : replica'[v] = replica[v]
    BY <2>1 DEF Load, TokensTypeOK
  <2>3. Schedules(w, a)'
    BY <2>1 DEF Load, TokensTypeOK, Schedules
  <2>4. \A b \in TokenAccounts : b # a =>
          /\ refreshJobs'[b] = refreshJobs[b]
          /\ \A v \in Replicas : Schedules(v, b) => Schedules(v, b)'
    BY <2>1, <2>2 DEF TokensTypeOK, Schedules
  <2>5. jobless' = jobless
    BY <1>2 DEF StartJob
  <2> QED
    BY <2>3, <2>4, <2>5, KeepsScheduling
<1>3. ASSUME NEW w \in Replicas, Fails(w) PROVE SomeoneSchedules'
  <2>1. JobFails(w)
    BY <1>3, FailureFacts
  <2>2. replica[w].pc \in {"delete", "insert"} => replica[w].job
    BY <1>3 DEF Fails, RefuseInactive, AnswerLost, ProviderRefuses, PersistFails, WorkerDies, Rotates
  <2>3. jobless \subseteq jobless'
    BY <2>1 DEF JobFails
  <2> QED
    BY <2>1, <2>2, <2>3, FailedJobStays, KeepsScheduling
<1>4. ASSUME NEW w \in Replicas, UseToken(w) PROVE SomeoneSchedules'
  <2>1. \A v \in Replicas \ {w} : replica'[v] = replica[v]
    BY <1>4 DEF UseToken, Finish, TokensTypeOK
  <2>2. \A a \in TokenAccounts : ~Schedules(w, a)
    BY <1>4 DEF UseToken, Schedules
  <2>3. UNCHANGED <<refreshJobs, jobless>>
    BY <1>4 DEF UseToken
  <2> QED
    BY <2>1, <2>2, <2>3, KeepsScheduling DEF Schedules
<1>5. ASSUME NEW w \in Replicas, ProviderRefreshes(w) \/ PersistTokens(w)
      PROVE  SomeoneSchedules'
  <2>1. \A v \in Replicas \ {w} : replica'[v] = replica[v]
    BY <1>5 DEF ProviderRefreshes, PersistTokens, ReplicaGoes, TokensTypeOK
  <2>2. /\ replica'[w].job = replica[w].job /\ replica'[w].account = replica[w].account
        /\ replica[w].pc # "insert" /\ replica'[w].pc # "idle"
    BY <1>5 DEF ProviderRefreshes, Rotates, PersistTokens, ReplicaGoes, TokensTypeOK, Task
  <2>3. UNCHANGED <<refreshJobs, jobless>>
    BY <1>5 DEF ProviderRefreshes, PersistTokens
  <2> QED
    BY <2>1, <2>2, <2>3, KeepsScheduling DEF Schedules
<1>6. ASSUME NEW w \in Replicas, ScheduleDelete(w) PROVE SomeoneSchedules'
  <2>0. PICK a \in TokenAccounts : a = replica[w].account
    BY DEF TokensTypeOK, Task
  <2>1. \A v \in Replicas \ {w} : replica'[v] = replica[v]
    BY <1>6 DEF ScheduleDelete, ReplicaGoes, TokensTypeOK
  <2>2. Schedules(w, a)'
    BY <1>6, <2>0 DEF ScheduleDelete, ReplicaGoes, TokensTypeOK, Task, Schedules
  <2>3. \A b \in TokenAccounts : b # a => refreshJobs'[b] = refreshJobs[b] /\ ~Schedules(w, b)
    BY <1>6, <2>0 DEF ScheduleDelete, Scheduled, TokensTypeOK, Schedules
  <2>4. jobless' = jobless
    BY <1>6 DEF ScheduleDelete
  <2>5. \A b \in TokenAccounts : b # a =>
          \A v \in Replicas : Schedules(v, b) => Schedules(v, b)'
    BY <2>1, <2>3 DEF Schedules
  <2> QED
    BY <2>2, <2>3, <2>4, <2>5, KeepsScheduling
<1>7. ASSUME NEW w \in Replicas, ScheduleInsert(w) PROVE SomeoneSchedules'
  <2>0. PICK a \in TokenAccounts : a = replica[w].account
    BY DEF TokensTypeOK, Task
  <2>1. \A v \in Replicas \ {w} : replica'[v] = replica[v]
    BY <1>7 DEF ScheduleInsert, Finish, TokensTypeOK
  <2>2. refreshJobs'[a] > 0
    BY <1>7, <2>0, AccountTokensAssumption DEF ScheduleInsert, Scheduled, ScheduleOrder, TokensTypeOK
  <2>3. \A b \in TokenAccounts : b # a => refreshJobs'[b] = refreshJobs[b] /\ ~Schedules(w, b)
    BY <1>7, <2>0 DEF ScheduleInsert, Scheduled, TokensTypeOK, Schedules
  <2>4. jobless' = jobless
    BY <1>7 DEF ScheduleInsert
  <2>5. \A b \in TokenAccounts : b # a =>
          \A v \in Replicas : Schedules(v, b) => Schedules(v, b)'
    BY <2>1, <2>3 DEF Schedules
  <2> QED
    BY <2>2, <2>3, <2>4, <2>5, KeepsScheduling
<1>8. ASSUME NEW w \in Replicas, ScheduleFails(w) PROVE SomeoneSchedules'
  <2>0. PICK a \in TokenAccounts : a = replica[w].account
    BY DEF TokensTypeOK, Task
  <2>1. \A v \in Replicas \ {w} : replica'[v] = replica[v]
    BY <1>8 DEF ScheduleFails, Finish, TokensTypeOK
  <2>2. /\ jobless \subseteq jobless' /\ refreshJobs' = refreshJobs
        /\ Schedules(w, a) => a \in jobless'
    BY <1>8, <2>0 DEF ScheduleFails, Schedules
  <2>3. \A b \in TokenAccounts : b # a => ~Schedules(w, b)
    BY <2>0 DEF Schedules
  <2>4. \A b \in TokenAccounts \ jobless' : \A v \in Replicas :
          Schedules(v, b) => Schedules(v, b)'
    BY <2>1, <2>2, <2>3 DEF Schedules
  <2> QED
    BY <2>2, <2>4, KeepsScheduling
<1>9. CASE \/ \E a \in TokenAccounts : Disconnect(a) \/ ComesNear(a)
           \/ UNCHANGED tokenMgrVars
  <2>1. UNCHANGED <<refreshJobs, jobless, replica>>
    BY <1>9 DEF Disconnect, ComesNear, tokenMgrVars
  <2> QED
    BY <2>1 DEF SomeoneSchedules, Schedules
<1> QED
  BY <1>1, <1>2, <1>3, <1>4, <1>5, <1>6, <1>7, <1>8, <1>9 DEF AccountTokensNext, Fails

-----------------------------------------------------------------------------
(* Theorems *)

LEMMA StepTokens == [PlatformsNext]_platformsVars => [AccountTokensNext]_tokenMgrVars
BY DEF PlatformsNext, Connecting, Posting, platformsVars, providerVars

LEMMA TokensInvariant == PlatformsSpec => [](CurrentInv /\ SomeoneSchedules)
<1>1. PlatformsInit => CurrentInv /\ SomeoneSchedules
  BY InitTokens DEF PlatformsInit
<1>2. CurrentInv /\ SomeoneSchedules /\ [PlatformsNext]_platformsVars
        => (CurrentInv /\ SomeoneSchedules)'
  BY StepTokens, StepCurrent, StepSchedules DEF CurrentInv
<1> QED
  BY <1>1, <1>2, PTL DEF PlatformsSpec, PlatformsSafety

\* However many replicas refresh the token of an account at once, and however
\* often they fail, the refresh token in its row is the one the provider accepts
\* when they are done, unless an answer of the provider was never written; and
\* its next refresh is scheduled, unless a job failed for good or a statement
\* that schedules did.
THEOREM RefreshSafetyHolds == PlatformsSpec => []RefreshSafety
<1>1. CurrentInv /\ SomeoneSchedules => RefreshSafety
  <2> SUFFICES ASSUME CurrentInv, SomeoneSchedules
               PROVE  RefreshTokenIsCurrent /\ RefreshIsScheduled
    BY DEF RefreshSafety
  <2>1. RefreshTokenIsCurrent
    BY DEF CurrentInv, RowIsLatest, RefreshTokenIsCurrent, InFlight, TaskAt
  <2>2. RefreshIsScheduled
    BY DEF SomeoneSchedules, Schedules, RefreshIsScheduled, InFlight
  <2> QED
    BY <2>1, <2>2
<1> QED
  BY <1>1, TokensInvariant, PTL

\* A disconnected account stays disconnected under any refresh in flight.
THEOREM DisconnectIsFinalHolds == PlatformsSpec => DisconnectIsFinal
<1>1. CurrentInv /\ [AccountTokensNext]_tokenMgrVars
        => [\A a \in TokenAccounts : ~account[a].active => ~account'[a].active]_account
  <2> SUFFICES ASSUME TokensTypeOK, [AccountTokensNext]_tokenMgrVars,
                      account' # account, NEW a \in TokenAccounts, ~account[a].active
               PROVE  ~account'[a].active
    BY DEF CurrentInv
  <2>1. ASSUME NEW w \in Replicas, PersistTokens(w) PROVE ~account'[a].active
    <3>1. Refreshed(w).active = account[replica[w].account].active
      BY DEF Refreshed, TokensTypeOK, Task, AccountRow
    <3>2. account'[a] = IF a = replica[w].account THEN Refreshed(w) ELSE account[a]
      BY <2>1 DEF PersistTokens, TokensTypeOK
    <3> QED
      BY <3>1, <3>2
  <2>2. ASSUME NEW b \in TokenAccounts, Disconnect(b) \/ ComesNear(b)
        PROVE  ~account'[a].active
    BY <2>2 DEF Disconnect, ComesNear, TokensTypeOK, AccountRow
  <2>3. \/ \E w \in Replicas : PersistTokens(w)
        \/ \E b \in TokenAccounts : Disconnect(b) \/ ComesNear(b)
    BY DEF AccountTokensNext, tokenMgrVars, StartPublication, StartJob, RefuseInactive, UseToken,
       ProviderRefreshes, AnswerLost, ProviderRefuses, PersistFails, ScheduleDelete, ScheduleInsert,
       ScheduleFails, WorkerDies
  <2> QED
    BY <2>1, <2>2, <2>3
<1> QED
  BY <1>1, StepTokens, TokensInvariant, PTL DEF PlatformsSpec, PlatformsSafety, DisconnectIsFinal

-----------------------------------------------------------------------------
(* Connections of accounts *)

SavedRow == [kind : Kinds \cup {"none", "bluesky"}, at : Instances \cup {NoInstance},
             from : States \cup {"none"}]
Ways == {"none", "name", "server", "instance"}
StateRow == {x \in [row : {"none", "open", "gone"}, kind : Kinds \cup {"none", "bluesky"},
                    at : Instances \cup {NoInstance}, by : Ways, due : BOOLEAN] :
               x.at \in Instances => x.by # "none"}
ClientNames == Flows \cup {"none", "configured"}
LoadingPcs == {"loadApp", "insertApp", "adapt"}
FlowPcs == LoadingPcs \cup {"idle", "createState", "consume", "exchange", "noSecret", "wrongClient",
                            "choose", "quota", "insert", "mark"}
FlowRow == {x \in [pc : FlowPcs, s : States, kind : Kinds \cup {"none", "bluesky"},
                   at : Instances \cup {NoInstance}, by : Ways,
                   for : {"none", "createState", "exchange"}, client : ClientNames, count : {0}] :
              x.at \in Instances => x.by # "none"}

ConnTypeOK ==
  /\ state \in [States -> StateRow]
  /\ app \in [Instances -> ClientNames]
  /\ code \in [States -> ClientNames \cup {"used"}]
  /\ selection \in [States -> {"none", "pending", "consumed"}]
  /\ saved \in [SavedAccounts -> SavedRow]
  /\ flow \in [Flows -> FlowRow]

\* The adapters of instances that are not configured have the stored client.
AdaptersFit ==
  /\ adapterOf \in [Instances -> ClientNames]
  /\ \A i \in Instances \ Configured :
       adapterOf[i] = NoClientYet \/ (app[i] # NoClientYet /\ adapterOf[i] = app[i])

\* What a lookup finds does not change, but for a configured instance under its URL.
Registered(at, by) == at \in Instances /\ by # "name"
Loose(at, by) == at \in Configured /\ by = "server"
RightClient(at, by, c) ==
  \/ Loose(at, by)
  \/ Registered(at, by) /\ app[at] # NoClientYet /\ c = app[at]
  \/ ~Registered(at, by) /\ c = "configured"

\* A code was given to the client that its state's lookup finds.
CodesKnow ==
  \A s \in States : state[s].row # "none" =>
    code[s] = "used" \/ RightClient(state[s].at, state[s].by, code[s])

\* A callback has a state, and is about the instance of that state.
OfState(r) ==
  /\ state[r.s].row # "none" /\ state[r.s].at = r.at
  /\ r.by = state[r.s].by \/ (state[r.s].by = "instance" /\ r.by = "server")

HasAccount(s) == \E a \in Active : saved[a].kind = "choice" /\ saved[a].from = s

\* What a request knows of the rest.
Knows(r) ==
  /\ r.pc \in LoadingPcs =>
       Registered(r.at, r.by) /\ r.for \in {"createState", "exchange"}
  /\ r.pc = "insertApp" => r.client \in Flows
  /\ r.pc = "adapt" => app[r.at] # NoClientYet /\ r.client = app[r.at]
  /\ r.pc \in {"createState", "exchange"} => RightClient(r.at, r.by, r.client)
  /\ r.pc = "wrongClient" => Loose(r.at, r.by)
  /\ r.pc \in {"consume", "exchange"} \/ (r.pc \in LoadingPcs /\ r.for = "exchange") => OfState(r)
  /\ r.pc = "mark" => HasAccount(r.s)

\* AccountsNearLimit with the requests that were allowed one account more.
Inserting == {f \in Flows : flow[f].pc = "insert"}

RoomForAccounts ==
  /\ IsFiniteSet(Active)
  /\ Cardinality(Active) + Cardinality(Inserting) <= AccountLimit + Cardinality(Flows) - 1

ConnInv ==
  /\ ConnTypeOK /\ AdaptersFit /\ CodesKnow /\ RoomForAccounts
  /\ \A f \in Flows : Knows(flow[f])
  /\ \A s \in States : selection[s] = "consumed" => HasAccount(s)

-----------------------------------------------------------------------------
LEMMA InsertingIsFinite ==
  /\ IsFiniteSet(Inserting) /\ Cardinality(Inserting) \in Nat
  /\ Cardinality(Flows) \in Nat /\ Cardinality(Flows) >= 1 /\ AccountLimit \in Nat
<1>1. Inserting \in SUBSET Flows /\ IsFiniteSet(Flows) /\ Flows # {}
  BY ConnectionsAssumption DEF Inserting
<1>2. IsFiniteSet(Inserting)
  BY <1>1, FS_Subset
<1>3. Cardinality(Inserting) \in Nat /\ Cardinality(Flows) \in Nat
  BY <1>1, <1>2, FS_CardinalityType
<1>4. Cardinality(Flows) # 0
  BY <1>1, FS_EmptySet
<1> QED
  BY <1>2, <1>3, <1>4, ConnectionsAssumption

LEMMA AccountsAreNear == RoomForAccounts => AccountsNearLimit
<1> SUFFICES ASSUME RoomForAccounts PROVE AccountsNearLimit
  OBVIOUS
<1>1. Cardinality(Active) \in Nat
  BY FS_CardinalityType DEF RoomForAccounts
<1> QED
  BY <1>1, InsertingIsFinite DEF RoomForAccounts, AccountsNearLimit

LEMMA NoMoreAccounts ==
  ASSUME RoomForAccounts, Active' \subseteq Active, Inserting' \subseteq Inserting
  PROVE  RoomForAccounts'
<1>1. /\ IsFiniteSet(Active') /\ Cardinality(Active') <= Cardinality(Active)
      /\ IsFiniteSet(Inserting') /\ Cardinality(Inserting') <= Cardinality(Inserting)
  BY FS_Subset, InsertingIsFinite DEF RoomForAccounts
<1>2. /\ Cardinality(Active) \in Nat /\ Cardinality(Active') \in Nat
      /\ Cardinality(Inserting') \in Nat
  BY <1>1, FS_CardinalityType DEF RoomForAccounts
<1> QED
  BY <1>1, <1>2, InsertingIsFinite DEF RoomForAccounts

LEMMA AccountInserted ==
  ASSUME RoomForAccounts, NEW f \in Inserting, NEW a,
         Active' \subseteq Active \cup {a}, Inserting' \subseteq Inserting \ {f}
  PROVE  RoomForAccounts'
<1>1. IsFiniteSet(Active)
  BY DEF RoomForAccounts
<1>2. /\ IsFiniteSet(Active \cup {a})
      /\ Cardinality(Active \cup {a}) =
           IF a \in Active THEN Cardinality(Active) ELSE Cardinality(Active) + 1
  BY <1>1, FS_AddElement
<1>3. /\ IsFiniteSet(Inserting \ {f})
      /\ Cardinality(Inserting \ {f}) = Cardinality(Inserting) - 1
  BY InsertingIsFinite, FS_RemoveElement
<1>4. /\ IsFiniteSet(Active') /\ Cardinality(Active') <= Cardinality(Active \cup {a})
      /\ IsFiniteSet(Inserting') /\ Cardinality(Inserting') <= Cardinality(Inserting \ {f})
  BY <1>2, <1>3, FS_Subset
<1>5. /\ Cardinality(Active) \in Nat /\ Cardinality(Active') \in Nat
      /\ Cardinality(Inserting') \in Nat
  BY <1>1, <1>4, FS_CardinalityType
<1> QED
  BY <1>2, <1>3, <1>4, <1>5, InsertingIsFinite DEF RoomForAccounts

LEMMA AccountAllowed ==
  ASSUME RoomForAccounts, NEW f \in Flows, Cardinality(Active) < AccountLimit, UNCHANGED saved,
         Inserting' \subseteq Inserting \cup {f}
  PROVE  RoomForAccounts'
<1>1. Active' = Active
  BY DEF Active
<1>2. Inserting' \in SUBSET Flows /\ IsFiniteSet(Flows)
  BY ConnectionsAssumption DEF Inserting
<1>3. IsFiniteSet(Inserting') /\ Cardinality(Inserting') <= Cardinality(Flows)
  BY <1>2, FS_Subset
<1>4. Cardinality(Active) \in Nat /\ Cardinality(Inserting') \in Nat
  BY <1>3, FS_CardinalityType DEF RoomForAccounts
<1> QED
  BY <1>1, <1>3, <1>4, InsertingIsFinite DEF RoomForAccounts

-----------------------------------------------------------------------------
LEMMA IdleFlow ==
  NoFlow \in FlowRow /\ NoFlow.pc = "idle" /\ NoFlow.client = "none" /\ NoFlow.at = NoInstance
<1>0. NoInstance \notin Instances
  BY ConnectionsAssumption
<1>1. (CHOOSE s \in States : TRUE) \in States
  BY ConnectionsAssumption
<1> QED
  BY <1>0, <1>1 DEF NoFlow, FlowRow, FlowPcs, LoadingPcs, Kinds, NoClientYet, ClientNames, Ways

LEMMA ConnStarts == ConnInit => ConnInv
<1> SUFFICES ASSUME ConnInit PROVE ConnInv
  OBVIOUS
<1>1. NoState \in StateRow /\ NoState.row = "none" /\ NoAccount \in SavedRow
  BY ConnectionsAssumption DEF NoState, StateRow, NoAccount, SavedRow, Ways
<1>2. ConnTypeOK
  BY <1>1, IdleFlow DEF ConnInit, ConnTypeOK, ClientNames, NoClientYet
<1>3. Active = {} /\ Inserting = {}
  BY IdleFlow DEF ConnInit, Active, Inserting
<1>4. RoomForAccounts
  BY <1>3, FS_EmptySet, InsertingIsFinite DEF RoomForAccounts
<1>5. \A f \in Flows : Knows(flow[f])
  BY IdleFlow DEF ConnInit, Knows, LoadingPcs
<1>6. AdaptersFit
  BY DEF ConnInit, AdaptersFit, AtStart, ClientNames, NoClientYet
<1> QED
  BY <1>1, <1>2, <1>4, <1>5, <1>6 DEF ConnInv, CodesKnow, ConnInit

\* A state goes on to say what it says.
SameState(s) == state'[s].row # "none" /\ state'[s].at = state[s].at /\ state'[s].by = state[s].by

\* What the others know stays true: states, clients and accounts are not taken back.
LEMMA KnowsStill ==
  ASSUME ConnTypeOK, NEW r \in FlowRow, Knows(r),
         \A i \in Instances : app[i] # NoClientYet => app'[i] = app[i],
         \A s \in States : state[s].row # "none" => SameState(s),
         \A a \in SavedAccounts : saved[a] # NoAccount => saved'[a] = saved[a]
  PROVE  Knows(r)'
<1>1. r.at \in Instances \cup {NoInstance} /\ r.s \in States
  BY DEF FlowRow
<1>2. \A c : RightClient(r.at, r.by, c) => RightClient(r.at, r.by, c)'
  BY DEF RightClient, Registered, Loose
<1>21. r.at \in Instances /\ app[r.at] # NoClientYet => app'[r.at] = app[r.at]
  OBVIOUS
<1>3. OfState(r) => OfState(r)'
  BY <1>1 DEF OfState, SameState
<1>4. HasAccount(r.s) => HasAccount(r.s)'
  BY DEF HasAccount, Active
<1> QED
  BY <1>2, <1>21, <1>3, <1>4 DEF Knows, LoadingPcs, Registered, Loose

LEMMA FlowTypes ==
  ASSUME ConnInv, NEW f \in Flows, NEW r \in FlowRow, Set(f, r)
  PROVE  /\ flow' \in [Flows -> FlowRow] /\ flow'[f] = r
         /\ \A g \in Flows : g # f => flow'[g] = flow[g]
<1>1. flow \in [Flows -> FlowRow]
  BY DEF ConnInv, ConnTypeOK
<1> QED
  BY <1>1 DEF Set

\* What a step of a request has to show.
LEMMA FlowMoves ==
  ASSUME ConnInv, NEW f \in Flows, NEW r \in FlowRow, Set(f, r), ConnTypeOK',
         \A i \in Instances : app[i] # NoClientYet => app'[i] = app[i],
         \A s \in States : state[s].row # "none" => SameState(s),
         \A a \in SavedAccounts : saved[a] # NoAccount => saved'[a] = saved[a],
         Knows(r)', CodesKnow', RoomForAccounts', UNCHANGED adapterOf \/ AdaptersFit',
         \A s \in States : selection'[s] = "consumed" => selection[s] = "consumed" \/ HasAccount(s)'
  PROVE  ConnInv'
<1>1. flow'[f] = r /\ \A g \in Flows : g # f => flow'[g] = flow[g]
  BY FlowTypes
<1>2. ASSUME NEW g \in Flows PROVE Knows(flow[g])'
  <2>1. CASE g = f
    BY <1>1, <2>1
  <2>2. CASE g # f
    <3>1. PICK q \in FlowRow : q = flow[g]
      BY DEF ConnInv, ConnTypeOK
    <3>2. Knows(q)'
      BY <3>1, KnowsStill DEF ConnInv
    <3> QED
      BY <1>1, <2>2, <3>1, <3>2
  <2> QED
    BY <2>1, <2>2
<1>3. ASSUME NEW s \in States, HasAccount(s) PROVE HasAccount(s)'
  BY <1>3 DEF HasAccount, Active
<1>4. AdaptersFit'
  BY DEF ConnInv, AdaptersFit
<1> QED
  BY <1>2, <1>3, <1>4 DEF ConnInv

\* A request goes on, and the rest stays as it is.
LEMMA OnlyFlow ==
  ASSUME ConnInv, NEW f \in Flows, NEW r \in FlowRow, Set(f, r), Knows(r),
         UNCHANGED <<state, adapterOf, app, code, selection, saved>>,
         r.pc = "insert" => f \in Inserting \/ Cardinality(Active) < AccountLimit
  PROVE  ConnInv'
<1>1. /\ flow' \in [Flows -> FlowRow] /\ flow'[f] = r
      /\ \A g \in Flows : g # f => flow'[g] = flow[g]
  BY FlowTypes
<1>2. ConnTypeOK'
  BY <1>1 DEF ConnInv, ConnTypeOK
<1>3. Knows(r)'
  BY KnowsStill DEF ConnInv, SameState
<1>4. CodesKnow'
  BY DEF ConnInv, CodesKnow, RightClient
<1>5. RoomForAccounts'
  <2>1. CASE Inserting' \subseteq Inserting
    BY <2>1, NoMoreAccounts DEF ConnInv, Active
  <2>2. CASE Cardinality(Active) < AccountLimit
    BY <1>1, <2>2, AccountAllowed DEF ConnInv, Inserting
  <2> QED
    BY <1>1, <2>1, <2>2 DEF Inserting
<1> QED
  BY <1>2, <1>3, <1>4, <1>5, FlowMoves DEF ConnInv, SameState

LEMMA EndKnows == Knows(NoFlow)
  BY IdleFlow DEF Knows, LoadingPcs

LEMMA GotoSets ==
  ASSUME ConnInv, NEW f \in Flows, NEW pc, Goto(f, pc)
  PROVE  Set(f, [flow[f] EXCEPT !.pc = pc])
  BY DEF ConnInv, ConnTypeOK, Goto, Set

LEMMA FlowEndsKeeps ==
  ASSUME ConnInv, NEW f \in Flows, End(f), UNCHANGED <<state, adapterOf, app, code, selection, saved>>
  PROVE  ConnInv'
  BY IdleFlow, EndKnows, OnlyFlow DEF End

\* FindAdapter goes to `next` with the adapter there is, or to the row of the app.
Finds(f, r, at, by, next) ==
  /\ r \in FlowRow /\ r.s = flow[f].s /\ r.kind = flow[f].kind /\ r.at = at /\ r.by = by
  /\ \/ r.pc = next /\ RightClient(at, by, r.client)
     \/ r.pc = "loadApp" /\ r.for = next /\ Registered(at, by)

LEMMA AdapterFound ==
  ASSUME ConnInv, NEW f \in Flows, NEW at \in Instances \cup {NoInstance},
         NEW by \in Ways, at \in Instances => by # "none", NEW next \in {"createState", "exchange"}
  PROVE  Finds(f, FindAdapter(f, at, by, next), at, by, next)
<1>1. flow[f] \in FlowRow /\ NoInstance \notin Instances /\ Configured \subseteq Instances
  BY ConnectionsAssumption DEF ConnInv, ConnTypeOK
<1> DEFINE c == Known(at, by)
<1>2. c \in ClientNames /\ c # NoClientYet => RightClient(at, by, c)
  BY <1>1 DEF Known, RightClient, Registered, Loose, Ways, ConnInv, AdaptersFit, ClientNames, NoClientYet
<1>3. c \in ClientNames
  BY <1>1 DEF Known, ConnInv, AdaptersFit, ClientNames, NoClientYet
<1>4. c = NoClientYet => Registered(at, by)
  BY <1>1 DEF Known, Registered, NoClientYet
<1> HIDE DEF c
<1>5. CASE c # NoClientYet
  <2> DEFINE r == [[flow[f] EXCEPT !.at = at, !.by = by] EXCEPT !.pc = next, !.client = c]
  <2>1. FindAdapter(f, at, by, next) = r
    BY <1>5 DEF FindAdapter, c
  <2>2. /\ r \in FlowRow /\ r.s = flow[f].s /\ r.kind = flow[f].kind /\ r.at = at /\ r.by = by
        /\ r.pc = next /\ r.client = c
    BY <1>1, <1>3 DEF FlowRow, FlowPcs
  <2> QED
    BY <1>2, <1>3, <1>5, <2>1, <2>2 DEF Finds
<1>6. CASE c = NoClientYet
  <2> DEFINE r == [[flow[f] EXCEPT !.at = at, !.by = by] EXCEPT !.pc = "loadApp", !.for = next]
  <2>1. FindAdapter(f, at, by, next) = r
    BY <1>6 DEF FindAdapter, c
  <2>2. /\ r \in FlowRow /\ r.s = flow[f].s /\ r.kind = flow[f].kind /\ r.at = at /\ r.by = by
        /\ r.pc = "loadApp" /\ r.for = next
    BY <1>1 DEF FlowRow, FlowPcs, LoadingPcs
  <2> QED
    BY <1>4, <1>6, <2>1, <2>2 DEF Finds
<1> QED
  BY <1>5, <1>6

LEMMA LoadAppKeeps == ASSUME ConnInv, NEW f \in Flows, LoadApp(f) PROVE ConnInv'
<1> DEFINE i == flow[f].at
<1>1. /\ flow[f] \in FlowRow /\ Knows(flow[f]) /\ flow[f].pc = "loadApp" /\ i \in Instances
      /\ Registered(i, flow[f].by)
  BY DEF ConnInv, ConnTypeOK, LoadApp, In, Knows, LoadingPcs, Registered
<1>2. UNCHANGED <<state, adapterOf, app, code, selection, saved>>
  BY DEF LoadApp
<1>3. CASE app[i] # NoClientYet /\ Set(f, [flow[f] EXCEPT !.pc = "adapt", !.client = app[i]])
  <2> DEFINE r == [flow[f] EXCEPT !.pc = "adapt", !.client = app[i]]
  <2>0. app[i] \in ClientNames
    BY <1>1 DEF ConnInv, ConnTypeOK
  <2>1. /\ r \in FlowRow /\ r.pc = "adapt" /\ r.client = app[i]
        /\ r.s = flow[f].s /\ r.at = i /\ r.by = flow[f].by /\ r.for = flow[f].for
    BY <1>1, <2>0 DEF FlowRow, FlowPcs, LoadingPcs
  <2> HIDE DEF r
  <2>2. Knows(r)
    BY <1>1, <1>3, <2>1 DEF Knows, LoadingPcs, OfState
  <2>3. Set(f, r)
    BY <1>3 DEF r
  <2> QED
    BY <1>2, <2>1, <2>2, <2>3, OnlyFlow
<1>4. CASE Set(f, [flow[f] EXCEPT !.pc = "insertApp", !.client = f])
  <2> DEFINE r == [flow[f] EXCEPT !.pc = "insertApp", !.client = f]
  <2>1. /\ r \in FlowRow /\ r.pc = "insertApp" /\ r.client = f
        /\ r.s = flow[f].s /\ r.at = i /\ r.by = flow[f].by /\ r.for = flow[f].for
    BY <1>1 DEF FlowRow, FlowPcs, LoadingPcs, ClientNames
  <2> HIDE DEF r
  <2>2. Knows(r)
    BY <1>1, <2>1 DEF Knows, LoadingPcs, OfState
  <2>3. Set(f, r)
    BY <1>4 DEF r
  <2> QED
    BY <1>2, <2>1, <2>2, <2>3, OnlyFlow
<1> QED
  BY <1>3, <1>4 DEF LoadApp

LEMMA InsertAppKeeps == ASSUME ConnInv, NEW f \in Flows, InsertApp(f) PROVE ConnInv'
<1> DEFINE i == flow[f].at
           c == StoredApp(f)
           next == [flow[f] EXCEPT !.pc = "adapt", !.client = c]
<1>1. /\ flow[f] \in FlowRow /\ Knows(flow[f]) /\ flow[f].pc = "insertApp"
      /\ i \in Instances /\ Registered(i, flow[f].by) /\ flow[f].client \in Flows
  BY DEF ConnInv, ConnTypeOK, InsertApp, In, Knows, LoadingPcs, Registered
<1>2. app \in [Instances -> ClientNames]
  BY DEF ConnInv, ConnTypeOK
<1>3. c \in ClientNames /\ c # NoClientYet /\ app' = [app EXCEPT ![i] = c]
  BY <1>1, <1>2, ConnectionsAssumption DEF StoredApp, InsertApp, ClientNames, NoClientYet
<1>0. next \in FlowRow
  BY <1>1, <1>3 DEF FlowRow, FlowPcs, LoadingPcs
<1>a. PICK r \in FlowRow : r = next
  BY <1>0
<1>4. /\ r \in FlowRow /\ r.pc = "adapt" /\ r.client = c
      /\ r.s = flow[f].s /\ r.at = i /\ r.by = flow[f].by /\ r.for = flow[f].for
  BY <1>1, <1>3, <1>a DEF FlowRow, FlowPcs, LoadingPcs
<1>5. Set(f, r) /\ UNCHANGED <<state, adapterOf, code, selection, saved>>
  BY <1>a DEF InsertApp
<1>6. app[i] # NoClientYet => c = app[i]
  BY DEF StoredApp
<1> HIDE DEF c
<1>7. /\ app' \in [Instances -> ClientNames] /\ app'[i] = c
      /\ \A j \in Instances : app[j] # NoClientYet => app'[j] = app[j]
  BY <1>1, <1>2, <1>3, <1>6
<1>8. /\ flow' \in [Flows -> FlowRow] /\ flow'[f] = r
      /\ \A g \in Flows : g # f => flow'[g] = flow[g]
  BY <1>4, <1>5, FlowTypes
<1>9. ConnTypeOK'
  BY <1>5, <1>7, <1>8 DEF ConnInv, ConnTypeOK
<1>10. Knows(r)'
  BY <1>1, <1>3, <1>4, <1>5, <1>7 DEF Knows, LoadingPcs, OfState
<1>11. CodesKnow'
  BY <1>5, <1>7 DEF ConnInv, CodesKnow, RightClient, Registered
<1>12. RoomForAccounts'
  <2>1. Active' \subseteq Active /\ Inserting' \subseteq Inserting
    BY <1>4, <1>5, <1>8 DEF Active, Inserting
  <2> QED
    BY <2>1, NoMoreAccounts DEF ConnInv
<1>13. AdaptersFit'
  BY <1>5, <1>7 DEF ConnInv, AdaptersFit
<1> QED
  BY <1>4, <1>5, <1>7, <1>9, <1>10, <1>11, <1>12, <1>13, FlowMoves DEF SameState

LEMMA KeepAdapterKeeps == ASSUME ConnInv, NEW f \in Flows, KeepAdapter(f) PROVE ConnInv'
<1> DEFINE i == flow[f].at
           next == [flow[f] EXCEPT !.pc = flow[f].for]
<1>1. flow[f] \in FlowRow /\ Knows(flow[f]) /\ flow[f].pc = "adapt"
  BY DEF ConnInv, ConnTypeOK, KeepAdapter, In
<1>2. /\ flow[f].for \in {"createState", "exchange"} /\ i \in Instances /\ Registered(i, flow[f].by)
      /\ app[i] # NoClientYet /\ flow[f].client = app[i] /\ app[i] \in ClientNames
  BY <1>1 DEF Knows, LoadingPcs, Registered, ConnInv, ConnTypeOK
<1>3. /\ next \in FlowRow /\ next.pc = flow[f].for /\ next.client = app[i]
      /\ next.s = flow[f].s /\ next.at = i /\ next.by = flow[f].by
  BY <1>1, <1>2 DEF FlowRow, FlowPcs
<1>4. Set(f, next) /\ UNCHANGED <<state, app, code, selection, saved>>
  BY GotoSets DEF KeepAdapter
<1>5. adapterOf' = [adapterOf EXCEPT ![i] = app[i]]
  BY <1>2 DEF KeepAdapter
<1> HIDE DEF next
<1>6. PICK r \in FlowRow : r = next
  BY <1>3
<1>7. /\ flow' \in [Flows -> FlowRow] /\ flow'[f] = r
      /\ \A g \in Flows : g # f => flow'[g] = flow[g]
  BY <1>4, <1>6, FlowTypes
<1>8. ConnTypeOK'
  BY <1>4, <1>7 DEF ConnInv, ConnTypeOK
<1>9. AdaptersFit'
  BY <1>2, <1>4, <1>5 DEF ConnInv, AdaptersFit
<1>10. Knows(r)'
  <2>1. Knows(r)
    BY <1>1, <1>2, <1>3, <1>6 DEF Knows, LoadingPcs, OfState, RightClient
  <2> QED
    BY <1>4, <2>1, KnowsStill DEF ConnInv, SameState
<1>11. CodesKnow'
  BY <1>4 DEF ConnInv, CodesKnow, RightClient
<1>12. RoomForAccounts'
  <2>1. Active' \subseteq Active /\ Inserting' \subseteq Inserting
    BY <1>2, <1>3, <1>4, <1>6, <1>7 DEF Active, Inserting
  <2> QED
    BY <2>1, NoMoreAccounts DEF ConnInv
<1> QED
  BY <1>4, <1>6, <1>8, <1>9, <1>10, <1>11, <1>12, FlowMoves DEF SameState

LEMMA GetAuthURLKeeps == ASSUME ConnInv, NEW f \in Flows, GetAuthURL(f) PROVE ConnInv'
<1>a. PICK k \in Kinds, at \in Instances \cup {NoInstance} : \E by \in WaysTo(at) :
        Set(f, [FindAdapter(f, at, by, "createState") EXCEPT !.kind = k])
  BY DEF GetAuthURL
<1>1. PICK by \in WaysTo(at) : Set(f, [FindAdapter(f, at, by, "createState") EXCEPT !.kind = k])
  BY <1>a
<1> DEFINE q == FindAdapter(f, at, by, "createState")
           r == [q EXCEPT !.kind = k]
<1>2. by \in Ways /\ (at \in Instances => by # "none")
  BY ConnectionsAssumption DEF WaysTo, Ways
<1>3. Finds(f, q, at, by, "createState")
  BY <1>2, AdapterFound
<1>4. Set(f, r) /\ UNCHANGED <<state, adapterOf, app, code, selection, saved>>
  BY <1>1 DEF GetAuthURL
<1> HIDE DEF q
<1>5. /\ r \in FlowRow /\ r.pc = q.pc /\ r.at = at /\ r.by = by
      /\ r.client = q.client /\ r.for = q.for
  BY <1>3 DEF Finds, FlowRow
<1> HIDE DEF r
<1>6. Knows(r) /\ r.pc # "insert"
  BY <1>3, <1>5 DEF Finds, Knows, LoadingPcs
<1> QED
  BY <1>4, <1>5, <1>6, OnlyFlow

LEMMA CreateStateKeeps == ASSUME ConnInv, NEW f \in Flows, CreateState(f) PROVE ConnInv'
<1> DEFINE at == flow[f].at
           x == [row |-> "open", kind |-> flow[f].kind,
                 at |-> flow[f].at, by |-> flow[f].by, due |-> FALSE]
<1>1. /\ flow[f] \in FlowRow /\ Knows(flow[f]) /\ flow[f].pc = "createState"
  BY DEF ConnInv, ConnTypeOK, CreateState, In
<1>2. PICK s \in States :
        /\ state[s].row = "none" /\ state' = [state EXCEPT ![s] = x]
        /\ code' = [code EXCEPT ![s] = flow[f].client]
  BY DEF CreateState
<1>3. x \in StateRow /\ x.row = "open" /\ x.at = at /\ x.by = flow[f].by
  BY <1>1 DEF StateRow, FlowRow
<1> HIDE DEF x
<1>4. Set(f, NoFlow) /\ UNCHANGED <<adapterOf, app, selection, saved>>
  BY DEF CreateState, End
<1>5. state \in [States -> StateRow] /\ code \in [States -> ClientNames \cup {"used"}]
  BY DEF ConnInv, ConnTypeOK
<1>6. /\ state' \in [States -> StateRow] /\ code' \in [States -> ClientNames \cup {"used"}]
      /\ state'[s] = x /\ code'[s] = flow[f].client
      /\ \A t \in States : t # s => state'[t] = state[t] /\ code'[t] = code[t]
  BY <1>1, <1>2, <1>3, <1>5 DEF FlowRow
<1>7. /\ flow' \in [Flows -> FlowRow] /\ flow'[f] = NoFlow
      /\ \A g \in Flows : g # f => flow'[g] = flow[g]
  BY <1>4, IdleFlow, FlowTypes
<1>8. ConnTypeOK'
  BY <1>4, <1>6, <1>7 DEF ConnInv, ConnTypeOK
<1>9. Knows(NoFlow)'
  BY IdleFlow DEF Knows, LoadingPcs
<1>10. RightClient(at, flow[f].by, flow[f].client)
  BY <1>1 DEF Knows
<1>11. CodesKnow'
  BY <1>3, <1>4, <1>6, <1>10 DEF ConnInv, CodesKnow, RightClient
<1>12. RoomForAccounts'
  <2>1. Active' \subseteq Active /\ Inserting' \subseteq Inserting
    BY <1>4, <1>7, IdleFlow DEF Active, Inserting
  <2> QED
    BY <2>1, NoMoreAccounts DEF ConnInv
<1>13. \A t \in States : state[t].row # "none" => state'[t] = state[t]
  BY <1>2, <1>6
<1> QED
  BY <1>4, <1>8, <1>9, <1>11, <1>12, <1>13, IdleFlow, FlowMoves DEF SameState

LEMMA ReadStateKeeps == ASSUME ConnInv, NEW f \in Flows, ReadState(f) PROVE ConnInv'
<1>1. PICK s \in States :
        /\ state[s].row = "open"
        /\ Set(f, [NoFlow EXCEPT !.pc = "consume", !.s = s,
                                 !.kind = state[s].kind, !.at = state[s].at, !.by = CarriedBy(s)])
  BY DEF ReadState
<1> DEFINE r == [NoFlow EXCEPT !.pc = "consume", !.s = s,
                               !.kind = state[s].kind, !.at = state[s].at, !.by = CarriedBy(s)]
<1>2. /\ state[s] \in StateRow /\ NoFlow \in FlowRow
      /\ CarriedBy(s) \in Ways /\ (state[s].at \in Instances => CarriedBy(s) # "none")
      /\ CarriedBy(s) = state[s].by \/ (state[s].by = "instance" /\ CarriedBy(s) = "server")
  BY IdleFlow DEF ConnInv, ConnTypeOK, StateRow, CarriedBy, Ways
<1>3. r \in FlowRow /\ r.pc = "consume" /\ r.s = s /\ r.at = state[s].at /\ r.by = CarriedBy(s)
  BY <1>2 DEF FlowRow, FlowPcs, StateRow
<1>4. Set(f, r) /\ UNCHANGED <<state, adapterOf, app, code, selection, saved>>
  BY <1>1 DEF ReadState
<1> HIDE DEF r
<1>5. Knows(r)
  BY <1>1, <1>2, <1>3 DEF Knows, LoadingPcs, OfState
<1> QED
  BY <1>3, <1>4, <1>5, OnlyFlow

\* A step about states that no code and no account depends on.
LEMMA StateMarked ==
  ASSUME ConnInv, NEW s \in States, NEW x \in StateRow,
         state' = [state EXCEPT ![s] = x], x.row # "none", x.at = state[s].at, x.by = state[s].by,
         state[s].row # "none",
         UNCHANGED <<adapterOf, app, code, selection, saved>>,
         UNCHANGED flow \/ \E f \in Flows, r \in FlowRow : Set(f, r) /\ Knows(r) /\ r.pc # "insert"
  PROVE  ConnInv'
<1>1. state \in [States -> StateRow]
  BY DEF ConnInv, ConnTypeOK
<1>2. /\ state' \in [States -> StateRow]
      /\ \A t \in States : /\ state'[t].row # "none" <=> state[t].row # "none"
                          /\ state'[t].at = state[t].at /\ state'[t].by = state[t].by
  BY <1>1
<1>21. \A t \in States : state[t].row # "none" => SameState(t)
  BY <1>2 DEF SameState
<1>3. CodesKnow'
  BY <1>2 DEF ConnInv, CodesKnow, RightClient
<1>4. CASE UNCHANGED flow
  <2>1. ConnTypeOK'
    BY <1>2, <1>4 DEF ConnInv, ConnTypeOK
  <2>2. \A f \in Flows : Knows(flow[f])'
    <3> SUFFICES ASSUME NEW f \in Flows PROVE Knows(flow[f])'
      OBVIOUS
    <3>1. PICK q \in FlowRow : q = flow[f]
      BY DEF ConnInv, ConnTypeOK
    <3>2. Knows(q)'
      BY <1>21, <3>1, KnowsStill DEF ConnInv
    <3> QED
      BY <1>4, <3>1, <3>2
  <2>3. RoomForAccounts'
    BY <1>4, NoMoreAccounts DEF ConnInv, Active, Inserting
  <2>4. \A t \in States : HasAccount(t)' <=> HasAccount(t)
    BY DEF HasAccount, Active
  <2>5. AdaptersFit'
    BY DEF ConnInv, AdaptersFit
  <2> QED
    BY <1>3, <2>1, <2>2, <2>3, <2>4, <2>5 DEF ConnInv
<1>5. ASSUME NEW f \in Flows, NEW r \in FlowRow, Set(f, r), Knows(r), r.pc # "insert" PROVE ConnInv'
  <2>1. /\ flow' \in [Flows -> FlowRow] /\ flow'[f] = r
        /\ \A g \in Flows : g # f => flow'[g] = flow[g]
    BY <1>5, FlowTypes
  <2>2. ConnTypeOK'
    BY <1>2, <2>1 DEF ConnInv, ConnTypeOK
  <2>3. Knows(r)'
    BY <1>21, <1>5, KnowsStill DEF ConnInv
  <2>4. Active' \subseteq Active /\ Inserting' \subseteq Inserting
    BY <1>5, <2>1 DEF Active, Inserting
  <2>5. RoomForAccounts'
    BY <2>4, NoMoreAccounts DEF ConnInv
  <2> QED
    BY <1>21, <1>3, <1>5, <2>2, <2>3, <2>5, FlowMoves
<1> QED
  BY <1>4, <1>5

LEMMA FallsDueKeeps == ASSUME ConnInv, NEW s \in States, FallsDue(s) PROVE ConnInv'
<1> DEFINE x == [state[s] EXCEPT !.due = TRUE]
<1>1. state[s] \in StateRow
  BY DEF ConnInv, ConnTypeOK
<1>2. /\ x \in StateRow /\ x.row = "open" /\ x.at = state[s].at /\ x.by = state[s].by
      /\ state[s].row = "open"
  BY <1>1 DEF StateRow, FallsDue
<1>3. state' = [state EXCEPT ![s] = x] /\ UNCHANGED <<adapterOf, app, code, selection, saved, flow>>
  BY <1>1 DEF FallsDue, ConnInv, ConnTypeOK
<1> HIDE DEF x
<1> QED
  BY <1>2, <1>3, StateMarked

LEMMA ConsumeStateKeeps == ASSUME ConnInv, NEW f \in Flows, ConsumeState(f) PROVE ConnInv'
<1> DEFINE s == flow[f].s
           at == flow[f].at
           by == flow[f].by
           x == [state[s] EXCEPT !.row = "gone"]
<1>1. /\ flow[f] \in FlowRow /\ Knows(flow[f]) /\ flow[f].pc = "consume" /\ s \in States
      /\ at \in Instances \cup {NoInstance} /\ by \in Ways /\ (at \in Instances => by # "none")
  BY DEF ConnInv, ConnTypeOK, ConsumeState, In, FlowRow
<1>2. state[s] \in StateRow /\ state[s].row # "none" /\ state[s].at = at
  BY <1>1 DEF ConnInv, ConnTypeOK, Knows, OfState
<1>3. x \in StateRow /\ x.row = "gone" /\ x.at = at /\ x.by = state[s].by
  BY <1>2 DEF StateRow
<1>4. state' = [state EXCEPT ![s] = x] /\ UNCHANGED <<adapterOf, app, code, selection, saved>>
  BY <1>1, <1>2 DEF ConsumeState, ConnInv, ConnTypeOK
<1>5. CASE End(f)
  BY <1>1, <1>2, <1>3, <1>4, <1>5, IdleFlow, EndKnows, StateMarked DEF End
<1>6. CASE Set(f, FindAdapter(f, at, by, "exchange"))
  <2> DEFINE r == FindAdapter(f, at, by, "exchange")
  <2>1. Finds(f, r, at, by, "exchange")
    BY <1>1, AdapterFound
  <2> HIDE DEF r
  <2>2. OfState(r)
    BY <1>1, <2>1 DEF Finds, Knows, OfState
  <2>3. Knows(r) /\ r.pc # "insert" /\ r \in FlowRow
    BY <2>1, <2>2 DEF Finds, Knows, LoadingPcs
  <2>4. Set(f, r)
    BY <1>6 DEF r
  <2> QED
    BY <1>1, <1>2, <1>3, <1>4, <2>3, <2>4, StateMarked
<1> QED
  BY <1>5, <1>6 DEF ConsumeState

LEMMA PasteCodeKeeps == ASSUME ConnInv, NEW f \in Flows, PasteCode(f) PROVE ConnInv'
<1>1. PICK s \in States :
        /\ state[s].row = "open"
        /\ Set(f, [FindAdapter(f, state[s].at, state[s].by, "exchange") EXCEPT !.s = s, !.kind = "mastodon"])
  BY DEF PasteCode
<1> DEFINE at == state[s].at
           by == state[s].by
           q == FindAdapter(f, at, by, "exchange")
           r == [q EXCEPT !.s = s, !.kind = "mastodon"]
<1>2. at \in Instances \cup {NoInstance} /\ by \in Ways /\ (at \in Instances => by # "none")
  BY DEF ConnInv, ConnTypeOK, StateRow
<1>3. Finds(f, q, at, by, "exchange")
  BY <1>2, AdapterFound
<1>4. Set(f, r) /\ UNCHANGED <<state, adapterOf, app, code, selection, saved>>
  BY <1>1 DEF PasteCode
<1> HIDE DEF q
<1>5. /\ r \in FlowRow /\ r.pc = q.pc /\ r.at = at /\ r.by = by
      /\ r.client = q.client /\ r.for = q.for /\ r.s = s
  BY <1>3 DEF Finds, FlowRow, Kinds
<1> HIDE DEF r
<1>6. Knows(r) /\ r.pc # "insert"
  BY <1>1, <1>3, <1>5 DEF Finds, Knows, LoadingPcs, OfState
<1> QED
  BY <1>4, <1>5, <1>6, OnlyFlow

LEMMA ExchangeKeeps == ASSUME ConnInv, NEW f \in Flows, Exchange(f) PROVE ConnInv'
<1> DEFINE s == flow[f].s
           at == flow[f].at
<1>1. /\ flow[f] \in FlowRow /\ Knows(flow[f]) /\ flow[f].pc = "exchange" /\ s \in States
  BY DEF ConnInv, ConnTypeOK, Exchange, In, FlowRow
<1>2. OfState(flow[f]) /\ RightClient(at, flow[f].by, flow[f].client)
  BY <1>1 DEF Knows
<1>3. code[s] = "used" \/ code[s] = flow[f].client \/ Loose(at, flow[f].by)
  <2>1. code[s] = "used" \/ RightClient(at, state[s].by, code[s])
    BY <1>1, <1>2 DEF ConnInv, CodesKnow, OfState
  <2> QED
    BY <1>2, <2>1 DEF OfState, RightClient, Registered, Loose
<1>4. UNCHANGED <<state, adapterOf, app, selection, saved>>
  BY DEF Exchange
<1>5. CASE UNCHANGED code /\ (End(f) \/ Goto(f, "noSecret"))
  <2>1. CASE End(f)
    BY <1>4, <1>5, <2>1, FlowEndsKeeps
  <2>2. CASE Goto(f, "noSecret")
    <3> DEFINE r == [flow[f] EXCEPT !.pc = "noSecret"]
    <3>1. r \in FlowRow /\ r.pc = "noSecret"
      BY <1>1 DEF FlowRow, FlowPcs
    <3>2. Set(f, r)
      BY <2>2, GotoSets
    <3> HIDE DEF r
    <3>3. Knows(r)
      BY <3>1 DEF Knows, LoadingPcs
    <3> QED
      BY <1>4, <1>5, <3>1, <3>2, <3>3, OnlyFlow
  <2> QED
    BY <1>5, <2>1, <2>2
<1>51. CASE UNCHANGED code /\ Goto(f, "wrongClient") /\ Loose(at, flow[f].by)
  <2> DEFINE r == [flow[f] EXCEPT !.pc = "wrongClient"]
  <2>1. r \in FlowRow /\ r.pc = "wrongClient" /\ r.at = at /\ r.by = flow[f].by
    BY <1>1 DEF FlowRow, FlowPcs
  <2>2. Set(f, r)
    BY <1>51, GotoSets
  <2> HIDE DEF r
  <2>3. Knows(r)
    BY <1>51, <2>1 DEF Knows, LoadingPcs
  <2> QED
    BY <1>4, <1>51, <2>1, <2>2, <2>3, OnlyFlow
<1>6. ASSUME NEW pc \in {"choose", "quota"}, code' = [code EXCEPT ![s] = "used"], Goto(f, pc)
      PROVE  ConnInv'
  <2> DEFINE next == [flow[f] EXCEPT !.pc = pc]
  <2>1. next \in FlowRow /\ next.pc = pc
    BY <1>1 DEF FlowRow, FlowPcs
  <2>2. Set(f, next)
    BY <1>6, GotoSets
  <2> HIDE DEF next
  <2>3. PICK r \in FlowRow : r = next
    BY <2>1
  <2>4. /\ flow' \in [Flows -> FlowRow] /\ flow'[f] = r
        /\ \A g \in Flows : g # f => flow'[g] = flow[g]
    BY <2>2, <2>3, FlowTypes
  <2>5. ConnTypeOK'
    BY <1>4, <1>6, <2>4 DEF ConnInv, ConnTypeOK
  <2>6. Knows(r)'
    BY <2>1, <2>3 DEF Knows, LoadingPcs
  <2>7. CodesKnow'
    BY <1>1, <1>4, <1>6 DEF ConnInv, ConnTypeOK, CodesKnow, RightClient
  <2>8. Active' \subseteq Active /\ Inserting' \subseteq Inserting
    BY <1>4, <2>1, <2>3, <2>4 DEF Active, Inserting
  <2>9. RoomForAccounts'
    BY <2>8, NoMoreAccounts DEF ConnInv
  <2> QED
    BY <1>4, <2>2, <2>3, <2>5, <2>6, <2>7, <2>9, FlowMoves DEF SameState
<1> QED
  BY <1>3, <1>5, <1>51, <1>6 DEF Exchange

LEMMA CreateSelectionKeeps == ASSUME ConnInv, NEW f \in Flows, CreateSelection(f) PROVE ConnInv'
<1>1. /\ selection' = [selection EXCEPT ![flow[f].s] = "pending"]
      /\ Set(f, NoFlow) /\ UNCHANGED <<state, adapterOf, app, code, saved>>
  BY DEF CreateSelection, End
<1>2. /\ flow' \in [Flows -> FlowRow] /\ flow'[f] = NoFlow
      /\ \A g \in Flows : g # f => flow'[g] = flow[g]
  BY <1>1, IdleFlow, FlowTypes
<1>3. /\ selection' \in [States -> {"none", "pending", "consumed"}]
      /\ \A s \in States : selection'[s] = "consumed" => selection[s] = "consumed"
  BY <1>1 DEF ConnInv, ConnTypeOK
<1>4. ConnTypeOK'
  BY <1>1, <1>2, <1>3 DEF ConnInv, ConnTypeOK
<1>5. Knows(NoFlow)'
  BY IdleFlow DEF Knows, LoadingPcs
<1>6. CodesKnow'
  BY <1>1 DEF ConnInv, CodesKnow, RightClient
<1>7. Active' \subseteq Active /\ Inserting' \subseteq Inserting
  BY <1>1, <1>2, IdleFlow DEF Active, Inserting
<1>8. RoomForAccounts'
  BY <1>7, NoMoreAccounts DEF ConnInv
<1> QED
  BY <1>1, <1>3, <1>4, <1>5, <1>6, <1>8, IdleFlow, FlowMoves DEF SameState

LEMMA LoadSelectionKeeps ==
  ASSUME ConnInv, NEW f \in Flows, LoadSelection(f) \/ BlueskyLogin(f) PROVE ConnInv'
<1>1. PICK r \in FlowRow : r.pc = "quota" /\ Set(f, r)
  <2>1. CASE LoadSelection(f)
    <3>1. PICK s \in States : Set(f, [NoFlow EXCEPT !.pc = "quota", !.s = s, !.kind = "choice"])
      BY <2>1 DEF LoadSelection, SavesFirst
    <3> DEFINE r == [NoFlow EXCEPT !.pc = "quota", !.s = s, !.kind = "choice"]
    <3>2. r \in FlowRow /\ r.pc = "quota"
      BY IdleFlow DEF FlowRow, FlowPcs, Kinds
    <3> QED
      BY <3>1, <3>2
  <2>2. CASE BlueskyLogin(f)
    <3> DEFINE r == [NoFlow EXCEPT !.pc = "quota", !.kind = "bluesky"]
    <3>1. r \in FlowRow /\ r.pc = "quota"
      BY IdleFlow DEF FlowRow, FlowPcs
    <3> QED
      BY <2>2, <3>1 DEF BlueskyLogin
  <2> QED
    BY <2>1, <2>2
<1>2. Knows(r)
  BY <1>1 DEF Knows, LoadingPcs
<1>3. UNCHANGED <<state, adapterOf, app, code, selection, saved>>
  BY DEF LoadSelection, BlueskyLogin
<1> QED
  BY <1>1, <1>2, <1>3, OnlyFlow

LEMMA CheckQuotaKeeps == ASSUME ConnInv, NEW f \in Flows, CheckQuota(f) PROVE ConnInv'
<1>1. UNCHANGED <<state, adapterOf, app, code, selection, saved>>
  BY DEF CheckQuota
<1>2. CASE Cardinality(Active) < AccountLimit /\ Goto(f, "insert")
  <2> DEFINE r == [flow[f] EXCEPT !.pc = "insert"]
  <2>1. r \in FlowRow /\ r.pc = "insert"
    BY DEF ConnInv, ConnTypeOK, FlowRow, FlowPcs
  <2>2. Set(f, r)
    BY <1>2, GotoSets
  <2> HIDE DEF r
  <2>3. Knows(r)
    BY <2>1 DEF Knows, LoadingPcs
  <2> QED
    BY <1>1, <1>2, <2>1, <2>2, <2>3, OnlyFlow
<1>3. CASE End(f)
  BY <1>1, <1>3, FlowEndsKeeps
<1> QED
  BY <1>2, <1>3 DEF CheckQuota

LEMMA InsertAccountKeeps == ASSUME ConnInv, NEW f \in Flows, InsertAccount(f) PROVE ConnInv'
<1> DEFINE x == [kind |-> flow[f].kind, at |-> flow[f].at, from |-> flow[f].s]
<1>1. flow[f] \in FlowRow /\ f \in Inserting
  BY DEF ConnInv, ConnTypeOK, InsertAccount, In, Inserting
<1>2. UNCHANGED <<state, adapterOf, app, code, selection>>
  BY DEF InsertAccount
<1>3. CASE End(f) /\ UNCHANGED saved
  BY <1>2, <1>3, FlowEndsKeeps
<1>4. ASSUME NEW a \in SavedAccounts \ Active, saved' = [saved EXCEPT ![a] = x],
             IF flow[f].kind = "choice" THEN Goto(f, "mark") ELSE End(f)
      PROVE  ConnInv'
  <2>1. x \in SavedRow /\ x.from = flow[f].s /\ x.kind = flow[f].kind
    BY <1>1 DEF SavedRow, FlowRow
  <2> HIDE DEF x
  <2>2. saved[a] = NoAccount
    BY DEF Active
  <2>3. /\ saved' \in [SavedAccounts -> SavedRow] /\ saved'[a] = x
        /\ \A b \in SavedAccounts : b # a => saved'[b] = saved[b]
    BY <1>4, <2>1 DEF ConnInv, ConnTypeOK
  <2> DEFINE next == IF flow[f].kind = "choice" THEN [flow[f] EXCEPT !.pc = "mark"] ELSE NoFlow
  <2>4. /\ next \in FlowRow
        /\ \/ flow[f].kind = "choice" /\ next.pc = "mark" /\ next.s = flow[f].s
           \/ next.pc = "idle"
    BY <1>1, IdleFlow DEF FlowRow, FlowPcs
  <2>5. Set(f, next)
    BY <1>4, GotoSets DEF End
  <2> HIDE DEF next
  <2>6. PICK r \in FlowRow : r = next
    BY <2>4
  <2>7. /\ flow' \in [Flows -> FlowRow] /\ flow'[f] = r
        /\ \A g \in Flows : g # f => flow'[g] = flow[g]
    BY <2>5, <2>6, FlowTypes
  <2>8. ConnTypeOK'
    BY <1>2, <2>3, <2>7 DEF ConnInv, ConnTypeOK
  <2>9. Knows(r)'
    <3>1. r.pc = "mark" => saved'[a].kind = "choice" /\ saved'[a].from = r.s
      BY <2>1, <2>3, <2>4, <2>6
    <3>2. r.pc = "mark" => HasAccount(r.s)'
      BY <3>1 DEF HasAccount, Active, NoAccount
    <3> QED
      BY <2>4, <2>6, <3>2 DEF Knows, LoadingPcs
  <2>10. CodesKnow'
    BY <1>2 DEF ConnInv, CodesKnow, RightClient
  <2>11. Active' \subseteq Active \cup {a} /\ Inserting' \subseteq Inserting \ {f}
    BY <2>3, <2>4, <2>6, <2>7 DEF Active, Inserting
  <2>12. RoomForAccounts'
    BY <1>1, <2>11, AccountInserted DEF ConnInv
  <2>13. \A b \in SavedAccounts : saved[b] # NoAccount => saved'[b] = saved[b]
    BY <2>2, <2>3
  <2> QED
    BY <1>2, <2>5, <2>6, <2>8, <2>9, <2>10, <2>12, <2>13, FlowMoves DEF SameState
<1> QED
  BY <1>3, <1>4 DEF InsertAccount

LEMMA MarkSelectionKeeps == ASSUME ConnInv, NEW f \in Flows, MarkSelection(f) PROVE ConnInv'
<1> DEFINE s == flow[f].s
<1>1. /\ selection' = [selection EXCEPT ![s] = "consumed"]
      /\ Set(f, NoFlow) /\ UNCHANGED <<state, adapterOf, app, code, saved>>
  BY DEF MarkSelection, End
<1>2. HasAccount(s)
  BY DEF MarkSelection, In, ConnInv, Knows
<1>3. /\ flow' \in [Flows -> FlowRow] /\ flow'[f] = NoFlow
      /\ \A g \in Flows : g # f => flow'[g] = flow[g]
  BY <1>1, IdleFlow, FlowTypes
<1>4. /\ selection' \in [States -> {"none", "pending", "consumed"}]
      /\ \A t \in States : selection'[t] = "consumed" => selection[t] = "consumed" \/ t = s
  BY <1>1 DEF ConnInv, ConnTypeOK
<1>5. ConnTypeOK'
  BY <1>1, <1>3, <1>4 DEF ConnInv, ConnTypeOK
<1>6. Knows(NoFlow)'
  BY IdleFlow DEF Knows, LoadingPcs
<1>7. CodesKnow'
  BY <1>1 DEF ConnInv, CodesKnow, RightClient
<1>8. Active' \subseteq Active /\ Inserting' \subseteq Inserting
  BY <1>1, <1>3, IdleFlow DEF Active, Inserting
<1>9. RoomForAccounts'
  BY <1>8, NoMoreAccounts DEF ConnInv
<1>10. \A t \in States : HasAccount(t) => HasAccount(t)'
  BY <1>1 DEF HasAccount, Active
<1>11. \A t \in States : selection'[t] = "consumed" => selection[t] = "consumed" \/ HasAccount(t)'
  <2> SUFFICES ASSUME NEW t \in States, selection'[t] = "consumed", selection[t] # "consumed"
               PROVE  HasAccount(t)'
    OBVIOUS
  <2>1. t = s
    BY <1>4
  <2>2. HasAccount(t)
    BY <1>2, <2>1
  <2> QED
    BY <1>10, <2>2
<1> QED
  BY <1>1, <1>5, <1>6, <1>7, <1>9, <1>11, IdleFlow, FlowMoves DEF SameState

LEMMA RestartKeeps == ASSUME ConnInv, Restart PROVE ConnInv'
<1>1. /\ flow' = [f \in Flows |-> NoFlow] /\ adapterOf' = AtStart
      /\ UNCHANGED <<state, app, code, selection, saved>>
  BY DEF Restart
<1>2. \A f \in Flows : flow'[f] = NoFlow
  BY <1>1
<1>3. ConnTypeOK'
  BY <1>1, IdleFlow DEF ConnInv, ConnTypeOK
<1>4. \A f \in Flows : Knows(flow[f])'
  BY <1>2, IdleFlow DEF Knows, LoadingPcs
<1>5. CodesKnow'
  BY <1>1 DEF ConnInv, CodesKnow, RightClient
<1>6. Active' \subseteq Active /\ Inserting' \subseteq Inserting
  BY <1>1, <1>2, IdleFlow DEF Active, Inserting
<1>7. RoomForAccounts'
  BY <1>6, NoMoreAccounts DEF ConnInv
<1>8. \A s \in States : HasAccount(s)' <=> HasAccount(s)
  BY <1>1 DEF HasAccount, Active
<1>9. AdaptersFit'
  BY <1>1 DEF AdaptersFit, AtStart, ClientNames, NoClientYet
<1> QED
  BY <1>1, <1>3, <1>4, <1>5, <1>7, <1>8, <1>9 DEF ConnInv

LEMMA StepConnections == ASSUME ConnInv, [ConnNext]_connVars PROVE ConnInv'
<1>1. ASSUME NEW f \in Flows,
             LoadApp(f) \/ InsertApp(f) \/ KeepAdapter(f) \/ GetAuthURL(f) \/ CreateState(f)
      PROVE  ConnInv'
  BY <1>1, LoadAppKeeps, InsertAppKeeps, KeepAdapterKeeps, GetAuthURLKeeps, CreateStateKeeps
<1>2. ASSUME NEW f \in Flows, ReadState(f) \/ ConsumeState(f) \/ Exchange(f) \/ PasteCode(f)
      PROVE  ConnInv'
  BY <1>2, ReadStateKeeps, ConsumeStateKeeps, ExchangeKeeps, PasteCodeKeeps
<1>3. ASSUME NEW f \in Flows, CreateSelection(f) \/ LoadSelection(f) \/ BlueskyLogin(f)
      PROVE  ConnInv'
  BY <1>3, CreateSelectionKeeps, LoadSelectionKeeps
<1>4. ASSUME NEW f \in Flows, CheckQuota(f) \/ InsertAccount(f) \/ MarkSelection(f) \/ FlowEnds(f)
      PROVE  ConnInv'
  <2>1. CASE FlowEnds(f)
    BY <2>1, FlowEndsKeeps DEF FlowEnds
  <2> QED
    BY <1>4, <2>1, CheckQuotaKeeps, InsertAccountKeeps, MarkSelectionKeeps
<1>5. CASE (\E s \in States : FallsDue(s)) \/ Restart
  BY <1>5, FallsDueKeeps, RestartKeeps
<1>6. CASE UNCHANGED connVars
  <2>1. UNCHANGED <<state, adapterOf, app, code, selection, saved, flow>>
    BY <1>6 DEF connVars
  <2> QED
    BY <2>1 DEF ConnInv, ConnTypeOK, AdaptersFit, CodesKnow, RoomForAccounts, Knows, OfState,
       HasAccount, RightClient, Active, Inserting
<1> QED
  BY <1>1, <1>2, <1>3, <1>4, <1>5, <1>6 DEF ConnNext

LEMMA SafeConnections == ConnInv => ConnectionSafety
<1> SUFFICES ASSUME ConnInv PROVE ConnectionSafety
  OBVIOUS
<1>1. ExchangeUsesTheAppThatAsked
  BY DEF ExchangeUsesTheAppThatAsked, ConnInv, Knows, Loose, In
<1>2. ConsumedSelectionHasAccount
  BY DEF ConsumedSelectionHasAccount, ConnInv, HasAccount
<1> QED
  BY <1>1, <1>2, AccountsAreNear DEF ConnectionSafety, ConnInv

-----------------------------------------------------------------------------
\* A code is exchanged with the app that asked for it, whatever registrations
\* overlap and however often the server restarts, unless a configured instance is
\* looked up under its URL; a selection that is used up has its account, and
\* accounts pass the limit only by requests checked at once.
THEOREM ConnectionSafetyHolds == PlatformsSpec => []ConnectionSafety
<1>1. PlatformsInit => ConnInv
  BY ConnStarts DEF PlatformsInit
<1>2. ConnInv /\ [PlatformsNext]_platformsVars => ConnInv'
  <2>1. [PlatformsNext]_platformsVars => [ConnNext]_connVars
    BY DEF PlatformsNext, Connecting, Posting, platformsVars, providerVars
  <2> QED
    BY <2>1, StepConnections
<1>3. PlatformsSafety => []ConnInv
  BY <1>1, <1>2, PTL DEF PlatformsSafety
<1> QED
  BY <1>3, SafeConnections, PTL DEF PlatformsSpec

-----------------------------------------------------------------------------
(* Posts on the platforms *)

MediaStates == {"open", "processing", "ready", "failed"}
ExternalId == [id : Nat, root : Nat]
RemoteObject == [what : {"media", "container", "post"}, post : ThreadPosts, item : Nat,
                 parts : Seq(SUBSET Nat), state : MediaStates, uses : Seq(Nat), parent : Nat,
                 root : Nat, delivery : Nat, again : BOOLEAN]
DestinationRow == [status : {"pending", "failed", "success"}, ext : ExternalId,
                   why : {"none", "platform", "media", "url", "reply"}]
UploadSteps == {"part", "close", "wait", "keep"}
ItemSteps == {"send", "open"} \cup UploadSteps
RequestSteps == {"check", "alt", "create", "poll", "publish", "save"}
DeliveryRow == [at : {"idle", "media"} \cup ItemSteps \cup RequestSteps, post : ThreadPosts,
                ids : Seq(Nat), obj : Nat, sent : Nat, polls : 0 .. Polls - 1,
                tries : 0 .. PublishTries - 1, again : BOOLEAN, ext : ExternalId]

AdaptersTypeOK ==
  /\ kind \in Platforms /\ https \in BOOLEAN
  /\ attached \in [ThreadPosts -> Seq(Files)]
  /\ row \in [ThreadPosts -> DestinationRow]
  /\ DOMAIN kept = ThreadPosts
  /\ \A p \in ThreadPosts : kept[p] \in [DOMAIN attached[p] -> Nat]
  /\ delivery \in DeliveryRow
  /\ deliveries \in 0 .. MaxDeliveries /\ spent \in 0 .. MaxFaults
  /\ remote \in Seq(RemoteObject)

\* The parts of a file sent so far: its first `sent` units, in their order.
Covers(parts, sent) ==
  /\ UNION {parts[k] : k \in DOMAIN parts} = 0 .. sent - 1
  /\ \A k, l \in DOMAIN parts : k < l => \A a \in parts[k], b \in parts[l] : a < b

Upload(n, p, i) ==
  /\ n \in DOMAIN remote
  /\ remote[n].what = "media" /\ remote[n].post = p /\ remote[n].item = i

\* An upload that a post can use.
Usable(n, p, i) == Upload(n, p, i) /\ remote[n].state = "ready" /\ Covers(remote[n].parts, FileSize)

\* An external id of post p names what the platform has.
Names(ext, p) ==
  /\ {ext.id, ext.root} \subseteq {0} \cup DOMAIN remote
  /\ ext.id = 0 => ext.root = 0
  /\ kind = "bluesky" /\ ext.id # 0 => remote[ext.id].post = p /\ ext.root = remote[ext.id].root

RowFits(p) ==
  /\ Names(row[p].ext, p)
  /\ row[p].status = "success" => Made(p) # {}
  /\ row[p].why = "media" => MediaErrors(attached[p])

\* What an object is never changes: its post, its delivery and its place in the
\* thread, and the media it shows.
HasRoot(n) ==
  kind = "bluesky" =>
    /\ remote[n].parent = 0 <=> remote[n].root = 0
    /\ remote[n].parent # 0 =>
         LET parent == remote[remote[n].parent]
         IN  /\ remote[n].parent \in DOMAIN remote
             /\ parent.post = remote[n].post - 1
             /\ remote[n].root = IF parent.parent = 0 THEN remote[n].parent ELSE parent.root

ShowsMedia(n) ==
  \A i \in DOMAIN remote[n].uses :
    LET used == remote[remote[n].uses[i]]
    IN  /\ remote[n].uses[i] \in DOMAIN remote
        /\ used.state = "ready" \/ (kind = "instagram" /\ used.what = "container")
        /\ used.post = remote[n].post
        /\ used.what = "media" => used.item = i /\ Covers(used.parts, FileSize)

ObjectFits(n) == HasRoot(n) /\ ShowsMedia(n) /\ remote[n].delivery <= deliveries

\* An item has one upload on record, which is the last one made of it.
KeptFits(p, i) ==
  kept[p][i] # 0 =>
    /\ Usable(kept[p][i], p, i)
    /\ \A n \in DOMAIN remote : Upload(n, p, i) => n <= kept[p][i]

RowsFit == \A p \in ThreadPosts : RowFits(p)
KeptFit == \A p \in ThreadPosts : \A i \in DOMAIN attached[p] : KeptFits(p, i)
ObjectsFit == \A n \in DOMAIN remote : ObjectFits(n)

Own(n) == remote[n].what = "post" /\ remote[n].delivery = deliveries

\* The delivery under way, by the step it is at.
ItemsFit ==
  /\ At("media") => Len(delivery.ids) <= Len(Items)
  /\ delivery.at \in ItemSteps =>
       /\ Len(delivery.ids) < Len(Items) /\ ~UsesPublicMediaURL
       /\ kept[delivery.post][Len(delivery.ids) + 1] = 0
  /\ delivery.at \in RequestSteps => Len(delivery.ids) = Len(Items)
  /\ ~At("idle") /\ ~UsesPublicMediaURL =>
       \A i \in DOMAIN delivery.ids : Usable(delivery.ids[i], delivery.post, i)

UploadFits ==
  /\ delivery.at \in {"media", "send", "open"} => delivery.sent = 0
  /\ delivery.at \in UploadSteps =>
       /\ delivery.obj = Len(remote)
       /\ Upload(delivery.obj, delivery.post, Len(delivery.ids) + 1)
  /\ At("part") => /\ InHand.state = "open" /\ Covers(InHand.parts, delivery.sent)
                   /\ IF Finalizes(Item) THEN delivery.sent < FileSize ELSE delivery.sent = 0
  /\ At("close") => InHand.state = "open"
  /\ delivery.at \in {"close", "wait", "keep"} => Covers(InHand.parts, FileSize)
  /\ At("keep") => InHand.state = "ready"

\* What a request has made so far and does not know to be a post.
RequestFits ==
  /\ delivery.at \in {"create", "poll"} => kind \in {"threads", "instagram", "tiktok"}
  /\ At("alt") => kind \in {"x", "mastodon"}
  /\ At("publish") => kind \notin {"tiktok", "youtube"}
  /\ At("poll") \/ (At("publish") /\ kind \in {"threads", "instagram"}) =>
       /\ delivery.obj \in DOMAIN remote /\ InHand.post = delivery.post
       /\ InHand.what = IF kind = "tiktok" THEN "post" ELSE "container"
       /\ InHand.state \in (IF At("poll") \/ kind = "instagram" THEN MediaStates \ {"open"} ELSE {"ready"})
  /\ At("save") => Made(delivery.post) # {}
  /\ Names(delivery.ext, delivery.post)

\* Until it makes its post, a delivery has made none; TikTok's makes one before
\* a token is renewed and one after.
NoneYet ==
  delivery.at \notin {"idle", "save"} /\ ~(kind = "tiktok" /\ At("poll")) =>
    \A n \in DOMAIN remote : Own(n) /\ kind # "youtube" => kind = "tiktok" /\ remote[n].again # delivery.again
NoneRenewed ==
  ~At("idle") /\ ~delivery.again => \A n \in DOMAIN remote : Own(n) => ~remote[n].again

DeliveryFits == ItemsFit /\ UploadFits /\ RequestFits /\ NoneYet /\ NoneRenewed

AdaptersInv ==
  AdaptersTypeOK /\ RowsFit /\ KeptFit /\ ObjectsFit /\ OnePostPerDelivery /\ DeliveryFits

-----------------------------------------------------------------------------
(* What the platform has *)

\* The platform forgets nothing, and changes only media that are not ready.
RemoteKeeps ==
  /\ remote' \in Seq(RemoteObject) /\ Len(remote) <= Len(remote')
  /\ \A n \in DOMAIN remote :
       /\ remote'[n].what = remote[n].what /\ remote'[n].post = remote[n].post
       /\ remote'[n].item = remote[n].item /\ remote'[n].uses = remote[n].uses
       /\ remote'[n].parent = remote[n].parent /\ remote'[n].root = remote[n].root
       /\ remote'[n].delivery = remote[n].delivery /\ remote'[n].again = remote[n].again
       /\ remote[n].state = "ready" => remote'[n] = remote[n]

LEMMA SameKeeps == ASSUME AdaptersTypeOK, remote' = remote PROVE RemoteKeeps
BY DEF AdaptersTypeOK, RemoteKeeps

LEMMA AppendKeeps ==
  ASSUME AdaptersTypeOK, NEW o \in RemoteObject, remote' = Append(remote, o)
  PROVE  /\ RemoteKeeps /\ Len(remote') = Len(remote) + 1
         /\ DOMAIN remote' = DOMAIN remote \cup {Len(remote) + 1}
         /\ remote'[Len(remote) + 1] = o
         /\ \A n \in DOMAIN remote : remote'[n] = remote[n]
<1>1. remote \in Seq(RemoteObject) /\ Len(remote) \in Nat /\ DOMAIN remote = 1 .. Len(remote)
  BY DEF AdaptersTypeOK
<1>2. /\ remote' \in Seq(RemoteObject) /\ Len(remote') = Len(remote) + 1
      /\ DOMAIN remote' = 1 .. Len(remote) + 1
      /\ remote'[Len(remote) + 1] = o
      /\ \A n \in DOMAIN remote : remote'[n] = remote[n]
  BY <1>1
<1> QED
  BY <1>1, <1>2 DEF RemoteKeeps

\* The object with other parts, in another state.
Becomes(o, r) ==
  /\ o.what = r.what /\ o.post = r.post /\ o.item = r.item /\ o.uses = r.uses
  /\ o.parent = r.parent /\ o.root = r.root /\ o.delivery = r.delivery /\ o.again = r.again

LEMMA ChangeKeeps ==
  ASSUME AdaptersTypeOK, NEW m \in DOMAIN remote, remote[m].state # "ready",
         NEW o \in RemoteObject, Becomes(o, remote[m]), remote' = [remote EXCEPT ![m] = o]
  PROVE  /\ RemoteKeeps /\ Len(remote') = Len(remote) /\ DOMAIN remote' = DOMAIN remote
         /\ remote'[m] = o /\ \A n \in DOMAIN remote \ {m} : remote'[n] = remote[n]
<1>1. remote \in Seq(RemoteObject) /\ Len(remote) \in Nat /\ DOMAIN remote = 1 .. Len(remote)
  BY DEF AdaptersTypeOK
<1>2. remote' \in [1 .. Len(remote) -> RemoteObject]
  BY <1>1
<1>3. remote' \in Seq(RemoteObject) /\ Len(remote') = Len(remote) /\ DOMAIN remote' = DOMAIN remote
  BY <1>1, <1>2
<1>4. remote'[m] = o /\ \A n \in DOMAIN remote \ {m} : remote'[n] = remote[n]
  BY <1>1
<1>5. ASSUME NEW n \in DOMAIN remote
      PROVE  Becomes(remote'[n], remote[n]) /\ (remote[n].state = "ready" => remote'[n] = remote[n])
  BY <1>4 DEF Becomes
<1> QED
  BY <1>1, <1>3, <1>4, <1>5 DEF RemoteKeeps, Becomes

LEMMA DomainGrows ==
  ASSUME AdaptersTypeOK, RemoteKeeps
  PROVE  DOMAIN remote = 1 .. Len(remote) /\ DOMAIN remote' = 1 .. Len(remote')
         /\ Len(remote) \in Nat /\ Len(remote') \in Nat /\ DOMAIN remote \subseteq DOMAIN remote'
BY DEF AdaptersTypeOK, RemoteKeeps

LEMMA UsableStays ==
  ASSUME AdaptersTypeOK, RemoteKeeps, NEW n, NEW p, NEW i, Usable(n, p, i) PROVE Usable(n, p, i)'
BY DomainGrows DEF RemoteKeeps, Usable, Upload

LEMMA MadeStays ==
  ASSUME AdaptersTypeOK, RemoteKeeps, kind' = kind, NEW p, Made(p) # {} PROVE Made(p)' # {}
BY DomainGrows DEF RemoteKeeps, Made

LEMMA NamesStays ==
  ASSUME AdaptersTypeOK, RemoteKeeps, kind' = kind, NEW e \in ExternalId, NEW p, Names(e, p)
  PROVE  Names(e, p)'
BY DomainGrows DEF RemoteKeeps, Names

LEMMA ObjectStays ==
  ASSUME AdaptersTypeOK, RemoteKeeps, kind' = kind, deliveries' \in Nat, deliveries <= deliveries',
         NEW n \in DOMAIN remote, ObjectFits(n)
  PROVE  ObjectFits(n)'
<1>1. HasRoot(n)'
  <2> SUFFICES ASSUME kind = "bluesky" PROVE HasRoot(n)'
    BY DEF HasRoot
  <2>1. CASE remote[n].parent = 0
    BY <2>1 DEF RemoteKeeps, ObjectFits, HasRoot
  <2>2. CASE remote[n].parent # 0
    <3>1. remote[n].parent \in DOMAIN remote /\ remote[n].parent \in DOMAIN remote'
      BY <2>2, DomainGrows DEF ObjectFits, HasRoot
    <3> QED
      BY <2>2, <3>1 DEF RemoteKeeps, ObjectFits, HasRoot
  <2> QED
    BY <2>1, <2>2
<1>2. ShowsMedia(n)'
  <2> SUFFICES ASSUME NEW i \in DOMAIN remote[n].uses
               PROVE  LET used == remote'[remote[n].uses[i]]
                      IN  /\ remote[n].uses[i] \in DOMAIN remote'
                          /\ used.state = "ready" \/ (kind = "instagram" /\ used.what = "container")
                          /\ used.post = remote[n].post
                          /\ used.what = "media" => used.item = i /\ Covers(used.parts, FileSize)
    BY DEF ShowsMedia, RemoteKeeps
  <2>1. PICK m \in DOMAIN remote : m = remote[n].uses[i]
    BY DEF ObjectFits, ShowsMedia
  <2>2. /\ m \in DOMAIN remote' /\ remote'[m].what = remote[m].what /\ remote'[m].post = remote[m].post
        /\ remote[m].state = "ready" => remote'[m] = remote[m]
    BY DomainGrows DEF RemoteKeeps
  <2>3. /\ remote[m].state = "ready" \/ (kind = "instagram" /\ remote[m].what = "container")
        /\ remote[m].post = remote[n].post
        /\ remote[m].what = "media" => remote[m].item = i /\ Covers(remote[m].parts, FileSize)
    BY <2>1 DEF ObjectFits, ShowsMedia
  <2> QED
    BY <2>1, <2>2, <2>3
<1>3. remote'[n].delivery <= deliveries'
  <2>1. remote[n].delivery \in Nat /\ deliveries \in Nat
    <3>1. remote[n] \in RemoteObject
      BY DEF AdaptersTypeOK
    <3>2. deliveries \in 0 .. MaxDeliveries /\ MaxDeliveries \in Nat
      BY PlatformPostsAssumption DEF AdaptersTypeOK
    <3> QED
      BY <3>1, <3>2 DEF RemoteObject
  <2> QED
    BY <2>1 DEF ObjectFits, RemoteKeeps
<1> QED
  BY <1>1, <1>2, <1>3 DEF ObjectFits

\* Nothing new at the platform.
LEMMA ObjectsStay ==
  ASSUME AdaptersTypeOK, KeptFit, ObjectsFit, OnePostPerDelivery, RemoteKeeps,
         Len(remote') = Len(remote), UNCHANGED <<kind, attached>>,
         deliveries' \in Nat, deliveries <= deliveries'
  PROVE  ObjectsFit' /\ OnePostPerDelivery' /\ (UNCHANGED kept => KeptFit')
<1>1. DOMAIN remote' = DOMAIN remote
  BY DomainGrows
<1>2. ObjectsFit'
  BY <1>1, ObjectStays DEF ObjectsFit
<1>3. OnePostPerDelivery'
  BY <1>1 DEF OnePostPerDelivery, RemoteKeeps
<1>4. ASSUME UNCHANGED kept, NEW p \in ThreadPosts, NEW i \in DOMAIN attached[p], kept[p][i] # 0
      PROVE  KeptFits(p, i)'
  <2>1. Usable(kept[p][i], p, i) /\ \A n \in DOMAIN remote : Upload(n, p, i) => n <= kept[p][i]
    BY <1>4 DEF KeptFit, KeptFits
  <2>2. Usable(kept[p][i], p, i)'
    BY <1>4, <2>1, UsableStays
  <2>3. \A n \in DOMAIN remote : Upload(n, p, i)' => Upload(n, p, i)
    BY <1>1 DEF Upload, RemoteKeeps
  <2> QED
    BY <1>1, <1>4, <2>1, <2>2, <2>3 DEF KeptFits
<1>5. UNCHANGED kept => KeptFit'
  BY <1>4 DEF KeptFit, KeptFits
<1> QED
  BY <1>2, <1>3, <1>5

\* Something new, of the delivery under way.
LEMMA ObjectsGrow ==
  ASSUME AdaptersTypeOK, KeptFit, ObjectsFit, OnePostPerDelivery,
         NEW o \in RemoteObject, remote' = Append(remote, o), UNCHANGED <<givenVars, kept, deliveries>>,
         NEW k, k = Len(remote) + 1, ObjectFits(k)', o.delivery = deliveries,
         o.what = "media" /\ o.item \in DOMAIN attached[o.post] => kept[o.post][o.item] = 0,
         o.what = "post" /\ kind # "youtube" =>
           \A n \in DOMAIN remote : Own(n) => kind = "tiktok" /\ remote[n].again # o.again
  PROVE  ObjectsFit' /\ OnePostPerDelivery' /\ KeptFit' /\ RemoteKeeps
<1>1. /\ RemoteKeeps /\ DOMAIN remote' = DOMAIN remote \cup {k}
      /\ remote'[k] = o /\ \A n \in DOMAIN remote : remote'[n] = remote[n]
  BY AppendKeeps
<1>2. kind' = kind /\ attached' = attached /\ kept' = kept /\ deliveries' = deliveries
  BY DEF givenVars
<1>3. deliveries \in Nat
  BY PlatformPostsAssumption DEF AdaptersTypeOK
<1>4. ObjectsFit'
  <2>1. ASSUME NEW n \in DOMAIN remote PROVE ObjectFits(n)'
    BY <1>1, <1>2, <1>3, ObjectStays DEF ObjectsFit
  <2>2. ObjectFits(k)'
    OBVIOUS
  <2> QED
    BY <1>1, <2>1, <2>2 DEF ObjectsFit
<1>5. OnePostPerDelivery'
  BY <1>1, <1>2 DEF OnePostPerDelivery, Own
<1>6. ASSUME NEW p \in ThreadPosts, NEW i \in DOMAIN attached[p], kept[p][i] # 0
      PROVE  KeptFits(p, i)'
  <2>1. Usable(kept[p][i], p, i) /\ \A n \in DOMAIN remote : Upload(n, p, i) => n <= kept[p][i]
    BY <1>6 DEF KeptFit, KeptFits
  <2>2. Usable(kept[p][i], p, i)'
    BY <1>1, <1>2, <2>1, UsableStays
  <2>3. ASSUME NEW n \in DOMAIN remote', Upload(n, p, i)' PROVE n \in DOMAIN remote /\ Upload(n, p, i)
    BY <1>1, <1>6, <2>3 DEF Upload
  <2> QED
    BY <1>2, <2>1, <2>2, <2>3 DEF KeptFits
<1>7. KeptFit'
  BY <1>2, <1>6 DEF KeptFit, KeptFits
<1> QED
  BY <1>1, <1>4, <1>5, <1>7

-----------------------------------------------------------------------------
(* A delivery ends, or goes on *)

LEMMA AdaptersStart == AdaptersInit => AdaptersInv
<1> SUFFICES ASSUME AdaptersInit PROVE AdaptersInv
  OBVIOUS
<1>1. 1 \in ThreadPosts /\ 0 \in 0 .. Polls - 1 /\ 0 \in 0 .. PublishTries - 1
      /\ 0 \in 0 .. MaxDeliveries /\ 0 \in 0 .. MaxFaults
  BY PlatformPostsAssumption DEF ThreadPosts
<1>2. delivery = NoDelivery /\ delivery \in DeliveryRow /\ At("idle")
  BY <1>1 DEF AdaptersInit, NoDelivery, DeliveryRow, ExternalId, NoId, At
<1>3. remote = <<>> /\ remote \in Seq(RemoteObject) /\ DOMAIN remote = {}
  BY DEF AdaptersInit
<1>4. attached \in [ThreadPosts -> Seq(Files)]
  <2>1. /\ <<>> \in Seq(Files)
        /\ <<"image">> \in Seq(Files) /\ <<"video">> \in Seq(Files)
    BY DEF Files
  <2>2. <<"image", "large">> \in Seq(Files)
    BY DEF Files
  <2>3. <<"image", "video">> \in Seq(Files)
    BY DEF Files
  <2> QED
    BY <2>1, <2>2, <2>3 DEF AdaptersInit
<1>5. \A p \in ThreadPosts : row[p] = NewRow /\ NewRow \in DestinationRow
  BY DEF AdaptersInit, NewRow, DestinationRow, ExternalId, NoId
<1>6. \A p \in ThreadPosts : kept[p] = [i \in DOMAIN attached[p] |-> 0]
  BY DEF AdaptersInit
<1>7. AdaptersTypeOK
  <2>1. row \in [ThreadPosts -> DestinationRow]
    BY <1>5 DEF AdaptersInit
  <2>2. DOMAIN kept = ThreadPosts /\ \A p \in ThreadPosts : kept[p] \in [DOMAIN attached[p] -> Nat]
    BY <1>6 DEF AdaptersInit
  <2> QED
    BY <1>1, <1>2, <1>3, <1>4, <2>1, <2>2 DEF AdaptersInit, AdaptersTypeOK
<1>8. RowsFit /\ KeptFit /\ ObjectsFit /\ OnePostPerDelivery
  <2>1. RowsFit
    BY <1>5 DEF RowsFit, RowFits, Names, NewRow, NoId
  <2>2. KeptFit
    BY <1>6 DEF KeptFit, KeptFits
  <2>3. ObjectsFit /\ OnePostPerDelivery
    BY <1>3 DEF ObjectsFit, OnePostPerDelivery
  <2> QED
    BY <2>1, <2>2, <2>3
<1>9. DeliveryFits
  BY <1>2, <1>3 DEF DeliveryFits, ItemsFit, UploadFits, RequestFits, NoneYet, NoneRenewed, At,
     UploadSteps, ItemSteps, RequestSteps, Names, NoDelivery, NoId
<1> QED
  BY <1>7, <1>8, <1>9 DEF AdaptersInv

\* The rows, whatever the platform did.
LEMMA RowsStay ==
  ASSUME AdaptersTypeOK, RowsFit, RemoteKeeps, UNCHANGED <<kind, attached, row>> PROVE RowsFit'
<1> SUFFICES ASSUME NEW p \in ThreadPosts PROVE RowFits(p)'
  BY DEF RowsFit
<1>1. row[p].ext \in ExternalId /\ RowFits(p)
  BY DEF AdaptersTypeOK, DestinationRow, RowsFit
<1>2. Names(row[p].ext, p)'
  BY <1>1, NamesStays DEF RowFits
<1>3. row[p].status = "success" => Made(p)' # {}
  BY <1>1, MadeStays DEF RowFits
<1>4. row'[p].why = "media" => MediaErrors(attached[p])'
  BY <1>1 DEF RowFits, MediaErrors, XMediaErrors, BlueskyMediaErrors, MastodonMediaErrors,
     LinkedInMediaErrors, ThreadsMediaErrors, FacebookMediaErrors, InstagramMediaErrors,
     TikTokMediaErrors, YouTubeMediaErrors, Videos
<1> QED
  BY <1>2, <1>3, <1>4 DEF RowFits

LEMMA IdleFits ==
  ASSUME delivery' = NoDelivery PROVE delivery' \in DeliveryRow /\ DeliveryFits'
<1>1. 1 \in ThreadPosts /\ 0 \in 0 .. Polls - 1 /\ 0 \in 0 .. PublishTries - 1
  BY PlatformPostsAssumption DEF ThreadPosts
<1>2. delivery' \in DeliveryRow /\ delivery'.at = "idle" /\ delivery'.ext = NoId
  BY <1>1 DEF NoDelivery, DeliveryRow, ExternalId, NoId
<1> QED
  BY <1>2 DEF DeliveryFits, ItemsFit, UploadFits, RequestFits, NoneYet, NoneRenewed, At,
     UploadSteps, ItemSteps, RequestSteps, Names, NoId

\* A delivery that goes on leaves the row as it is.
LEMMA GoesOn ==
  ASSUME AdaptersInv, RemoteKeeps, ObjectsFit', OnePostPerDelivery', KeptFit',
         UNCHANGED <<givenVars, row, kept, deliveries>>, spent' \in 0 .. MaxFaults,
         delivery' \in DeliveryRow, DeliveryFits'
  PROVE  AdaptersInv'
<1>1. UNCHANGED <<kind, https, attached, row, kept, deliveries>>
  BY DEF givenVars
<1>2. RowsFit'
  BY <1>1, RowsStay DEF AdaptersInv
<1>3. AdaptersTypeOK'
  BY <1>1 DEF AdaptersInv, AdaptersTypeOK, RemoteKeeps, ThreadPosts, DeliveryRow, DestinationRow
<1> QED
  BY <1>2, <1>3 DEF AdaptersInv

LEMMA Abandons ==
  ASSUME AdaptersInv, RemoteKeeps, ObjectsFit', OnePostPerDelivery', KeptFit',
         UNCHANGED <<givenVars, kept, deliveries>>, spent' \in 0 .. MaxFaults,
         NEW why \in {"platform", "media", "url", "reply"}, Abandon(why),
         why = "media" => MediaErrors(Items)
  PROVE  AdaptersInv'
<1>1. UNCHANGED <<kind, https, attached, kept, deliveries>>
  BY DEF givenVars
<1>2. delivery.post \in ThreadPosts /\ row \in [ThreadPosts -> DestinationRow]
  BY DEF AdaptersInv, AdaptersTypeOK, DeliveryRow
<1> DEFINE failed == [row[delivery.post] EXCEPT !.status = "failed", !.why = why]
<1>3. /\ failed \in DestinationRow /\ failed.ext = row[delivery.post].ext
      /\ failed.status = "failed" /\ failed.why = why
  BY <1>2 DEF DestinationRow
<1>4. row' = [row EXCEPT ![delivery.post] = failed]
  BY <1>2 DEF Abandon
<1> HIDE DEF failed
<1>5. row' \in [ThreadPosts -> DestinationRow]
  BY <1>2, <1>3, <1>4
<1>6. \A p \in ThreadPosts : MediaErrors(attached[p])' <=> MediaErrors(attached[p])
  BY <1>1 DEF MediaErrors, XMediaErrors, BlueskyMediaErrors, MastodonMediaErrors,
     LinkedInMediaErrors, ThreadsMediaErrors, FacebookMediaErrors, InstagramMediaErrors,
     TikTokMediaErrors, YouTubeMediaErrors, Videos
<1>7. ASSUME NEW p \in ThreadPosts PROVE RowFits(p)'
  <2>1. RowFits(p) /\ row[p].ext \in ExternalId
    BY <1>2 DEF AdaptersInv, RowsFit, DestinationRow
  <2>2. row'[p].ext = row[p].ext
    BY <1>2, <1>3, <1>4
  <2>3. Names(row[p].ext, p)'
    <3>1. PICK e \in ExternalId : e = row[p].ext
      BY <2>1
    <3>2. Names(e, p)'
      BY <1>1, <2>1, <3>1, NamesStays DEF RowFits, AdaptersInv
    <3> QED
      BY <2>2, <3>1, <3>2
  <2>4. row'[p].status = "success" => Made(p)' # {}
    <3>1. row'[p].status = "success" => row[p].status = "success"
      BY <1>2, <1>3, <1>4
    <3> QED
      BY <1>1, <2>1, <3>1, MadeStays DEF RowFits, AdaptersInv
  <2>5. row'[p].why = "media" => MediaErrors(attached[p])
    BY <1>2, <1>3, <1>4, <2>1 DEF RowFits, Items
  <2> QED
    BY <1>6, <2>3, <2>4, <2>5 DEF RowFits
<1>8. delivery' \in DeliveryRow /\ DeliveryFits'
  BY IdleFits DEF Abandon
<1>9. AdaptersTypeOK'
  BY <1>1, <1>5, <1>8 DEF AdaptersInv, AdaptersTypeOK, RemoteKeeps, ThreadPosts, DeliveryRow,
     DestinationRow
<1> QED
  BY <1>7, <1>8, <1>9 DEF AdaptersInv, RowsFit

-----------------------------------------------------------------------------
(* Steps of the uploads *)

LEMMA InHandFacts ==
  ASSUME AdaptersInv
  PROVE  /\ delivery.post \in ThreadPosts /\ delivery.ids \in Seq(Nat) /\ delivery.ext \in ExternalId
         /\ Items \in Seq(Files) /\ Len(delivery.ids) \in Nat /\ Len(Items) \in Nat
         /\ DOMAIN delivery.ids = 1 .. Len(delivery.ids) /\ DOMAIN Items = 1 .. Len(Items)
         /\ deliveries \in Nat /\ spent \in 0 .. MaxFaults /\ Len(remote) \in Nat
         /\ DOMAIN remote = 1 .. Len(remote)
         /\ \A n \in DOMAIN remote : remote[n] \in RemoteObject
<1>1. deliveries \in 0 .. MaxDeliveries /\ MaxDeliveries \in Nat
  BY PlatformPostsAssumption DEF AdaptersInv, AdaptersTypeOK
<1>2. delivery.post \in ThreadPosts /\ delivery.ids \in Seq(Nat) /\ delivery.ext \in ExternalId
  BY DEF AdaptersInv, AdaptersTypeOK, DeliveryRow
<1>3. Items \in Seq(Files)
  BY <1>2 DEF AdaptersInv, AdaptersTypeOK, Items
<1>4. remote \in Seq(RemoteObject)
  BY DEF AdaptersInv, AdaptersTypeOK
<1> QED
  BY <1>1, <1>2, <1>3, <1>4 DEF AdaptersInv, AdaptersTypeOK

LEMMA GoFacts ==
  ASSUME AdaptersInv, NEW step \in {"media"} \cup ItemSteps \cup RequestSteps, Go(step)
  PROVE  /\ delivery' \in DeliveryRow /\ delivery'.at = step /\ delivery'.post = delivery.post
         /\ delivery'.ids = delivery.ids /\ delivery'.obj = delivery.obj
         /\ delivery'.sent = delivery.sent /\ delivery'.again = delivery.again
         /\ delivery'.ext = delivery.ext
<1>1. delivery \in DeliveryRow /\ delivery' = [delivery EXCEPT !.at = step]
  BY DEF AdaptersInv, AdaptersTypeOK, Go
<1> QED
  BY <1>1 DEF DeliveryRow

LEMMA SpendFacts == ASSUME AdaptersInv, Spend PROVE spent' \in 0 .. MaxFaults
<1>1. spent \in 0 .. MaxFaults /\ MaxFaults \in Nat
  BY PlatformPostsAssumption DEF AdaptersInv, AdaptersTypeOK
<1> QED
  BY <1>1 DEF Spend

LEMMA ObjectsSame ==
  ASSUME AdaptersInv, UNCHANGED <<kind, attached, kept, deliveries, remote>>
  PROVE  RemoteKeeps /\ ObjectsFit' /\ OnePostPerDelivery' /\ KeptFit'
<1>1. RemoteKeeps
  BY SameKeeps DEF AdaptersInv
<1> QED
  BY <1>1, ObjectsStay, InHandFacts DEF AdaptersInv

LEMMA RefusedKeeps == ASSUME AdaptersInv, Refused PROVE AdaptersInv'
BY ObjectsSame, SpendFacts, Abandons DEF Refused, givenVars

\* What a delivery has in hand is still there after a step of it.
LEMMA CarriesOn ==
  ASSUME AdaptersInv, RemoteKeeps, UNCHANGED <<kind, attached>>, ~At("idle"),
         delivery'.post = delivery.post
  PROVE  /\ Items' = Items /\ UsesPublicMediaURL' = UsesPublicMediaURL
         /\ delivery'.ids = delivery.ids /\ ~UsesPublicMediaURL =>
              \A i \in DOMAIN delivery.ids : Usable(delivery.ids[i], delivery.post, i)'
         /\ delivery'.ext = delivery.ext => Names(delivery.ext, delivery.post)'
<1>1. PICK p \in ThreadPosts : p = delivery.post
  BY InHandFacts
<1>2. PICK ids \in Seq(Nat) : ids = delivery.ids
  BY InHandFacts
<1>3. PICK e \in ExternalId : e = delivery.ext
  BY InHandFacts
<1>4. AdaptersTypeOK
  BY DEF AdaptersInv
<1>5. ASSUME ~UsesPublicMediaURL, NEW i \in DOMAIN ids PROVE Usable(ids[i], p, i)'
  <2>1. Usable(ids[i], p, i)
    BY <1>1, <1>2, <1>5 DEF AdaptersInv, DeliveryFits, ItemsFit
  <2> QED
    BY <1>4, <2>1, UsableStays
<1>6. Names(e, p)'
  BY <1>1, <1>3, <1>4, NamesStays DEF AdaptersInv, DeliveryFits, RequestFits
<1> QED
  BY <1>1, <1>2, <1>3, <1>5, <1>6 DEF Items, UsesPublicMediaURL

LEMMA NoneStays ==
  ASSUME AdaptersInv, RemoteKeeps, UNCHANGED <<kind, deliveries>>,
         \A n \in DOMAIN remote' \ DOMAIN remote : remote'[n].what # "post",
         delivery'.again = delivery.again, delivery.at \notin {"idle", "save"},
         ~(kind = "tiktok" /\ At("poll"))
  PROVE  NoneYet' /\ NoneRenewed'
<1>1. \A n \in DOMAIN remote' : Own(n)' => n \in DOMAIN remote /\ Own(n) /\ remote'[n].again = remote[n].again
  BY DEF Own, RemoteKeeps
<1> QED
  BY <1>1 DEF AdaptersInv, DeliveryFits, NoneYet, NoneRenewed, At

\* An item more is there for the post to use.
LEMMA NextItemFits ==
  ASSUME AdaptersInv, UNCHANGED <<kind, attached, deliveries, remote>>, delivery.at \in {"media", "keep"},
         Len(delivery.ids) < Len(Items), NEW id \in Nat, delivery' = NextItem(id),
         ~UsesPublicMediaURL => Usable(id, delivery.post, Len(delivery.ids) + 1)
  PROVE  delivery' \in DeliveryRow /\ DeliveryFits'
<1>1. /\ RemoteKeeps /\ delivery.ids \in Seq(Nat) /\ 0 \in 0 .. Polls - 1
  BY SameKeeps, InHandFacts, PlatformPostsAssumption DEF AdaptersInv
<1> DEFINE all == Append(delivery.ids, id)
<1>2. /\ all \in Seq(Nat) /\ Len(all) = Len(delivery.ids) + 1 /\ all[Len(delivery.ids) + 1] = id
      /\ \A i \in DOMAIN delivery.ids : all[i] = delivery.ids[i]
      /\ DOMAIN all = DOMAIN delivery.ids \cup {Len(delivery.ids) + 1}
  BY <1>1
<1>3. delivery' = [delivery EXCEPT !.at = "media", !.ids = all, !.obj = 0, !.sent = 0, !.polls = 0]
  BY DEF NextItem
<1> HIDE DEF all
<1>4. /\ delivery' \in DeliveryRow /\ delivery'.at = "media" /\ delivery'.post = delivery.post
      /\ delivery'.ids = all /\ delivery'.again = delivery.again /\ delivery'.ext = delivery.ext
      /\ delivery'.sent = 0
  <2>1. delivery \in DeliveryRow
    BY DEF AdaptersInv, AdaptersTypeOK
  <2>2. delivery' = [at |-> "media", post |-> delivery.post, ids |-> all, obj |-> 0, sent |-> 0,
                     polls |-> 0, tries |-> delivery.tries, again |-> delivery.again, ext |-> delivery.ext]
    BY <1>3, <2>1 DEF DeliveryRow
  <2>3. delivery' \in DeliveryRow
    BY <1>1, <1>2, <2>1, <2>2 DEF DeliveryRow
  <2> QED
    BY <2>2, <2>3
<1>5. NoneYet' /\ NoneRenewed'
  BY <1>1, <1>4, NoneStays DEF At
<1>6. Items' = Items /\ UsesPublicMediaURL' = UsesPublicMediaURL /\ Names(delivery.ext, delivery.post)'
  BY <1>1, <1>4, CarriesOn DEF At
<1>7. ASSUME ~UsesPublicMediaURL, NEW i \in DOMAIN all PROVE Usable(all[i], delivery.post, i)
  <2>1. CASE i \in DOMAIN delivery.ids
    BY <1>2, <1>7, <2>1 DEF AdaptersInv, DeliveryFits, ItemsFit, At
  <2>2. CASE i = Len(delivery.ids) + 1
    BY <1>2, <1>7, <2>2
  <2> QED
    BY <1>2, <2>1, <2>2
<1>8. ItemsFit'
  <2>1. \A i \in DOMAIN delivery'.ids : ~UsesPublicMediaURL => Usable(delivery.ids[i], delivery.post, i)'
    BY <1>4, <1>7 DEF Usable, Upload
  <2>2. Len(delivery'.ids) <= Len(Items)'
    <3>1. Len(delivery.ids) + 1 <= Len(Items)
      BY InHandFacts
    <3> QED
      BY <1>2, <1>4, <1>6, <3>1
  <2> QED
    BY <1>4, <1>6, <2>1, <2>2 DEF ItemsFit, At, ItemSteps, UploadSteps, RequestSteps
<1>9. UploadFits' /\ RequestFits'
  BY <1>4, <1>6 DEF UploadFits, RequestFits, At, UploadSteps
<1> QED
  BY <1>4, <1>5, <1>8, <1>9 DEF DeliveryFits

LEMMA NextMediaKeeps == ASSUME AdaptersInv, NextMedia PROVE AdaptersInv'
<1>1. At("media") /\ UNCHANGED <<kind, attached, kept, deliveries, givenVars>>
  BY DEF NextMedia, givenVars
<1>2. Len(delivery.ids) <= Len(Items)
  BY <1>1 DEF AdaptersInv, DeliveryFits, ItemsFit
<1>3. CASE Len(delivery.ids) = Len(Items) /\ Go("check") /\ UNCHANGED <<row, remote, spent>>
  <2>1. RemoteKeeps /\ ObjectsFit' /\ OnePostPerDelivery' /\ KeptFit'
    BY <1>1, <1>3, ObjectsSame
  <2>2. /\ delivery' \in DeliveryRow /\ delivery'.at = "check" /\ delivery'.post = delivery.post
        /\ delivery'.ids = delivery.ids /\ delivery'.again = delivery.again /\ delivery'.ext = delivery.ext
    BY <1>3, GoFacts DEF RequestSteps
  <2>3. NoneYet' /\ NoneRenewed'
    BY <1>1, <1>3, <2>1, <2>2, NoneStays DEF At
  <2>4. ItemsFit' /\ UploadFits' /\ RequestFits'
    BY <1>1, <1>3, <2>1, <2>2, CarriesOn DEF ItemsFit, UploadFits, RequestFits, At, ItemSteps,
       UploadSteps, RequestSteps
  <2> QED
    BY <1>1, <1>3, <2>1, <2>2, <2>3, <2>4, GoesOn, InHandFacts DEF DeliveryFits
<1>4. ASSUME Len(delivery.ids) < Len(Items), NEW id \in KnownMedia, delivery' = NextItem(id),
             UNCHANGED <<row, remote, spent>>
      PROVE  AdaptersInv'
  <2>1. RemoteKeeps /\ ObjectsFit' /\ OnePostPerDelivery' /\ KeptFit'
    BY <1>1, <1>4, ObjectsSame
  <2>2. id \in Nat /\ (~UsesPublicMediaURL => id = kept[delivery.post][Len(delivery.ids) + 1] /\ id # 0)
    BY <1>4, InHandFacts DEF KnownMedia, AdaptersInv, AdaptersTypeOK, Items
  <2>3. ~UsesPublicMediaURL => Usable(id, delivery.post, Len(delivery.ids) + 1)
    <3>1. Len(delivery.ids) + 1 \in DOMAIN attached[delivery.post] /\ delivery.post \in ThreadPosts
      BY <1>4, InHandFacts DEF Items
    <3>2. KeptFits(delivery.post, Len(delivery.ids) + 1)
      BY <3>1 DEF AdaptersInv, KeptFit
    <3> QED
      BY <2>2, <3>2 DEF KeptFits
  <2>4. delivery' \in DeliveryRow /\ DeliveryFits'
    BY <1>1, <1>4, <2>2, <2>3, NextItemFits DEF At
  <2> QED
    BY <1>1, <1>4, <2>1, <2>4, GoesOn, InHandFacts
<1>5. ASSUME kind = "youtube", Len(delivery.ids) < Len(Items), Item # "video", Abandon("media"),
             UNCHANGED <<remote, spent>>
      PROVE  AdaptersInv'
  <2>1. Len(Items) # 1 \/ Items[1] # "video"
    BY <1>5, InHandFacts DEF Item
  <2>2. MediaErrors(Items)
    BY <1>5, <2>1 DEF MediaErrors, YouTubeMediaErrors
  <2> QED
    BY <1>1, <1>5, <2>2, ObjectsSame, Abandons, InHandFacts
<1>6. ASSUME Len(delivery.ids) < Len(Items), KnownMedia = {},
             Go(IF Registers(Item) THEN "open" ELSE "send"), UNCHANGED <<row, remote, spent>>
      PROVE  AdaptersInv'
  <2>1. RemoteKeeps /\ ObjectsFit' /\ OnePostPerDelivery' /\ KeptFit'
    BY <1>1, <1>6, ObjectsSame
  <2>2. /\ delivery' \in DeliveryRow /\ delivery'.at \in {"open", "send"} /\ delivery'.post = delivery.post
        /\ delivery'.ids = delivery.ids /\ delivery'.again = delivery.again /\ delivery'.ext = delivery.ext
        /\ delivery'.sent = 0
    BY <1>1, <1>6, GoFacts DEF ItemSteps, AdaptersInv, DeliveryFits, UploadFits, At
  <2>3. NoneYet' /\ NoneRenewed'
    BY <1>1, <1>6, <2>1, <2>2, NoneStays DEF At
  <2>4. ~UsesPublicMediaURL /\ kept[delivery.post][Len(delivery.ids) + 1] = 0
    BY <1>6 DEF KnownMedia
  <2>5. ItemsFit' /\ UploadFits' /\ RequestFits'
    BY <1>1, <1>6, <2>1, <2>2, <2>4, CarriesOn DEF ItemsFit, UploadFits, RequestFits, At, ItemSteps,
       UploadSteps, RequestSteps
  <2> QED
    BY <1>1, <1>6, <2>1, <2>2, <2>3, <2>5, GoesOn, InHandFacts DEF DeliveryFits
<1> QED
  BY <1>1, <1>2, <1>3, <1>4, <1>5, <1>6 DEF NextMedia

LEMMA NewObjectFacts ==
  ASSUME AdaptersInv, NEW what \in {"media", "container", "post"}, NEW item \in Nat,
         NEW parts \in Seq(SUBSET Nat), NEW st \in MediaStates
  PROVE  \E o \in RemoteObject :
           /\ o = NewObject(what, item, parts, st)
           /\ o.what = what /\ o.post = delivery.post /\ o.item = item
           /\ o.parts = parts /\ o.state = st /\ o.uses = <<>> /\ o.parent = 0 /\ o.root = 0
           /\ o.delivery = deliveries /\ o.again = delivery.again
<1>1. delivery.post \in ThreadPosts /\ delivery.again \in BOOLEAN /\ deliveries \in Nat
  BY InHandFacts DEF AdaptersInv, AdaptersTypeOK, DeliveryRow
<1>2. <<>> \in Seq(Nat)
  OBVIOUS
<1> DEFINE o == NewObject(what, item, parts, st)
<1>3. /\ o.what = what /\ o.post = delivery.post /\ o.item = item
      /\ o.parts = parts /\ o.state = st /\ o.uses = <<>> /\ o.parent = 0 /\ o.root = 0
      /\ o.delivery = deliveries /\ o.again = delivery.again
  BY DEF NewObject
<1>4. o \in RemoteObject
  BY <1>1, <1>2 DEF NewObject, RemoteObject
<1> HIDE DEF o
<1> QED
  BY <1>3, <1>4 DEF o

\* An upload of the item in hand.
LEMMA UploadBegins ==
  ASSUME AdaptersInv, delivery.at \in {"send", "open"}, UNCHANGED <<givenVars, kept, deliveries>>,
         NEW o \in RemoteObject, remote' = Append(remote, o), NEW k, k = Len(remote) + 1,
         o.what = "media", o.post = delivery.post, o.item = Len(delivery.ids) + 1,
         o.uses = <<>>, o.parent = 0, o.root = 0, o.delivery = deliveries
  PROVE  /\ RemoteKeeps /\ ObjectsFit' /\ OnePostPerDelivery' /\ KeptFit'
         /\ Len(remote') = k /\ DOMAIN remote' = DOMAIN remote \cup {k} /\ remote'[k] = o
<1>1. /\ Len(remote') = k /\ DOMAIN remote' = DOMAIN remote \cup {k} /\ remote'[k] = o
  BY AppendKeeps DEF AdaptersInv
<1>2. ObjectFits(k)'
  BY <1>1, InHandFacts DEF ObjectFits, HasRoot, ShowsMedia
<1>3. kept[o.post][o.item] = 0
  BY DEF AdaptersInv, DeliveryFits, ItemsFit, ItemSteps
<1> QED
  BY <1>1, <1>2, <1>3, ObjectsGrow DEF AdaptersInv

LEMMA TakesFacts ==
  ASSUME AdaptersInv, NEW step \in {"media"} \cup ItemSteps \cup RequestSteps, NEW n \in Nat,
         delivery' = [delivery EXCEPT !.at = step, !.obj = n]
  PROVE  /\ delivery' \in DeliveryRow /\ delivery'.at = step /\ delivery'.post = delivery.post
         /\ delivery'.ids = delivery.ids /\ delivery'.obj = n /\ delivery'.sent = delivery.sent
         /\ delivery'.again = delivery.again /\ delivery'.ext = delivery.ext
<1>1. delivery \in DeliveryRow
  BY DEF AdaptersInv, AdaptersTypeOK
<1> QED
  BY <1>1 DEF DeliveryRow

LEMMA CoversNone == <<>> \in Seq(SUBSET Nat) /\ Covers(<<>>, 0)
<1>1. <<>> \in Seq(SUBSET Nat)
  OBVIOUS
<1> QED
  BY <1>1 DEF Covers

LEMMA CoversMore ==
  ASSUME NEW parts \in Seq(SUBSET Nat), NEW s \in Nat, NEW e \in Nat, s <= e, Covers(parts, s)
  PROVE  Append(parts, s .. e - 1) \in Seq(SUBSET Nat) /\ Covers(Append(parts, s .. e - 1), e)
<1> DEFINE more == Append(parts, s .. e - 1)
<1>1. s .. e - 1 \in SUBSET Nat
  OBVIOUS
<1>2. /\ more \in Seq(SUBSET Nat) /\ DOMAIN more = 1 .. Len(parts) + 1 /\ DOMAIN parts = 1 .. Len(parts)
      /\ more[Len(parts) + 1] = s .. e - 1
      /\ \A k \in DOMAIN parts : more[k] = parts[k]
  BY <1>1
<1> HIDE DEF more
<1>3. \A k \in DOMAIN parts : parts[k] \subseteq 0 .. s - 1
  BY DEF Covers
<1>4. UNION {more[k] : k \in DOMAIN more} = 0 .. e - 1
  <2>1. ASSUME NEW x \in UNION {more[k] : k \in DOMAIN more} PROVE x \in 0 .. e - 1
    <3>1. PICK k \in DOMAIN more : x \in more[k]
      BY <2>1
    <3> QED
      BY <1>2, <1>3, <3>1
  <2>2. ASSUME NEW x \in 0 .. e - 1 PROVE x \in UNION {more[k] : k \in DOMAIN more}
    <3>1. CASE x < s
      <4>1. x \in 0 .. s - 1
        BY <2>2, <3>1
      <4>2. PICK k \in DOMAIN parts : x \in parts[k]
        BY <4>1 DEF Covers
      <4> QED
        BY <1>2, <4>2
    <3>2. CASE ~(x < s)
      <4>1. x \in more[Len(parts) + 1] /\ Len(parts) + 1 \in DOMAIN more
        BY <1>2, <2>2, <3>2
      <4> QED
        BY <4>1
    <3> QED
      BY <3>1, <3>2
  <2> QED
    BY <2>1, <2>2
<1>5. ASSUME NEW k \in DOMAIN more, NEW l \in DOMAIN more, k < l, NEW a \in more[k], NEW b \in more[l]
      PROVE  a < b
  <2>1. k \in DOMAIN parts /\ a \in parts[k] /\ a \in 0 .. s - 1
    BY <1>2, <1>3, <1>5
  <2>2. CASE l \in DOMAIN parts
    BY <1>2, <1>5, <2>1, <2>2 DEF Covers
  <2>3. CASE l = Len(parts) + 1
    BY <1>2, <1>5, <2>1, <2>3
  <2> QED
    BY <1>2, <2>2, <2>3
<1>6. more \in Seq(SUBSET Nat) /\ Covers(more, e)
  BY <1>2, <1>4, <1>5 DEF Covers
<1> QED
  BY <1>6 DEF more

\* The whole file as one part.
LEMMA CoversFile ==
  \E parts \in Seq(SUBSET Nat) : parts = <<0 .. FileSize - 1>> /\ Covers(parts, FileSize)
<1>1. FileSize \in Nat /\ 0 <= FileSize
  BY PlatformPostsAssumption
<1>2. PICK none \in Seq(SUBSET Nat) : none = <<>> /\ Covers(none, 0)
  BY CoversNone
<1>3. Append(none, 0 .. FileSize - 1) = <<0 .. FileSize - 1>>
  BY <1>2
<1>4. /\ Append(none, 0 .. FileSize - 1) \in Seq(SUBSET Nat)
      /\ Covers(Append(none, 0 .. FileSize - 1), FileSize)
  BY <1>1, <1>2, CoversMore
<1> QED
  BY <1>3, <1>4

LEMMA SendFileKeeps == ASSUME AdaptersInv, SendFile PROVE AdaptersInv'
<1>1. CASE Refused
  BY <1>1, RefusedKeeps
<1>2. ASSUME NEW st \in MediaStates, st \in {"ready", "processing"},
             Carried(NewUpload(<<0 .. FileSize - 1>>, st),
                     delivery' = [delivery EXCEPT !.at = IF st = "ready" THEN "keep" ELSE "wait",
                                                  !.obj = Len(remote) + 1])
      PROVE  AdaptersInv'
  <2>1. PICK k \in Nat : k = Len(remote) + 1
    BY InHandFacts
  <2>0. PICK file \in Seq(SUBSET Nat) : file = <<0 .. FileSize - 1>> /\ Covers(file, FileSize)
    BY CoversFile
  <2>2. PICK item \in Nat : item = Len(delivery.ids) + 1
    BY InHandFacts
  <2>3. PICK o \in RemoteObject :
          /\ o = NewObject("media", item, file, st)
          /\ o.what = "media" /\ o.post = delivery.post /\ o.item = item
          /\ o.parts = file /\ o.state = st /\ o.uses = <<>> /\ o.parent = 0 /\ o.root = 0
          /\ o.delivery = deliveries /\ o.again = delivery.again
    BY NewObjectFacts
  <2>4. /\ UNCHANGED <<givenVars, kept, deliveries>> /\ UNCHANGED <<kind, attached>>
        /\ remote' = Append(remote, o) /\ At("send")
    BY <1>2, <2>0, <2>2, <2>3 DEF Carried, givenVars, SendFile, NewUpload
  <2>5. /\ RemoteKeeps /\ ObjectsFit' /\ OnePostPerDelivery' /\ KeptFit'
        /\ Len(remote') = k /\ DOMAIN remote' = DOMAIN remote \cup {k} /\ remote'[k] = o
    BY <2>1, <2>2, <2>3, <2>4, UploadBegins DEF At
  <2>6. CASE Spend /\ Abandon("platform")
    BY <2>4, <2>5, <2>6, SpendFacts, Abandons
  <2>7. CASE /\ delivery' = [delivery EXCEPT !.at = IF st = "ready" THEN "keep" ELSE "wait",
                                             !.obj = Len(remote) + 1]
             /\ UNCHANGED <<row, spent>>
    <3>1. /\ delivery' \in DeliveryRow /\ delivery'.at = IF st = "ready" THEN "keep" ELSE "wait"
          /\ delivery'.post = delivery.post /\ delivery'.ids = delivery.ids /\ delivery'.obj = k
          /\ delivery'.again = delivery.again /\ delivery'.ext = delivery.ext
      BY <2>1, <2>7, TakesFacts DEF ItemSteps, UploadSteps
    <3>2. NoneYet' /\ NoneRenewed'
      BY <2>3, <2>4, <2>5, <3>1, NoneStays DEF At
    <3>3. ItemsFit' /\ RequestFits'
      <4>1. /\ Items' = Items /\ UsesPublicMediaURL' = UsesPublicMediaURL
            /\ ~UsesPublicMediaURL =>
                 \A i \in DOMAIN delivery.ids : Usable(delivery.ids[i], delivery.post, i)'
            /\ Names(delivery.ext, delivery.post)'
        BY <2>4, <2>5, <3>1, CarriesOn DEF At
      <4> QED
        BY <2>4, <3>1, <4>1 DEF AdaptersInv, DeliveryFits, ItemsFit, RequestFits, At, ItemSteps,
           UploadSteps, RequestSteps
    <3>4. UploadFits'
      BY <2>0, <2>1, <2>2, <2>3, <2>5, <3>1 DEF UploadFits, Upload, At, UploadSteps, InHand
    <3> QED
      BY <2>4, <2>5, <2>7, <3>1, <3>2, <3>3, <3>4, GoesOn, InHandFacts DEF DeliveryFits
  <2> QED
    BY <1>2, <2>6, <2>7 DEF Carried
<1> QED
  BY <1>1, <1>2 DEF SendFile, MediaStates

LEMMA OpenUploadKeeps == ASSUME AdaptersInv, OpenUpload PROVE AdaptersInv'
<1>1. CASE Refused
  BY <1>1, RefusedKeeps
<1>2. CASE Carried(NewUpload(<<>>, "open"), delivery' = [delivery EXCEPT !.at = "part", !.obj = Len(remote) + 1])
  <2>1. PICK k \in Nat : k = Len(remote) + 1
    BY InHandFacts
  <2>0. PICK none \in Seq(SUBSET Nat) : none = <<>> /\ Covers(none, 0)
    BY CoversNone
  <2>2. PICK item \in Nat : item = Len(delivery.ids) + 1
    BY InHandFacts
  <2>3. PICK o \in RemoteObject :
          /\ o = NewObject("media", item, none, "open")
          /\ o.what = "media" /\ o.post = delivery.post /\ o.item = item
          /\ o.parts = none /\ o.state = "open" /\ o.uses = <<>> /\ o.parent = 0 /\ o.root = 0
          /\ o.delivery = deliveries /\ o.again = delivery.again
    BY NewObjectFacts DEF MediaStates
  <2>4. /\ UNCHANGED <<givenVars, kept, deliveries>> /\ UNCHANGED <<kind, attached>>
        /\ remote' = Append(remote, o) /\ At("open")
    BY <1>2, <2>0, <2>2, <2>3 DEF Carried, givenVars, OpenUpload, NewUpload
  <2>5. /\ RemoteKeeps /\ ObjectsFit' /\ OnePostPerDelivery' /\ KeptFit'
        /\ Len(remote') = k /\ DOMAIN remote' = DOMAIN remote \cup {k} /\ remote'[k] = o
    BY <2>1, <2>2, <2>3, <2>4, UploadBegins DEF At
  <2>6. CASE Spend /\ Abandon("platform")
    BY <2>4, <2>5, <2>6, SpendFacts, Abandons
  <2>7. CASE delivery' = [delivery EXCEPT !.at = "part", !.obj = Len(remote) + 1] /\ UNCHANGED <<row, spent>>
    <3>1. /\ delivery' \in DeliveryRow /\ delivery'.at = "part" /\ delivery'.sent = 0
          /\ delivery'.post = delivery.post /\ delivery'.ids = delivery.ids /\ delivery'.obj = k
          /\ delivery'.again = delivery.again /\ delivery'.ext = delivery.ext
      BY <2>1, <2>4, <2>7, TakesFacts DEF ItemSteps, UploadSteps, AdaptersInv, DeliveryFits, UploadFits, At
    <3>2. NoneYet' /\ NoneRenewed'
      BY <2>3, <2>4, <2>5, <3>1, NoneStays DEF At
    <3>3. ItemsFit' /\ RequestFits'
      <4>1. /\ Items' = Items /\ UsesPublicMediaURL' = UsesPublicMediaURL
            /\ ~UsesPublicMediaURL =>
                 \A i \in DOMAIN delivery.ids : Usable(delivery.ids[i], delivery.post, i)'
            /\ Names(delivery.ext, delivery.post)'
        BY <2>4, <2>5, <3>1, CarriesOn DEF At
      <4> QED
        BY <2>4, <3>1, <4>1 DEF AdaptersInv, DeliveryFits, ItemsFit, RequestFits, At, ItemSteps,
           UploadSteps, RequestSteps
    <3>4. UploadFits'
      <4>1. 0 < FileSize
        BY PlatformPostsAssumption
      <4> QED
        BY <2>0, <2>1, <2>2, <2>3, <2>5, <3>1, <4>1 DEF UploadFits, Upload, At, UploadSteps, InHand
    <3> QED
      BY <2>4, <2>5, <2>7, <3>1, <3>2, <3>3, <3>4, GoesOn, InHandFacts DEF DeliveryFits
  <2> QED
    BY <1>2, <2>6, <2>7 DEF Carried
<1> QED
  BY <1>1, <1>2 DEF OpenUpload

\* A chunk is what is left of the file, and no more than a chunk.
LEMMA NextPartFacts ==
  ASSUME NEW s \in Nat, s < FileSize
  PROVE  \E e \in Nat : /\ s <= e /\ e <= FileSize /\ NextPart(s) = s .. e - 1
                        /\ Cardinality(NextPart(s)) = e - s
<1>1. FileSize \in Nat /\ ChunkSize \in Nat
  BY PlatformPostsAssumption
<1> DEFINE e == IF s + ChunkSize > FileSize THEN FileSize ELSE s + ChunkSize
<1>2. e \in Nat /\ s <= e /\ e <= FileSize /\ NextPart(s) = s .. e - 1
  BY <1>1 DEF NextPart
<1> HIDE DEF e
<1>3. Cardinality(s .. e - 1) = IF s > e - 1 THEN 0 ELSE (e - 1) - s + 1
  BY <1>2, FS_Interval
<1>4. Cardinality(s .. e - 1) = e - s
  BY <1>2, <1>3
<1> QED
  BY <1>2, <1>4

With(r, parts, st) == [r EXCEPT !.parts = parts, !.state = st]
WithState(r, st) == [r EXCEPT !.state = st]

LEMMA ObjectWith ==
  ASSUME NEW r \in RemoteObject, NEW parts \in Seq(SUBSET Nat), NEW st \in MediaStates
  PROVE  /\ With(r, parts, st) \in RemoteObject /\ Becomes(With(r, parts, st), r)
         /\ With(r, parts, st).parts = parts /\ With(r, parts, st).state = st
BY DEF RemoteObject, Becomes, With

LEMMA ObjectIn ==
  ASSUME NEW r \in RemoteObject, NEW st \in MediaStates
  PROVE  /\ WithState(r, st) \in RemoteObject /\ Becomes(WithState(r, st), r)
         /\ WithState(r, st).parts = r.parts /\ WithState(r, st).state = st
BY DEF RemoteObject, Becomes, WithState

\* One object that is not ready changes; the rest is as it was.
LEMMA ChangesOnly ==
  ASSUME AdaptersInv, UNCHANGED <<givenVars, kept, deliveries>>,
         NEW m \in DOMAIN remote, remote[m].state # "ready",
         NEW o \in RemoteObject, Becomes(o, remote[m]), remote' = [remote EXCEPT ![m] = o]
  PROVE  /\ RemoteKeeps /\ ObjectsFit' /\ OnePostPerDelivery' /\ KeptFit'
         /\ Len(remote') = Len(remote) /\ DOMAIN remote' = DOMAIN remote
         /\ remote'[m] = o /\ \A n \in DOMAIN remote \ {m} : remote'[n] = remote[n]
<1>1. /\ RemoteKeeps /\ Len(remote') = Len(remote) /\ DOMAIN remote' = DOMAIN remote
      /\ remote'[m] = o /\ \A n \in DOMAIN remote \ {m} : remote'[n] = remote[n]
  BY ChangeKeeps DEF AdaptersInv
<1>2. UNCHANGED <<kind, attached, kept>> /\ deliveries' \in Nat /\ deliveries <= deliveries'
  BY InHandFacts DEF givenVars
<1>3. ObjectsFit' /\ OnePostPerDelivery' /\ KeptFit'
  BY <1>1, <1>2, ObjectsStay DEF AdaptersInv
<1> QED
  BY <1>1, <1>3

LEMMA SendPartKeeps == ASSUME AdaptersInv, SendPart PROVE AdaptersInv'
<1> DEFINE part == IF Finalizes(Item) THEN NextPart(delivery.sent) ELSE 0 .. FileSize - 1
           sent == delivery.sent + Cardinality(part)
<1>1. CASE Refused
  BY <1>1, RefusedKeeps
<1>2. CASE Carried([remote EXCEPT ![delivery.obj].parts = Append(@, part),
                                  ![delivery.obj].state = IF Finalizes(Item) THEN @ ELSE "ready"],
                   delivery' = [delivery EXCEPT !.sent = sent,
                                  !.at = IF ~Finalizes(Item) THEN "keep"
                                         ELSE IF SentAll(sent) THEN "close" ELSE "part"])
  <2>1. /\ At("part") /\ UNCHANGED <<givenVars, kept, deliveries>> /\ UNCHANGED <<kind, attached>>
    BY <1>2 DEF SendPart, Carried, givenVars
  <2>2. PICK m \in DOMAIN remote : m = delivery.obj
    BY <2>1 DEF AdaptersInv, DeliveryFits, UploadFits, UploadSteps, Upload, At
  <2>3. /\ remote[m] \in RemoteObject /\ remote[m].state = "open" /\ m = Len(remote)
        /\ Upload(m, delivery.post, Len(delivery.ids) + 1)
        /\ Covers(remote[m].parts, delivery.sent)
        /\ IF Finalizes(Item) THEN delivery.sent < FileSize ELSE delivery.sent = 0
    BY <2>1, <2>2, InHandFacts DEF AdaptersInv, DeliveryFits, UploadFits, UploadSteps, InHand, At
  <2>4. delivery.sent \in Nat /\ remote[m].parts \in Seq(SUBSET Nat)
    BY <2>3 DEF AdaptersInv, AdaptersTypeOK, DeliveryRow, RemoteObject
  <2>5. PICK e \in Nat : /\ delivery.sent <= e /\ e <= FileSize /\ part = delivery.sent .. e - 1
                         /\ sent = e /\ (~Finalizes(Item) => e = FileSize)
    <3>1. CASE Finalizes(Item)
      <4>1. PICK f \in Nat : /\ delivery.sent <= f /\ f <= FileSize /\ NextPart(delivery.sent) = delivery.sent .. f - 1
                             /\ Cardinality(NextPart(delivery.sent)) = f - delivery.sent
        BY <2>3, <2>4, <3>1, NextPartFacts
      <4> QED
        BY <2>4, <3>1, <4>1
    <3>2. CASE ~Finalizes(Item)
      <4>1. FileSize \in Nat
        BY PlatformPostsAssumption
      <4>2. Cardinality(0 .. FileSize - 1) = IF 0 > FileSize - 1 THEN 0 ELSE (FileSize - 1) - 0 + 1
        BY <4>1, FS_Interval
      <4>3. Cardinality(0 .. FileSize - 1) = FileSize
        BY <4>1, <4>2, PlatformPostsAssumption
      <4> QED
        BY <2>3, <3>2, <4>1, <4>3
    <3> QED
      BY <3>1, <3>2
  <2>6. PICK parts \in Seq(SUBSET Nat) : parts = Append(remote[m].parts, part) /\ Covers(parts, e)
    BY <2>3, <2>4, <2>5, CoversMore
  <2>7. PICK st \in MediaStates : st = IF Finalizes(Item) THEN "open" ELSE "ready"
    BY DEF MediaStates
  <2>12. PICK o \in RemoteObject :
           /\ o = With(remote[m], parts, st)
           /\ Becomes(o, remote[m]) /\ o.parts = parts /\ o.state = st
    BY <2>3, ObjectWith
  <2>8. remote' = [remote EXCEPT ![m] = o]
    <3>1. remote' = [remote EXCEPT ![m].parts = Append(@, part),
                                   ![m].state = IF Finalizes(Item) THEN @ ELSE "ready"]
      BY <1>2, <2>2 DEF Carried
    <3>2. remote' = [remote EXCEPT ![m] = [remote[m] EXCEPT !.parts = parts,
                                             !.state = IF Finalizes(Item) THEN remote[m].state ELSE "ready"]]
      BY <2>3, <2>6, <3>1, InHandFacts DEF RemoteObject
    <3> QED
      BY <2>3, <2>7, <2>12, <3>2 DEF With
  <2> HIDE DEF part, sent
  <2>9. /\ RemoteKeeps /\ ObjectsFit' /\ OnePostPerDelivery' /\ KeptFit'
        /\ Len(remote') = Len(remote) /\ DOMAIN remote' = DOMAIN remote
        /\ remote'[m].parts = parts /\ remote'[m].state = st
    BY <2>1, <2>3, <2>12, <2>8, ChangesOnly
  <2>10. CASE Spend /\ Abandon("platform")
    BY <2>1, <2>9, <2>10, SpendFacts, Abandons
  <2>11. CASE /\ delivery' = [delivery EXCEPT !.sent = sent,
                                !.at = IF ~Finalizes(Item) THEN "keep"
                                       ELSE IF SentAll(sent) THEN "close" ELSE "part"]
              /\ UNCHANGED <<row, spent>>
    <3>1. PICK step \in {"part", "close", "keep"} :
             /\ step = IF ~Finalizes(Item) THEN "keep" ELSE IF SentAll(sent) THEN "close" ELSE "part"
             /\ step = "keep" <=> ~Finalizes(Item)
             /\ step = "close" => e = FileSize
             /\ step = "part" => Finalizes(Item) /\ e < FileSize
      <4>1. SentAll(sent) <=> e >= FileSize
        BY <2>5 DEF SentAll
      <4>2. FileSize \in Nat
        BY PlatformPostsAssumption
      <4>3. CASE ~Finalizes(Item)
        BY <2>5, <4>3
      <4>4. CASE Finalizes(Item) /\ e >= FileSize
        BY <2>5, <4>1, <4>2, <4>4
      <4>5. CASE Finalizes(Item) /\ ~(e >= FileSize)
        BY <2>5, <4>1, <4>2, <4>5
      <4> QED
        BY <4>3, <4>4, <4>5
    <3>2. /\ delivery' \in DeliveryRow /\ delivery'.at = step /\ delivery'.sent = e
          /\ delivery'.post = delivery.post /\ delivery'.ids = delivery.ids /\ delivery'.obj = m
          /\ delivery'.again = delivery.again /\ delivery'.ext = delivery.ext
      <4>1. delivery \in DeliveryRow
        BY DEF AdaptersInv, AdaptersTypeOK
      <4>2. delivery' = [delivery EXCEPT !.sent = e, !.at = step]
        BY <2>5, <2>11, <3>1
      <4> QED
        BY <2>2, <4>1, <4>2 DEF DeliveryRow, ItemSteps, UploadSteps
    <3>3. NoneYet' /\ NoneRenewed'
      BY <2>1, <2>9, <3>2, NoneStays DEF At
    <3>4. /\ Items' = Items /\ UsesPublicMediaURL' = UsesPublicMediaURL
          /\ ~UsesPublicMediaURL =>
               \A i \in DOMAIN delivery.ids : Usable(delivery.ids[i], delivery.post, i)'
          /\ Names(delivery.ext, delivery.post)'
      BY <2>1, <2>9, <3>2, CarriesOn DEF At
    <3>5. ItemsFit' /\ RequestFits'
      BY <2>1, <3>2, <3>4 DEF AdaptersInv, DeliveryFits, ItemsFit, RequestFits, At, ItemSteps,
         UploadSteps, RequestSteps
    <3>6. Finalizes(Item)' <=> Finalizes(Item)
      BY <2>1, <3>2, <3>4 DEF Finalizes, XUploads, Item
    <3>7. UploadFits'
      <4>1. Upload(m, delivery.post, Len(delivery.ids) + 1)'
        BY <2>3, <2>9, <3>2 DEF Upload, RemoteKeeps
      <4>2. delivery'.at = "keep" => st = "ready" /\ e = FileSize
        BY <2>5, <2>7, <3>1, <3>2
      <4>3. delivery'.at # "keep" => st = "open"
        BY <2>7, <3>1, <3>2
      <4>4. InHand' = remote'[m]
        BY <3>2 DEF InHand
      <4> QED
        BY <2>3, <2>6, <2>9, <3>1, <3>2, <3>6, <4>1, <4>2, <4>3, <4>4 DEF UploadFits, At, UploadSteps
    <3> QED
      BY <2>1, <2>9, <2>11, <3>2, <3>3, <3>5, <3>7, GoesOn, InHandFacts DEF DeliveryFits
  <2> QED
    BY <1>2, <2>10, <2>11 DEF Carried, part, sent
<1> QED
  BY <1>1, <1>2 DEF SendPart

\* A step of an upload whose file is sent.
LEMMA WaitingGoesOn ==
  ASSUME AdaptersInv, RemoteKeeps, UNCHANGED <<givenVars, kept, deliveries>>, Len(remote') = Len(remote),
         ObjectsFit', OnePostPerDelivery', KeptFit', UNCHANGED row, spent' \in 0 .. MaxFaults,
         delivery.at \in {"close", "wait"}, delivery' \in DeliveryRow,
         delivery'.at \in {"wait", "keep"}, remote'[delivery.obj].parts = remote[delivery.obj].parts,
         delivery'.at = "keep" => remote'[delivery.obj].state = "ready",
         delivery'.post = delivery.post, delivery'.ids = delivery.ids, delivery'.obj = delivery.obj,
         delivery'.again = delivery.again, delivery'.ext = delivery.ext
  PROVE  AdaptersInv'
<1>1. /\ UNCHANGED <<kind, attached>> /\ ~At("idle") /\ DOMAIN remote' = DOMAIN remote
      /\ \A n \in DOMAIN remote' \ DOMAIN remote : remote'[n].what # "post"
  BY DomainGrows DEF givenVars, At, AdaptersInv
<1>2. /\ Items' = Items /\ UsesPublicMediaURL' = UsesPublicMediaURL
      /\ ~UsesPublicMediaURL =>
           \A i \in DOMAIN delivery.ids : Usable(delivery.ids[i], delivery.post, i)'
      /\ Names(delivery.ext, delivery.post)'
  BY <1>1, CarriesOn
<1>3. NoneYet' /\ NoneRenewed'
  BY <1>1, NoneStays DEF At
<1>4. ItemsFit' /\ RequestFits'
  BY <1>1, <1>2 DEF AdaptersInv, DeliveryFits, ItemsFit, RequestFits, At, ItemSteps, UploadSteps,
     RequestSteps
<1>5. UploadFits'
  <2>1. /\ delivery.obj = Len(remote) /\ Upload(delivery.obj, delivery.post, Len(delivery.ids) + 1)
        /\ Covers(remote[delivery.obj].parts, FileSize)
    BY DEF AdaptersInv, DeliveryFits, UploadFits, UploadSteps, InHand
  <2>2. Upload(delivery.obj, delivery.post, Len(delivery.ids) + 1)'
    BY <1>1, <2>1 DEF Upload, RemoteKeeps
  <2>3. InHand' = remote'[delivery.obj]
    BY DEF InHand
  <2> QED
    BY <2>1, <2>2, <2>3 DEF UploadFits, At, UploadSteps
<1> QED
  BY <1>1, <1>3, <1>4, <1>5, GoesOn DEF DeliveryFits

LEMMA CloseUploadKeeps == ASSUME AdaptersInv, CloseUpload PROVE AdaptersInv'
<1>1. CASE Refused
  BY <1>1, RefusedKeeps
<1>2. ASSUME NEW st \in MediaStates, st \in {"ready", "processing"},
             Carried([remote EXCEPT ![delivery.obj].state = st], Go(AfterClose(st)))
      PROVE  AdaptersInv'
  <2>1. At("close") /\ UNCHANGED <<givenVars, kept, deliveries>>
    BY <1>2 DEF CloseUpload, Carried
  <2>2. PICK m \in DOMAIN remote : m = delivery.obj
    BY <2>1 DEF AdaptersInv, DeliveryFits, UploadFits, UploadSteps, Upload, At
  <2>3. remote[m].state = "open"
    BY <2>1, <2>2 DEF AdaptersInv, DeliveryFits, UploadFits, InHand
  <2>4. PICK o \in RemoteObject :
          /\ o = WithState(remote[m], st)
          /\ Becomes(o, remote[m]) /\ o.parts = remote[m].parts /\ o.state = st
    BY InHandFacts, ObjectIn
  <2>8. remote' = [remote EXCEPT ![m] = o]
    BY <1>2, <2>2, <2>4 DEF Carried, WithState
  <2>5. /\ RemoteKeeps /\ ObjectsFit' /\ OnePostPerDelivery' /\ KeptFit'
        /\ Len(remote') = Len(remote)
        /\ remote'[m].parts = remote[m].parts /\ remote'[m].state = st
    BY <2>1, <2>3, <2>4, <2>8, ChangesOnly
  <2>6. CASE Spend /\ Abandon("platform")
    BY <2>1, <2>5, <2>6, SpendFacts, Abandons
  <2>7. CASE Go(AfterClose(st)) /\ UNCHANGED <<row, spent>>
    <3>1. AfterClose(st) \in {"wait", "keep"} /\ (AfterClose(st) = "keep" => st = "ready")
      BY DEF AfterClose
    <3>2. /\ delivery' \in DeliveryRow /\ delivery'.at = AfterClose(st) /\ delivery'.post = delivery.post
          /\ delivery'.ids = delivery.ids /\ delivery'.obj = delivery.obj
          /\ delivery'.again = delivery.again /\ delivery'.ext = delivery.ext
      BY <2>7, <3>1, GoFacts DEF ItemSteps, UploadSteps
    <3> QED
      BY <2>1, <2>2, <2>4, <2>5, <2>7, <3>1, <3>2, WaitingGoesOn, InHandFacts DEF At
  <2> QED
    BY <1>2, <2>6, <2>7 DEF Carried
<1> QED
  BY <1>1, <1>2 DEF CloseUpload, MediaStates

LEMMA ProcessedKeeps ==
  ASSUME AdaptersInv, NEW m \in DOMAIN remote, NEW st \in MediaStates, st \in {"ready", "failed"}, Processed(m, st)
  PROVE  AdaptersInv'
<1>1. /\ UNCHANGED <<givenVars, kept, deliveries>> /\ UNCHANGED <<kind, attached, row, delivery, spent>>
      /\ remote[m].state = "processing"
  BY DEF Processed, givenVars
<1>2. PICK o \in RemoteObject :
        /\ o = WithState(remote[m], st)
        /\ Becomes(o, remote[m]) /\ o.parts = remote[m].parts /\ o.state = st
  BY InHandFacts, ObjectIn
<1>3. remote' = [remote EXCEPT ![m] = o]
  BY <1>2 DEF Processed, WithState
<1>4. /\ RemoteKeeps /\ ObjectsFit' /\ OnePostPerDelivery' /\ KeptFit'
      /\ Len(remote') = Len(remote) /\ DOMAIN remote' = DOMAIN remote
      /\ remote'[m] = o /\ \A n \in DOMAIN remote \ {m} : remote'[n] = remote[n]
  BY <1>1, <1>2, <1>3, ChangesOnly
<1>5. ItemsFit'
  <2>1. CASE At("idle")
    BY <1>1, <2>1 DEF ItemsFit, At, ItemSteps, UploadSteps, RequestSteps
  <2>2. CASE ~At("idle")
    <3>1. /\ Items' = Items /\ UsesPublicMediaURL' = UsesPublicMediaURL
          /\ ~UsesPublicMediaURL =>
               \A i \in DOMAIN delivery.ids : Usable(delivery.ids[i], delivery.post, i)'
      BY <1>1, <1>4, <2>2, CarriesOn
    <3> QED
      BY <1>1, <3>1 DEF AdaptersInv, DeliveryFits, ItemsFit, At
  <2> QED
    BY <2>1, <2>2
<1>6. \A n \in DOMAIN remote : /\ remote'[n].parts = remote[n].parts
                               /\ remote'[n].state # remote[n].state => n = m
  BY <1>2, <1>4
<1>7. UploadFits'
  <2>1. delivery.at \in UploadSteps =>
          /\ delivery.obj \in DOMAIN remote
          /\ Upload(delivery.obj, delivery.post, Len(delivery.ids) + 1)'
    BY <1>1, <1>4 DEF AdaptersInv, DeliveryFits, UploadFits, Upload, RemoteKeeps
  <2>2. delivery.at \in UploadSteps => InHand.parts = InHand'.parts
    BY <1>1, <1>6, <2>1 DEF InHand
  <2>3. delivery.at \in {"part", "close", "keep"} => InHand'.state = InHand.state
    BY <1>1, <1>6, <2>1 DEF InHand, AdaptersInv, DeliveryFits, UploadFits, At, UploadSteps
  <2>4. Finalizes(Item)' <=> Finalizes(Item)
    BY <1>1 DEF Finalizes, XUploads, Item, Items
  <2> QED
    BY <1>1, <1>4, <2>1, <2>2, <2>3, <2>4 DEF AdaptersInv, DeliveryFits, UploadFits, At, UploadSteps
<1>8. RequestFits'
  <2>1. PICK p \in ThreadPosts : p = delivery.post
    BY InHandFacts
  <2>2. Made(p) # {} => Made(p)' # {}
    BY <1>1, <1>4, MadeStays DEF AdaptersInv
  <2>3. PICK e \in ExternalId : e = delivery.ext
    BY InHandFacts
  <2>4. Names(e, p)'
    BY <1>1, <1>4, <2>1, <2>3, NamesStays DEF AdaptersInv, DeliveryFits, RequestFits
  <2>5. At("poll") \/ (At("publish") /\ kind \in {"threads", "instagram"}) =>
          /\ delivery.obj \in DOMAIN remote' /\ InHand'.post = delivery.post
          /\ InHand'.what = InHand.what
          /\ \/ InHand'.state = InHand.state
             \/ (At("poll") \/ kind = "instagram") /\ InHand'.state = st
    BY <1>1, <1>2, <1>4, <1>6 DEF AdaptersInv, DeliveryFits, RequestFits, RemoteKeeps, InHand, At
  <2>6. st \in MediaStates \ {"open"}
    BY DEF MediaStates
  <2> QED
    BY <1>1, <2>1, <2>2, <2>3, <2>4, <2>5, <2>6 DEF AdaptersInv, DeliveryFits, RequestFits, At
<1>9. NoneYet' /\ NoneRenewed'
  BY <1>1, <1>4 DEF AdaptersInv, DeliveryFits, NoneYet, NoneRenewed, Own, RemoteKeeps, At
<1> QED
  BY <1>1, <1>4, <1>5, <1>7, <1>8, <1>9, GoesOn DEF DeliveryFits, AdaptersInv, AdaptersTypeOK

LEMMA PolledFacts ==
  ASSUME AdaptersInv, ~LastPoll, delivery' = Polled
  PROVE  /\ delivery' \in DeliveryRow /\ delivery'.at = delivery.at /\ delivery'.post = delivery.post
         /\ delivery'.ids = delivery.ids /\ delivery'.obj = delivery.obj
         /\ delivery'.sent = delivery.sent /\ delivery'.again = delivery.again
         /\ delivery'.ext = delivery.ext
<1>1. delivery \in DeliveryRow
  BY DEF AdaptersInv, AdaptersTypeOK
<1>2. delivery.polls \in 0 .. Polls - 1 /\ delivery.polls + 1 < Polls /\ Polls \in Nat
  BY <1>1, PlatformPostsAssumption DEF DeliveryRow, LastPoll
<1>3. delivery.polls + 1 \in 0 .. Polls - 1
  BY <1>2
<1> QED
  BY <1>1, <1>3 DEF Polled, DeliveryRow

LEMMA AsksKeeps ==
  ASSUME AdaptersInv, At("wait"), UNCHANGED <<givenVars, kept, deliveries, remote, spent>>,
         \/ InHand.state = "ready" /\ Go("keep") /\ UNCHANGED row
         \/ Abandon("platform")
         \/ UNCHANGED <<delivery, row>>
         \/ ~LastPoll /\ delivery' = Polled /\ UNCHANGED row
  PROVE  AdaptersInv'
<1>1. /\ RemoteKeeps /\ ObjectsFit' /\ OnePostPerDelivery' /\ KeptFit' /\ spent' \in 0 .. MaxFaults
      /\ UNCHANGED <<givenVars, kept, deliveries>> /\ remote' = remote
  BY ObjectsSame, InHandFacts DEF givenVars
<1>2. CASE Abandon("platform")
  BY <1>1, <1>2, Abandons
<1>3. CASE InHand.state = "ready" /\ Go("keep") /\ UNCHANGED row
  <2>1. /\ delivery' \in DeliveryRow /\ delivery'.at = "keep" /\ delivery'.post = delivery.post
        /\ delivery'.ids = delivery.ids /\ delivery'.obj = delivery.obj
        /\ delivery'.again = delivery.again /\ delivery'.ext = delivery.ext
    BY <1>3, GoFacts DEF ItemSteps, UploadSteps
  <2> QED
    BY <1>1, <1>3, <2>1, WaitingGoesOn DEF At, InHand
<1>4. CASE UNCHANGED <<delivery, row>>
  BY <1>1, <1>4, WaitingGoesOn DEF At, AdaptersInv, AdaptersTypeOK
<1>5. CASE ~LastPoll /\ delivery' = Polled /\ UNCHANGED row
  BY <1>1, <1>5, PolledFacts, WaitingGoesOn DEF At
<1> QED
  BY <1>2, <1>3, <1>4, <1>5

LEMMA PollsKeep ==
  ASSUME AdaptersInv,
         XPollsMedia \/ MastodonPollsMedia \/ BlueskyPollsJob \/ LinkedInPollsVideo \/ PollFails
  PROVE  AdaptersInv'
<1>1. CASE XPollsMedia
  BY <1>1, AsksKeeps DEF XPollsMedia, Asks, Answered
<1>2. CASE MastodonPollsMedia
  BY <1>2, AsksKeeps DEF MastodonPollsMedia, Asks, PollOrGiveUp
<1>3. CASE BlueskyPollsJob \/ LinkedInPollsVideo
  BY <1>3, AsksKeeps DEF BlueskyPollsJob, LinkedInPollsVideo, Asks, Answered, PollOrGiveUp
<1>4. CASE PollFails
  BY <1>4, RefusedKeeps DEF PollFails
<1> QED
  BY <1>1, <1>2, <1>3, <1>4

LEMMA KeepMediaKeeps == ASSUME AdaptersInv, KeepMedia PROVE AdaptersInv'
<1>1. /\ At("keep") /\ UNCHANGED <<kind, https, attached, row, deliveries, remote>>
      /\ delivery' = NextItem(delivery.obj)
  BY DEF KeepMedia, givenVars
<1>2. /\ delivery.post \in ThreadPosts /\ Len(delivery.ids) < Len(Items)
      /\ delivery.obj = Len(remote) /\ Usable(delivery.obj, delivery.post, Len(delivery.ids) + 1)
  BY <1>1, InHandFacts DEF AdaptersInv, DeliveryFits, ItemsFit, UploadFits, ItemSteps, UploadSteps, At,
     Usable, InHand
<1>3. PICK p \in ThreadPosts, i \in DOMAIN attached[delivery.post], n \in Nat :
        p = delivery.post /\ i = Len(delivery.ids) + 1 /\ n = delivery.obj
  <2>1. Len(delivery.ids) + 1 \in DOMAIN attached[delivery.post] /\ delivery.obj \in Nat
    BY <1>2, InHandFacts DEF Items
  <2> QED
    BY <1>2, <2>1
<1>4. delivery' \in DeliveryRow /\ DeliveryFits'
  BY <1>1, <1>2, <1>3, NextItemFits DEF At
<1>5. RemoteKeeps /\ DOMAIN remote = 1 .. Len(remote)
  BY <1>1, SameKeeps, InHandFacts DEF AdaptersInv
<1>6. RowsFit' /\ ObjectsFit' /\ OnePostPerDelivery' /\ (UNCHANGED kept => KeptFit')
  BY <1>1, <1>5, RowsStay, ObjectsStay, InHandFacts DEF AdaptersInv
<1>7. CASE UNCHANGED kept /\ Spend
  BY <1>1, <1>4, <1>6, <1>7, SpendFacts, GoesOn, <1>5 DEF givenVars
<1>8. CASE kept' = [kept EXCEPT ![delivery.post][Len(delivery.ids) + 1] = delivery.obj] /\ UNCHANGED spent
  <2>1. kept' = [kept EXCEPT ![p] = [kept[p] EXCEPT ![i] = n]]
    BY <1>3, <1>8
  <2>2. kept[p] \in [DOMAIN attached[p] -> Nat] /\ DOMAIN kept = ThreadPosts
    BY DEF AdaptersInv, AdaptersTypeOK
  <2>3. /\ DOMAIN kept' = ThreadPosts /\ kept'[p] = [kept[p] EXCEPT ![i] = n]
        /\ \A q \in ThreadPosts \ {p} : kept'[q] = kept[q]
    BY <2>1, <2>2
  <2>4. kept'[p] \in [DOMAIN attached[p] -> Nat] /\ kept'[p][i] = n
        /\ \A j \in DOMAIN attached[p] \ {i} : kept'[p][j] = kept[p][j]
    BY <1>3, <2>2, <2>3
  <2>5. \A q \in ThreadPosts : kept'[q] \in [DOMAIN attached'[q] -> Nat]
    BY <1>1, <2>3, <2>4 DEF AdaptersInv, AdaptersTypeOK
  <2>6. ASSUME NEW q \in ThreadPosts, NEW j \in DOMAIN attached[q] PROVE KeptFits(q, j)'
    <3>1. CASE q = p /\ j = i
      <4>1. Usable(n, p, i) /\ Usable(n, p, i)'
        BY <1>1, <1>2, <1>3 DEF Usable, Upload
      <4>2. \A k \in DOMAIN remote' : k <= n
        BY <1>1, <1>2, <1>3, <1>5
      <4> QED
        BY <2>4, <3>1, <4>1, <4>2 DEF KeptFits
    <3>2. CASE ~(q = p /\ j = i)
      <4>1. kept'[q][j] = kept[q][j] /\ KeptFits(q, j)
        BY <2>3, <2>4, <3>2 DEF AdaptersInv, KeptFit
      <4> QED
        BY <1>1, <4>1 DEF KeptFits, Usable, Upload
    <3> QED
      BY <3>1, <3>2
  <2>7. KeptFit'
    BY <1>1, <2>6 DEF KeptFit
  <2>8. AdaptersTypeOK'
    BY <1>1, <1>4, <1>8, <2>3, <2>5 DEF AdaptersInv, AdaptersTypeOK, ThreadPosts, DeliveryRow, DestinationRow
  <2> QED
    BY <1>4, <1>6, <2>7, <2>8 DEF AdaptersInv
<1> QED
  BY <1>7, <1>8 DEF KeepMedia

-----------------------------------------------------------------------------
(* Steps of Publish *)

\* A step that goes on with the request, with the same media for the same post.
LEMMA RequestGoesOn ==
  ASSUME AdaptersInv, RemoteKeeps, UNCHANGED <<givenVars, kept, deliveries>>,
         ObjectsFit', OnePostPerDelivery', KeptFit', UNCHANGED row, spent' \in 0 .. MaxFaults,
         delivery.at \in RequestSteps, delivery' \in DeliveryRow, delivery'.at \in RequestSteps,
         delivery'.post = delivery.post, delivery'.ids = delivery.ids,
         RequestFits', NoneYet', NoneRenewed'
  PROVE  AdaptersInv'
<1>1. UNCHANGED <<kind, attached>> /\ ~At("idle")
  BY DEF givenVars, At, RequestSteps
<1>2. /\ Items' = Items /\ UsesPublicMediaURL' = UsesPublicMediaURL
      /\ ~UsesPublicMediaURL =>
           \A i \in DOMAIN delivery.ids : Usable(delivery.ids[i], delivery.post, i)'
  BY <1>1, CarriesOn
<1>3. ItemsFit' /\ UploadFits'
  BY <1>1, <1>2 DEF AdaptersInv, DeliveryFits, ItemsFit, UploadFits, At, ItemSteps, UploadSteps,
     RequestSteps
<1> QED
  BY <1>3, GoesOn DEF DeliveryFits

LEMMA RefusalFacts ==
  ASSUME AdaptersInv, Refusal # "none"
  PROVE  Refusal \in {"media", "url", "reply"} /\ (Refusal = "media" => MediaErrors(Items))
<1>1. CASE kind = "threads"
  BY <1>1 DEF Refusal, ThreadsRefuses, OnlyHttps
<1>2. CASE kind = "facebook"
  BY <1>2 DEF Refusal, FacebookRefuses, OnlyHttps, MediaErrors, FacebookMediaErrors
<1>3. CASE kind = "instagram"
  BY <1>3 DEF Refusal, InstagramRefuses, OnlyHttps, MediaErrors, InstagramMediaErrors
<1>4. CASE kind = "tiktok"
  BY <1>4 DEF Refusal, TikTokRefuses, OnlyHttps, MediaErrors, TikTokMediaErrors
<1>5. CASE kind = "youtube"
  BY <1>5 DEF Refusal, YouTubeRefuses, MediaErrors, YouTubeMediaErrors
<1>6. CASE kind \notin {"threads", "facebook", "instagram", "tiktok", "youtube"}
  BY <1>6 DEF Refusal
<1> QED
  BY <1>1, <1>2, <1>3, <1>4, <1>5, <1>6

\* A video that YouTube is sent is the post.
LEMMA VideoIsPost ==
  ASSUME AdaptersInv, At("check"), kind = "youtube", Refusal = "none"
  PROVE  Made(delivery.post) # {} /\ delivery.ids[1] \in DOMAIN remote
         /\ delivery.ids[1] \in Nat /\ delivery.ids[1] # 0
<1>1. Len(Items) = 1 /\ Len(delivery.ids) = Len(Items) /\ ~UsesPublicMediaURL
  BY DEF Refusal, YouTubeRefuses, AdaptersInv, DeliveryFits, ItemsFit, At, RequestSteps, UsesPublicMediaURL
<1>2. 1 \in DOMAIN delivery.ids
  BY <1>1, InHandFacts
<1>3. Usable(delivery.ids[1], delivery.post, 1)
  BY <1>1, <1>2 DEF AdaptersInv, DeliveryFits, ItemsFit, At
<1> QED
  BY <1>3, InHandFacts DEF Usable, Upload, Made

LEMMA CheckRequestKeeps == ASSUME AdaptersInv, CheckRequest PROVE AdaptersInv'
<1>1. /\ At("check") /\ UNCHANGED <<givenVars, kept, deliveries>>
      /\ UNCHANGED <<kind, attached, remote, spent, deliveries>>
      /\ RemoteKeeps /\ ObjectsFit' /\ OnePostPerDelivery' /\ KeptFit' /\ spent' \in 0 .. MaxFaults
  BY ObjectsSame, InHandFacts DEF CheckRequest, givenVars
<1>2. CASE Refusal # "none"
  <2>1. PICK why \in {"platform", "media", "url", "reply"} : why = Refusal
    BY <1>2, RefusalFacts
  <2>2. Abandon(why) /\ (why = "media" => MediaErrors(Items))
    BY <1>2, <2>1, RefusalFacts DEF CheckRequest
  <2> QED
    BY <1>1, <2>2, Abandons
<1>3. CASE Refusal = "none"
  <2>1. PICK step \in RequestSteps \ {"check", "poll"} :
           /\ step = FirstRequest
           /\ step = "save" <=> kind = "youtube"
           /\ step = "create" => kind \in {"threads", "instagram", "tiktok"}
           /\ step = "alt" => kind \in {"x", "mastodon"}
           /\ step = "publish" => kind \notin {"threads", "instagram", "tiktok", "youtube"}
    BY DEF FirstRequest, RequestSteps
  <2>2. PICK e \in ExternalId :
           /\ e = IF kind = "youtube" THEN [id |-> delivery.ids[1], root |-> 0] ELSE NoId
           /\ e.id = (IF kind = "youtube" THEN delivery.ids[1] ELSE 0) /\ e.root = 0
    <3> DEFINE e == IF kind = "youtube" THEN [id |-> delivery.ids[1], root |-> 0] ELSE NoId
    <3>1. e.id = (IF kind = "youtube" THEN delivery.ids[1] ELSE 0) /\ e.root = 0
      BY DEF NoId
    <3>2. e \in ExternalId
      BY <1>1, <1>3, VideoIsPost DEF ExternalId, NoId
    <3> QED
      BY <3>1, <3>2
  <2>3. /\ delivery' = [delivery EXCEPT !.at = step, !.polls = 0, !.tries = 0, !.obj = 0, !.ext = e]
        /\ UNCHANGED row
    BY <1>3, <2>1, <2>2 DEF CheckRequest
  <2>4. /\ delivery' \in DeliveryRow /\ delivery'.at = step /\ delivery'.post = delivery.post
        /\ delivery'.ids = delivery.ids /\ delivery'.again = delivery.again /\ delivery'.ext = e
    <3>1. delivery \in DeliveryRow /\ 0 \in 0 .. Polls - 1 /\ 0 \in 0 .. PublishTries - 1
      BY PlatformPostsAssumption DEF AdaptersInv, AdaptersTypeOK
    <3>2. delivery' = [at |-> step, post |-> delivery.post, ids |-> delivery.ids, obj |-> 0,
                       sent |-> delivery.sent, polls |-> 0, tries |-> 0, again |-> delivery.again,
                       ext |-> e]
      BY <2>3, <3>1 DEF DeliveryRow
    <3>3. delivery' \in DeliveryRow
      BY <3>1, <3>2 DEF DeliveryRow
    <3> QED
      BY <3>2, <3>3
  <2>5. NoneYet' /\ NoneRenewed'
    BY <1>1, <2>4, NoneStays DEF At
  <2>6. RequestFits'
    <3>1. Names(delivery.ext, delivery.post)'
      BY <1>1, <1>3, <2>2, <2>4, VideoIsPost DEF Names
    <3>2. step = "save" => Made(delivery.post)' # {}
      BY <1>1, <1>3, <2>1, <2>4, VideoIsPost DEF Made
    <3> QED
      BY <1>1, <2>1, <2>4, <3>1, <3>2 DEF RequestFits, At
  <2> QED
    BY <1>1, <2>1, <2>3, <2>4, <2>5, <2>6, RequestGoesOn DEF At, RequestSteps
<1> QED
  BY <1>2, <1>3

LEMMA TokenExpiresKeeps == ASSUME AdaptersInv, TokenExpires PROVE AdaptersInv'
<1>1. /\ UNCHANGED <<givenVars, kept, deliveries>> /\ UNCHANGED <<kind, attached, remote, deliveries>>
      /\ RemoteKeeps /\ ObjectsFit' /\ OnePostPerDelivery' /\ KeptFit' /\ spent' \in 0 .. MaxFaults
      /\ delivery.at \in {"alt", "create", "poll", "publish"} /\ ~delivery.again
  BY ObjectsSame, SpendFacts DEF TokenExpires, givenVars
<1>2. CASE Abandon("platform")
  BY <1>1, <1>2, Abandons
<1>3. CASE delivery' = [delivery EXCEPT !.at = "check", !.again = TRUE] /\ UNCHANGED row
  <2>1. /\ delivery' \in DeliveryRow /\ delivery'.at = "check" /\ delivery'.post = delivery.post
        /\ delivery'.ids = delivery.ids /\ delivery'.again = TRUE /\ delivery'.ext = delivery.ext
    <3>1. delivery \in DeliveryRow
      BY DEF AdaptersInv, AdaptersTypeOK
    <3> QED
      BY <1>3, <3>1 DEF DeliveryRow, RequestSteps
  <2>2. NoneYet' /\ NoneRenewed'
    BY <1>1, <2>1 DEF AdaptersInv, DeliveryFits, NoneYet, NoneRenewed, Own, At
  <2>3. RequestFits'
    <3>1. Names(delivery.ext, delivery.post)'
      BY <1>1, <2>1, CarriesOn DEF At
    <3> QED
      BY <2>1, <3>1 DEF RequestFits, At
  <2> QED
    BY <1>1, <1>3, <2>1, <2>2, <2>3, RequestGoesOn DEF RequestSteps
<1> QED
  BY <1>2, <1>3 DEF TokenExpires

LEMMA SetAltTextsKeeps == ASSUME AdaptersInv, SetAltTexts PROVE AdaptersInv'
<1>1. CASE Refused
  BY <1>1, RefusedKeeps
<1>2. CASE At("alt") /\ Go("publish") /\ UNCHANGED <<givenVars, row, kept, deliveries, remote, spent>>
  <2>1. /\ UNCHANGED <<givenVars, kept, deliveries>> /\ UNCHANGED <<kind, attached, remote>>
        /\ RemoteKeeps /\ ObjectsFit' /\ OnePostPerDelivery' /\ KeptFit' /\ spent' \in 0 .. MaxFaults
    BY <1>2, ObjectsSame, InHandFacts DEF givenVars
  <2>2. /\ delivery' \in DeliveryRow /\ delivery'.at = "publish" /\ delivery'.post = delivery.post
        /\ delivery'.ids = delivery.ids /\ delivery'.again = delivery.again /\ delivery'.ext = delivery.ext
    BY <1>2, GoFacts DEF RequestSteps
  <2>3. NoneYet' /\ NoneRenewed'
    BY <1>2, <2>1, <2>2, NoneStays DEF At
  <2>4. RequestFits'
    <3>1. Names(delivery.ext, delivery.post)'
      BY <1>2, <2>1, <2>2, CarriesOn DEF At
    <3>2. kind \in {"x", "mastodon"}
      BY <1>2 DEF AdaptersInv, DeliveryFits, RequestFits
    <3> QED
      BY <2>1, <2>2, <3>1, <3>2 DEF RequestFits, At
  <2> QED
    BY <1>2, <2>1, <2>2, <2>3, <2>4, RequestGoesOn DEF RequestSteps, At
<1> QED
  BY <1>1, <1>2 DEF SetAltTexts

\* The platform begins something, and the delivery asks for it from then on.
LEMMA StartsKeeps ==
  ASSUME AdaptersInv, NEW platform \in {"threads", "instagram", "tiktok"},
         NEW what \in {"container", "post"}, (platform = "tiktok") <=> (what = "post"),
         Starts(platform, what)
  PROVE  AdaptersInv'
<1>1. PICK st \in MediaStates :
        /\ st # "open"
        /\ Carried(Append(remote, NewObject(what, 0, <<>>, st)),
                   delivery' = [delivery EXCEPT !.at = "poll", !.obj = Len(remote) + 1])
  BY DEF Starts, MediaStates
<1>2. /\ At("create") /\ kind = platform /\ UNCHANGED <<givenVars, kept, deliveries>>
      /\ UNCHANGED <<kind, attached>>
  BY <1>1 DEF Starts, Carried, givenVars
<1>3. PICK k \in Nat : k = Len(remote) + 1
  BY InHandFacts
<1>4. PICK none \in Seq(SUBSET Nat) : none = <<>>
  BY CoversNone
<1>5. PICK o \in RemoteObject :
        /\ o = NewObject(what, 0, none, st)
        /\ o.what = what /\ o.post = delivery.post /\ o.item = 0
        /\ o.parts = none /\ o.state = st /\ o.uses = <<>> /\ o.parent = 0 /\ o.root = 0
        /\ o.delivery = deliveries /\ o.again = delivery.again
  BY NewObjectFacts
<1>6. remote' = Append(remote, o)
  BY <1>1, <1>4, <1>5 DEF Carried
<1>7. /\ Len(remote') = k /\ DOMAIN remote' = DOMAIN remote \cup {k} /\ remote'[k] = o
      /\ \A n \in DOMAIN remote : remote'[n] = remote[n]
  BY <1>3, <1>6, AppendKeeps DEF AdaptersInv
<1>8. ObjectFits(k)'
  BY <1>2, <1>5, <1>7, InHandFacts DEF ObjectFits, HasRoot, ShowsMedia
<1>9. what = "post" => \A n \in DOMAIN remote : Own(n) => kind = "tiktok" /\ remote[n].again # o.again
  BY <1>2, <1>5 DEF AdaptersInv, DeliveryFits, NoneYet, At
<1>10. RemoteKeeps /\ ObjectsFit' /\ OnePostPerDelivery' /\ KeptFit'
  BY <1>2, <1>3, <1>5, <1>6, <1>8, <1>9, ObjectsGrow DEF AdaptersInv
<1>11. CASE Spend /\ Abandon("platform")
  BY <1>2, <1>10, <1>11, SpendFacts, Abandons
<1>12. CASE delivery' = [delivery EXCEPT !.at = "poll", !.obj = Len(remote) + 1] /\ UNCHANGED <<row, spent>>
  <2>1. /\ delivery' \in DeliveryRow /\ delivery'.at = "poll" /\ delivery'.post = delivery.post
        /\ delivery'.ids = delivery.ids /\ delivery'.obj = k
        /\ delivery'.again = delivery.again /\ delivery'.ext = delivery.ext
    BY <1>3, <1>12, TakesFacts DEF RequestSteps
  <2>2. NoneYet'
    <3>1. CASE kind = "tiktok"
      BY <1>2, <2>1, <3>1 DEF NoneYet, At
    <3>2. CASE kind # "tiktok"
      BY <1>2, <1>5, <1>7, <1>10, <2>1, <3>2, NoneStays DEF At
    <3> QED
      BY <3>1, <3>2
  <2>3. NoneRenewed'
    BY <1>2, <1>5, <1>7, <2>1 DEF AdaptersInv, DeliveryFits, NoneRenewed, Own, At
  <2>4. RequestFits'
    <3>1. Names(delivery.ext, delivery.post)'
      BY <1>2, <1>10, <2>1, CarriesOn DEF At
    <3>2. InHand' = o /\ delivery'.obj \in DOMAIN remote'
      BY <1>7, <2>1 DEF InHand
    <3>3. o.what = IF kind = "tiktok" THEN "post" ELSE "container"
      BY <1>2, <1>5
    <3> QED
      BY <1>1, <1>2, <1>5, <2>1, <3>1, <3>2, <3>3 DEF RequestFits, At
  <2> QED
    BY <1>2, <1>10, <1>12, <2>1, <2>2, <2>3, <2>4, RequestGoesOn, InHandFacts DEF At, RequestSteps
<1> QED
  BY <1>1, <1>11, <1>12 DEF Carried

\* While it asks for what it began, nothing new is made.
LEMMA RequestPolls ==
  ASSUME AdaptersInv, At("poll"), UNCHANGED <<givenVars, kept, deliveries, remote>>,
         spent' \in 0 .. MaxFaults,
         \/ /\ kind \in {"threads", "instagram"} /\ (InHand.state = "ready" \/ kind = "instagram")
            /\ Go("publish") /\ UNCHANGED row
         \/ /\ kind = "tiktok" /\ UNCHANGED row
            /\ delivery' = [delivery EXCEPT !.at = "save", !.ext = [id |-> delivery.obj, root |-> 0]]
         \/ Abandon("platform")
         \/ ~LastPoll /\ delivery' = Polled /\ UNCHANGED row
  PROVE  AdaptersInv'
<1>1. /\ UNCHANGED <<kind, attached, remote, kept, deliveries>> /\ UNCHANGED <<givenVars, kept, deliveries>>
      /\ RemoteKeeps /\ ObjectsFit' /\ OnePostPerDelivery' /\ KeptFit'
  BY ObjectsSame DEF givenVars
<1>2. /\ delivery.obj \in DOMAIN remote /\ InHand.post = delivery.post
      /\ InHand.what = IF kind = "tiktok" THEN "post" ELSE "container"
      /\ InHand.state \in MediaStates \ {"open"}
  BY DEF AdaptersInv, DeliveryFits, RequestFits
<1>3. CASE Abandon("platform")
  BY <1>1, <1>3, Abandons
<1>4. CASE /\ kind \in {"threads", "instagram"} /\ (InHand.state = "ready" \/ kind = "instagram")
           /\ Go("publish") /\ UNCHANGED row
  <2>1. /\ delivery' \in DeliveryRow /\ delivery'.at = "publish" /\ delivery'.post = delivery.post
        /\ delivery'.ids = delivery.ids /\ delivery'.obj = delivery.obj
        /\ delivery'.again = delivery.again /\ delivery'.ext = delivery.ext
    BY <1>4, GoFacts DEF RequestSteps
  <2>2. NoneYet' /\ NoneRenewed'
    BY <1>1, <1>4, <2>1, NoneStays DEF At
  <2>3. RequestFits'
    <3>1. Names(delivery.ext, delivery.post)'
      BY <1>1, <2>1, CarriesOn DEF At
    <3> QED
      BY <1>1, <1>2, <1>4, <2>1, <3>1 DEF RequestFits, At, InHand
  <2> QED
    BY <1>1, <1>4, <2>1, <2>2, <2>3, RequestGoesOn DEF At, RequestSteps
<1>5. CASE ~LastPoll /\ delivery' = Polled /\ UNCHANGED row
  <2>1. /\ delivery' \in DeliveryRow /\ delivery'.at = "poll" /\ delivery'.post = delivery.post
        /\ delivery'.ids = delivery.ids /\ delivery'.obj = delivery.obj
        /\ delivery'.again = delivery.again /\ delivery'.ext = delivery.ext
    BY <1>5, PolledFacts DEF At
  <2>2. NoneYet' /\ NoneRenewed'
    BY <1>1, <2>1 DEF AdaptersInv, DeliveryFits, NoneYet, NoneRenewed, Own, At
  <2>3. RequestFits'
    <3>1. Names(delivery.ext, delivery.post)'
      BY <1>1, <2>1, CarriesOn DEF At
    <3> QED
      BY <1>1, <1>2, <2>1, <3>1 DEF RequestFits, At, InHand, AdaptersInv, DeliveryFits
  <2> QED
    BY <1>1, <1>5, <2>1, <2>2, <2>3, RequestGoesOn DEF At, RequestSteps
<1>6. CASE /\ kind = "tiktok" /\ UNCHANGED row
           /\ delivery' = [delivery EXCEPT !.at = "save", !.ext = [id |-> delivery.obj, root |-> 0]]
  <2>1. PICK e \in ExternalId : e = [id |-> delivery.obj, root |-> 0] /\ e.id = delivery.obj /\ e.root = 0
    <3> DEFINE e == [id |-> delivery.obj, root |-> 0]
    <3>1. e \in ExternalId /\ e.id = delivery.obj /\ e.root = 0
      BY <1>2, InHandFacts DEF ExternalId
    <3> QED
      BY <3>1
  <2>2. /\ delivery' \in DeliveryRow /\ delivery'.at = "save" /\ delivery'.post = delivery.post
        /\ delivery'.ids = delivery.ids /\ delivery'.again = delivery.again /\ delivery'.ext = e
    <3>1. delivery \in DeliveryRow /\ delivery' = [delivery EXCEPT !.at = "save", !.ext = e]
      BY <1>6, <2>1 DEF AdaptersInv, AdaptersTypeOK
    <3> QED
      BY <3>1 DEF DeliveryRow, RequestSteps
  <2>3. NoneYet' /\ NoneRenewed'
    BY <1>1, <2>2 DEF AdaptersInv, DeliveryFits, NoneYet, NoneRenewed, Own, At
  <2>4. RequestFits'
    <3>1. Names(delivery.ext, delivery.post)'
      BY <1>1, <1>2, <1>6, <2>1, <2>2, InHandFacts DEF Names
    <3>2. Made(delivery.post)' # {}
      BY <1>1, <1>2, <1>6, <2>2 DEF Made, InHand
    <3> QED
      BY <2>2, <3>1, <3>2 DEF RequestFits, At
  <2> QED
    BY <1>1, <1>6, <2>2, <2>3, <2>4, RequestGoesOn DEF At, RequestSteps
<1> QED
  BY <1>3, <1>4, <1>5, <1>6

LEMMA RequestPollsKeep ==
  ASSUME AdaptersInv, ThreadsPolls \/ InstagramPolls \/ TikTokPolls PROVE AdaptersInv'
<1>1. spent \in 0 .. MaxFaults /\ (Spend => spent' \in 0 .. MaxFaults)
  BY InHandFacts, SpendFacts
<1>2. CASE ThreadsPolls
  BY <1>1, <1>2, RequestPolls DEF ThreadsPolls, Checks, PollOrGiveUp
<1>3. CASE InstagramPolls
  BY <1>1, <1>3, RequestPolls DEF InstagramPolls, Checks, PollOrGiveUp
<1>4. CASE TikTokPolls
  <2>1. At("poll") /\ kind = "tiktok" /\ UNCHANGED <<givenVars, kept, deliveries, remote>>
    BY <1>4 DEF TikTokPolls, Checks
  <2>2. InHand.state \in {"processing", "ready", "failed"}
    BY <2>1 DEF AdaptersInv, DeliveryFits, RequestFits, MediaStates
  <2> QED
    BY <1>1, <1>4, <2>1, <2>2, RequestPolls DEF TikTokPolls
<1> QED
  BY <1>2, <1>3, <1>4

\* Media that the post of this delivery may show.
MayShow(uses) ==
  /\ uses \in Seq(Nat)
  /\ \A i \in DOMAIN uses :
       /\ uses[i] \in DOMAIN remote
       /\ \/ remote[uses[i]].state = "ready"
          \/ kind = "instagram" /\ remote[uses[i]].what = "container"
       /\ remote[uses[i]].post = delivery.post
       /\ remote[uses[i]].what = "media" =>
            remote[uses[i]].item = i /\ Covers(remote[uses[i]].parts, FileSize)

LEMMA ItemsMayShow ==
  ASSUME AdaptersInv, At("publish"), ~UsesPublicMediaURL
  PROVE  /\ MayShow(delivery.ids) /\ MayShow(<<>>)
         /\ delivery.ids # <<>> => MayShow(<<delivery.ids[1]>>)
<1>1. /\ delivery.ids \in Seq(Nat)
      /\ \A i \in DOMAIN delivery.ids : Usable(delivery.ids[i], delivery.post, i)
  BY InHandFacts DEF AdaptersInv, DeliveryFits, ItemsFit, At
<1>2. MayShow(delivery.ids)
  BY <1>1 DEF MayShow, Usable, Upload
<1>3. MayShow(<<>>)
  BY DEF MayShow
<1>4. ASSUME delivery.ids # <<>> PROVE MayShow(<<delivery.ids[1]>>)
  <2>1. PICK n \in Nat : n = delivery.ids[1] /\ Usable(n, delivery.post, 1)
    <3>1. 1 \in DOMAIN delivery.ids
      BY <1>1, <1>4
    <3> QED
      BY <1>1, <3>1
  <2>2. <<n>> \in Seq(Nat) /\ DOMAIN <<n>> = {1} /\ <<n>>[1] = n
    OBVIOUS
  <2> QED
    BY <2>1, <2>2 DEF MayShow, Usable, Upload
<1> QED
  BY <1>2, <1>3, <1>4

LEMMA ContainerMayShow ==
  ASSUME AdaptersInv, At("publish"), kind \in {"threads", "instagram"} PROVE MayShow(<<delivery.obj>>)
<1>1. /\ delivery.obj \in DOMAIN remote /\ remote[delivery.obj].post = delivery.post
      /\ remote[delivery.obj].what = "container"
      /\ remote[delivery.obj].state = "ready" \/ kind = "instagram"
  BY DEF AdaptersInv, DeliveryFits, RequestFits, InHand, At
<1>2. PICK n \in Nat : n = delivery.obj
  BY <1>1, InHandFacts
<1>3. <<n>> \in Seq(Nat) /\ DOMAIN <<n>> = {1} /\ <<n>>[1] = n
  OBVIOUS
<1> QED
  BY <1>1, <1>2, <1>3 DEF MayShow

LEMMA APostFacts ==
  ASSUME AdaptersInv, NEW media \in Seq(Nat), NEW parent \in Nat, NEW root \in Nat
  PROVE  /\ APost(media, parent, root) \in RemoteObject
         /\ APost(media, parent, root).what = "post"
         /\ APost(media, parent, root).post = delivery.post
         /\ APost(media, parent, root).uses = media
         /\ APost(media, parent, root).parent = parent /\ APost(media, parent, root).root = root
         /\ APost(media, parent, root).delivery = deliveries
         /\ APost(media, parent, root).again = delivery.again
<1>1. PICK none \in Seq(SUBSET Nat) : none = <<>>
  BY CoversNone
<1> DEFINE new == NewObject("post", 0, none, "ready")
<1>n. /\ new \in RemoteObject /\ new.what = "post" /\ new.post = delivery.post
      /\ new.delivery = deliveries /\ new.again = delivery.again
  BY NewObjectFacts DEF MediaStates
<1>2. PICK o \in RemoteObject :
        /\ o = new /\ o.what = "post" /\ o.post = delivery.post
        /\ o.delivery = deliveries /\ o.again = delivery.again
  <2> HIDE DEF new
  <2> QED
    BY <1>n
<1>3. APost(media, parent, root) = [o EXCEPT !.uses = media, !.parent = parent, !.root = root]
  BY <1>1, <1>2 DEF APost
<1> QED
  BY <1>2, <1>3 DEF RemoteObject

\* What the row of the post before says of the post to reply to.
LEMMA ReplyToFacts ==
  ASSUME AdaptersInv
  PROVE  /\ ReplyTo \in ExternalId /\ {ReplyTo.id, ReplyTo.root} \subseteq {0} \cup DOMAIN remote
         /\ ReplyTo.id = 0 <=> ReplyTo = NoId
         /\ kind = "bluesky" /\ ReplyTo.id # 0 =>
              /\ remote[ReplyTo.id].post = delivery.post - 1
              /\ ReplyTo.root = remote[ReplyTo.id].root
<1>1. CASE delivery.post = 1
  BY <1>1 DEF ReplyTo, NoId, ExternalId
<1>2. CASE delivery.post # 1
  <2>1. delivery.post - 1 \in ThreadPosts
    BY <1>2, InHandFacts, PlatformPostsAssumption DEF ThreadPosts
  <2>2. ReplyTo = row[delivery.post - 1].ext /\ ReplyTo \in ExternalId
    BY <1>2, <2>1 DEF ReplyTo, AdaptersInv, AdaptersTypeOK, DestinationRow
  <2>3. Names(ReplyTo, delivery.post - 1)
    BY <2>1, <2>2 DEF AdaptersInv, RowsFit, RowFits
  <2>4. ReplyTo.id = 0 <=> ReplyTo = NoId
    BY <2>2, <2>3 DEF Names, ExternalId, NoId
  <2> QED
    BY <2>2, <2>3, <2>4 DEF Names
<1> QED
  BY <1>1, <1>2

ReplyFits(o) ==
  kind = "bluesky" =>
    /\ o.parent = 0 <=> o.root = 0
    /\ o.parent # 0 =>
         /\ o.parent \in DOMAIN remote /\ remote[o.parent].post = delivery.post - 1
         /\ o.root = IF remote[o.parent].parent = 0 THEN o.parent ELSE remote[o.parent].root

LEMMA BlueskyFacts ==
  ASSUME AdaptersInv, At("publish"), kind = "bluesky"
  PROVE  \E o \in RemoteObject :
           /\ o = BlueskyRecord /\ o.what = "post" /\ o.post = delivery.post
           /\ o.delivery = deliveries /\ o.again = delivery.again
           /\ MayShow(o.uses) /\ ReplyFits(o) /\ o.root \in {0} \cup DOMAIN remote
<1>1. PICK root \in Nat : root = IF ReplyTo = NoId THEN 0 ELSE RootOf(ReplyTo)
  BY ReplyToFacts DEF RootOf, ExternalId
<1>2. PICK parent \in Nat : parent = ReplyTo.id
  BY ReplyToFacts DEF ExternalId
<1>3. PICK media \in Seq(Nat) : media = BlueskyEmbed /\ MayShow(media)
  <2>1. ~UsesPublicMediaURL /\ Len(delivery.ids) = Len(Items)
    BY DEF UsesPublicMediaURL, AdaptersInv, DeliveryFits, ItemsFit, RequestSteps, At
  <2>2. Items # <<>> => delivery.ids # <<>>
    BY <2>1, InHandFacts
  <2>3. MayShow(BlueskyEmbed)
    BY <2>1, <2>2, ItemsMayShow DEF BlueskyEmbed
  <2> QED
    BY <2>3 DEF MayShow
<1>4. PICK o \in RemoteObject :
        /\ o = APost(media, parent, root) /\ o.what = "post" /\ o.post = delivery.post
        /\ o.uses = media /\ o.parent = parent /\ o.root = root
        /\ o.delivery = deliveries /\ o.again = delivery.again
  BY APostFacts
<1>5. o = BlueskyRecord
  BY <1>1, <1>2, <1>3, <1>4 DEF BlueskyRecord
<1>6. ReplyFits(o) /\ root \in {0} \cup DOMAIN remote
  <2>1. CASE ReplyTo = NoId
    BY <1>1, <1>2, <1>4, <2>1 DEF ReplyFits, NoId
  <2>2. CASE ReplyTo # NoId
    <3>1. /\ parent # 0 /\ parent \in DOMAIN remote
          /\ remote[parent].post = delivery.post - 1 /\ ReplyTo.root = remote[parent].root
          /\ ReplyTo.root \in {0} \cup DOMAIN remote
      BY <1>2, <2>2, ReplyToFacts
    <3>2. root = IF remote[parent].root # 0 THEN remote[parent].root ELSE parent
      BY <1>1, <1>2, <2>2, <3>1 DEF RootOf
    <3>3. remote[parent].parent = 0 <=> remote[parent].root = 0
      BY <3>1 DEF AdaptersInv, ObjectsFit, ObjectFits, HasRoot
    <3> QED
      BY <1>4, <3>1, <3>2, <3>3 DEF ReplyFits
  <2> QED
    BY <2>1, <2>2
<1> QED
  BY <1>3, <1>4, <1>5, <1>6

\* The posts of the other platforms name no root.
LEMMA PlainPost ==
  ASSUME AdaptersInv, kind # "bluesky", NEW media, MayShow(media), NEW parent \in Nat
  PROVE  \E o \in RemoteObject :
           /\ o = APost(media, parent, 0) /\ o.what = "post" /\ o.post = delivery.post
           /\ o.delivery = deliveries /\ o.again = delivery.again
           /\ MayShow(o.uses) /\ ReplyFits(o) /\ o.root \in {0} \cup DOMAIN remote
<1>1. media \in Seq(Nat) /\ 0 \in Nat
  BY DEF MayShow
<1>2. PICK root \in Nat : root = 0
  BY <1>1
<1>3. PICK o \in RemoteObject :
        /\ o = APost(media, parent, root) /\ o.what = "post" /\ o.post = delivery.post
        /\ o.uses = media /\ o.root = root
        /\ o.delivery = deliveries /\ o.again = delivery.again
  <2> DEFINE new == APost(media, parent, root)
  <2>1. /\ new \in RemoteObject /\ new.what = "post" /\ new.post = delivery.post
        /\ new.uses = media /\ new.root = root
        /\ new.delivery = deliveries /\ new.again = delivery.again
    BY <1>1, APostFacts
  <2> USE <2>1
  <2> WITNESS new \in RemoteObject
  <2> QED
    OBVIOUS
<1> QED
  BY <1>2, <1>3 DEF ReplyFits

LEMMA ThePostFacts ==
  ASSUME AdaptersInv, At("publish")
  PROVE  \E o \in RemoteObject :
           /\ o = ThePost /\ o.what = "post" /\ o.post = delivery.post
           /\ o.delivery = deliveries /\ o.again = delivery.again
           /\ MayShow(o.uses) /\ ReplyFits(o) /\ o.root \in {0} \cup DOMAIN remote
<1>1. kind \in Platforms \ {"tiktok", "youtube"}
  BY DEF AdaptersInv, AdaptersTypeOK, DeliveryFits, RequestFits
<1>2. PICK parent \in Nat : parent = ReplyTo.id
  BY ReplyToFacts DEF ExternalId
<1>3. MayShow(<<>>)
  BY DEF MayShow
<1>4. CASE kind = "bluesky"
  BY <1>4, BlueskyFacts DEF ThePost
<1>5. CASE kind \in {"x", "mastodon"}
  <2>1. MayShow(delivery.ids)
    BY <1>5, ItemsMayShow DEF UsesPublicMediaURL
  <2>2. ThePost = APost(delivery.ids, parent, 0)
    BY <1>2, <1>5 DEF ThePost, XTweet, MastodonStatus
  <2> QED
    BY <1>5, <2>1, <2>2, PlainPost
<1>6. CASE kind = "linkedin"
  <2>1. CASE ReplyTo # NoId
    <3>1. ThePost = APost(<<>>, parent, 0)
      BY <1>2, <1>6, <2>1 DEF ThePost, LinkedInComment
    <3> QED
      BY <1>3, <1>6, <3>1, PlainPost
  <2>2. CASE ReplyTo = NoId /\ delivery.ids = <<>>
    <3>1. ThePost = APost(<<>>, 0, 0)
      BY <1>6, <2>2 DEF ThePost, LinkedInPost
    <3> QED
      BY <1>3, <1>6, <3>1, PlainPost
  <2>3. CASE ReplyTo = NoId /\ delivery.ids # <<>>
    <3>1. ThePost = APost(<<delivery.ids[1]>>, 0, 0)
      BY <1>6, <2>3 DEF ThePost, LinkedInPost
    <3>2. MayShow(<<delivery.ids[1]>>)
      BY <1>6, <2>3, ItemsMayShow DEF UsesPublicMediaURL
    <3> QED
      BY <1>6, <3>1, <3>2, PlainPost
  <2> QED
    BY <2>1, <2>2, <2>3
<1>7. CASE kind = "facebook"
  <2>1. ThePost = APost(<<>>, 0, 0)
    BY <1>7 DEF ThePost, FacebookPost
  <2> QED
    BY <1>3, <1>7, <2>1, PlainPost
<1>8. CASE kind = "instagram"
  <2>1. ThePost = APost(<<delivery.obj>>, 0, 0)
    BY <1>8 DEF ThePost, InstagramPost
  <2> QED
    BY <1>8, <2>1, ContainerMayShow, PlainPost
<1>9. CASE kind = "threads"
  <2>1. ThePost = APost(<<delivery.obj>>, parent, 0)
    BY <1>2, <1>9 DEF ThePost, ThreadsPost
  <2> QED
    BY <1>9, <2>1, ContainerMayShow, PlainPost
<1> QED
  BY <1>1, <1>4, <1>5, <1>6, <1>7, <1>8, <1>9 DEF Platforms

\* The post is made; the delivery stores its id, has it lost, or never learns of it.
LEMMA MakePostKeeps == ASSUME AdaptersInv, MakePost PROVE AdaptersInv'
<1>1. At("publish")
  BY DEF MakePost
<1>2. PICK o \in RemoteObject :
        /\ o = ThePost /\ o.what = "post" /\ o.post = delivery.post
        /\ o.delivery = deliveries /\ o.again = delivery.again
        /\ MayShow(o.uses) /\ ReplyFits(o) /\ o.root \in {0} \cup DOMAIN remote
  BY <1>1, ThePostFacts
<1>3. PICK k \in Nat : k = Len(remote) + 1
  BY InHandFacts
<1>4. PICK e \in ExternalId : e = [id |-> Len(remote) + 1, root |-> ThePost.root] /\ e.id = k /\ e.root = o.root
  <2> DEFINE e == [id |-> k, root |-> o.root]
  <2>1. e \in ExternalId /\ e.id = k /\ e.root = o.root
    BY DEF ExternalId, RemoteObject
  <2>2. e = [id |-> Len(remote) + 1, root |-> ThePost.root]
    BY <1>2, <1>3
  <2> QED
    BY <2>1, <2>2
<1>5. CASE Refused
  BY <1>5, RefusedKeeps
<1>6. ASSUME remote' = Append(remote, o), UNCHANGED <<givenVars, kept, deliveries>>,
             \/ Spend /\ Abandon("platform")
             \/ delivery' = [delivery EXCEPT !.at = "save", !.ext = e] /\ UNCHANGED <<row, spent>>
             \/ Spend /\ Go("save") /\ UNCHANGED row
      PROVE  AdaptersInv'
  <2>1. UNCHANGED <<kind, attached, deliveries>>
    BY <1>6 DEF givenVars
  <2>2. /\ DOMAIN remote' = DOMAIN remote \cup {k} /\ remote'[k] = o
        /\ \A n \in DOMAIN remote : remote'[n] = remote[n]
    BY <1>3, <1>6, AppendKeeps DEF AdaptersInv
  <2>3. ObjectFits(k)'
    <3>1. HasRoot(k)'
      BY <1>2, <2>1, <2>2 DEF HasRoot, ReplyFits
    <3>2. ShowsMedia(k)'
      BY <1>2, <2>1, <2>2 DEF ShowsMedia, MayShow
    <3> QED
      BY <1>2, <2>1, <2>2, <3>1, <3>2, InHandFacts DEF ObjectFits
  <2>4. kind \notin {"tiktok", "youtube"} /\ \A n \in DOMAIN remote : ~Own(n)
    BY <1>1 DEF AdaptersInv, DeliveryFits, RequestFits, NoneYet, At
  <2>5. RemoteKeeps /\ ObjectsFit' /\ OnePostPerDelivery' /\ KeptFit'
    BY <1>2, <1>3, <1>6, <2>3, <2>4, ObjectsGrow DEF AdaptersInv
  <2>6. Made(delivery.post)' # {} \/ delivery'.post # delivery.post
    BY <1>2, <2>1, <2>2, <2>4 DEF Made
  <2>7. CASE Spend /\ Abandon("platform")
    BY <1>6, <2>5, <2>7, SpendFacts, Abandons
  <2>8. ASSUME spent' \in 0 .. MaxFaults, UNCHANGED row, NEW x \in ExternalId, Names(x, delivery.post)',
               delivery' \in DeliveryRow, delivery'.at = "save", delivery'.post = delivery.post,
               delivery'.ids = delivery.ids, delivery'.again = delivery.again, delivery'.ext = x
        PROVE  AdaptersInv'
    <3>1. NoneYet'
      BY <2>8 DEF NoneYet, At
    <3>2. NoneRenewed'
      BY <1>1, <1>2, <2>1, <2>2, <2>4, <2>8 DEF NoneRenewed, Own, At
    <3>3. RequestFits'
      BY <2>6, <2>8 DEF RequestFits, At
    <3> QED
      BY <1>1, <1>6, <2>5, <2>8, <3>1, <3>2, <3>3, RequestGoesOn DEF At, RequestSteps
  <2>9. CASE delivery' = [delivery EXCEPT !.at = "save", !.ext = e] /\ UNCHANGED <<row, spent>>
    <3>1. /\ delivery' \in DeliveryRow /\ delivery'.at = "save" /\ delivery'.post = delivery.post
          /\ delivery'.ids = delivery.ids /\ delivery'.again = delivery.again /\ delivery'.ext = e
      <4>1. delivery \in DeliveryRow
        BY DEF AdaptersInv, AdaptersTypeOK
      <4> QED
        BY <2>9, <4>1 DEF DeliveryRow, RequestSteps
    <3>2. Names(e, delivery.post)'
      BY <1>2, <1>3, <1>4, <2>2, <3>1 DEF Names
    <3> QED
      BY <2>8, <2>9, <3>1, <3>2, InHandFacts
  <2>10. CASE Spend /\ Go("save") /\ UNCHANGED row
    <3>1. /\ delivery' \in DeliveryRow /\ delivery'.at = "save" /\ delivery'.post = delivery.post
          /\ delivery'.ids = delivery.ids /\ delivery'.again = delivery.again
          /\ delivery'.ext = delivery.ext
      BY <2>10, GoFacts DEF RequestSteps
    <3>2. PICK x \in ExternalId : x = delivery.ext
      BY InHandFacts
    <3>3. Names(x, delivery.post)'
      BY <1>1, <2>1, <2>5, <3>1, <3>2, CarriesOn DEF At
    <3> QED
      BY <2>8, <2>10, <3>1, <3>2, <3>3, SpendFacts
  <2> QED
    BY <1>6, <2>7, <2>9, <2>10
<1> QED
  BY <1>2, <1>4, <1>5, <1>6 DEF MakePost, Carried

LEMMA RetryPublishKeeps == ASSUME AdaptersInv, RetryPublish PROVE AdaptersInv'
<1>1. /\ At("publish") /\ Spend /\ UNCHANGED <<givenVars, kept, deliveries>> /\ remote' = remote
      /\ \/ /\ delivery.tries + 1 < PublishTries /\ UNCHANGED row
            /\ delivery' = [delivery EXCEPT !.tries = @ + 1]
         \/ Abandon("platform")
  BY DEF RetryPublish, MayTryAgain, AfterLastTry
<1>2. /\ UNCHANGED <<kind, attached, remote, deliveries>> /\ RemoteKeeps /\ ObjectsFit'
      /\ OnePostPerDelivery' /\ KeptFit' /\ spent' \in 0 .. MaxFaults
  BY <1>1, ObjectsSame, SpendFacts DEF givenVars
<1>3. CASE Abandon("platform")
  BY <1>1, <1>2, <1>3, Abandons
<1>4. CASE /\ delivery.tries + 1 < PublishTries /\ UNCHANGED row
           /\ delivery' = [delivery EXCEPT !.tries = @ + 1]
  <2>1. /\ delivery' \in DeliveryRow /\ delivery'.at = "publish" /\ delivery'.post = delivery.post
        /\ delivery'.ids = delivery.ids /\ delivery'.obj = delivery.obj
        /\ delivery'.again = delivery.again /\ delivery'.ext = delivery.ext
    <3>1. delivery \in DeliveryRow /\ delivery.tries \in 0 .. PublishTries - 1 /\ PublishTries \in Nat
      BY PlatformPostsAssumption DEF AdaptersInv, AdaptersTypeOK, DeliveryRow
    <3>2. PICK t \in 0 .. PublishTries - 1 : t = delivery.tries + 1
      BY <1>4, <3>1
    <3>3. delivery' = [delivery EXCEPT !.tries = t]
      BY <1>4, <3>2
    <3> QED
      BY <1>1, <3>1, <3>3 DEF DeliveryRow, At
  <2>2. NoneYet' /\ NoneRenewed'
    BY <1>1, <1>2, <2>1, NoneStays DEF At
  <2>3. RequestFits'
    <3>1. Names(delivery.ext, delivery.post)'
      BY <1>1, <1>2, <2>1, CarriesOn DEF At
    <3> QED
      BY <1>1, <1>2, <2>1, <3>1 DEF RequestFits, At, InHand, AdaptersInv, DeliveryFits
  <2> QED
    BY <1>1, <1>2, <1>4, <2>1, <2>2, <2>3, RequestGoesOn DEF At, RequestSteps
<1> QED
  BY <1>1, <1>3, <1>4

\* The row says "success"; it has the new external id, or the one from before.
LEMMA SaveDeliveryKeeps == ASSUME AdaptersInv, SaveDelivery PROVE AdaptersInv'
<1>1. /\ At("save") /\ delivery' = NoDelivery
      /\ UNCHANGED <<kind, https, attached, kept, deliveries, remote>>
      /\ RemoteKeeps /\ ObjectsFit' /\ OnePostPerDelivery' /\ KeptFit' /\ spent' \in 0 .. MaxFaults
  BY ObjectsSame, SpendFacts, InHandFacts DEF SaveDelivery, givenVars
<1>2. Made(delivery.post) # {} /\ Names(delivery.ext, delivery.post) /\ delivery.ext \in ExternalId
      /\ delivery.post \in ThreadPosts
  BY <1>1, InHandFacts DEF AdaptersInv, DeliveryFits, RequestFits
<1>3. PICK r \in DestinationRow :
        /\ row' = [row EXCEPT ![delivery.post] = r] /\ Names(r.ext, delivery.post)
        /\ r.why = "media" => row[delivery.post].why = "media"
  <2>1. row[delivery.post] \in DestinationRow /\ Names(row[delivery.post].ext, delivery.post)
    BY <1>2 DEF AdaptersInv, AdaptersTypeOK, RowsFit, RowFits
  <2>2. CASE row' = [row EXCEPT ![delivery.post] = [status |-> "success", ext |-> delivery.ext, why |-> "none"]]
    <3> DEFINE r == [status |-> "success", ext |-> delivery.ext, why |-> "none"]
    <3>1. r \in DestinationRow /\ r.ext = delivery.ext /\ r.why = "none"
      BY <1>2 DEF DestinationRow
    <3> QED
      BY <1>2, <2>2, <3>1
  <2>3. CASE row' = [row EXCEPT ![delivery.post].status = "success"]
    <3> DEFINE r == [row[delivery.post] EXCEPT !.status = "success"]
    <3>1. r \in DestinationRow /\ r.ext = row[delivery.post].ext /\ r.why = row[delivery.post].why
      BY <2>1 DEF DestinationRow
    <3>2. row' = [row EXCEPT ![delivery.post] = r]
      BY <2>3
    <3> QED
      BY <2>1, <3>1, <3>2
  <2> QED
    BY <2>2, <2>3 DEF SaveDelivery
<1>4. row \in [ThreadPosts -> DestinationRow] /\ row' \in [ThreadPosts -> DestinationRow]
  BY <1>2, <1>3 DEF AdaptersInv, AdaptersTypeOK
<1>5. \A p \in ThreadPosts : MediaErrors(attached[p])' <=> MediaErrors(attached[p])
  BY <1>1 DEF MediaErrors, XMediaErrors, BlueskyMediaErrors, MastodonMediaErrors,
     LinkedInMediaErrors, ThreadsMediaErrors, FacebookMediaErrors, InstagramMediaErrors,
     TikTokMediaErrors, YouTubeMediaErrors, Videos
<1>6. ASSUME NEW p \in ThreadPosts PROVE RowFits(p)'
  <2>1. RowFits(p) /\ Made(p)' = Made(p)
    BY <1>1 DEF AdaptersInv, RowsFit, Made
  <2>2. CASE p = delivery.post
    <3>1. row'[p] = r
      BY <1>3, <1>4, <2>2
    <3>2. Names(r.ext, p)'
      BY <1>1, <1>3, <2>2 DEF Names
    <3>3. r.why = "media" => MediaErrors(attached[p])'
      BY <1>3, <1>5, <2>1, <2>2 DEF RowFits
    <3> QED
      BY <1>2, <2>1, <2>2, <3>1, <3>2, <3>3 DEF RowFits
  <2>3. CASE p # delivery.post
    <3>1. row'[p] = row[p]
      BY <1>3, <1>4, <2>3
    <3> QED
      BY <1>1, <1>5, <2>1, <3>1 DEF RowFits, Names
  <2> QED
    BY <2>2, <2>3
<1>7. delivery' \in DeliveryRow /\ DeliveryFits'
  BY <1>1, IdleFits
<1>8. AdaptersTypeOK'
  BY <1>1, <1>4, <1>7 DEF AdaptersInv, AdaptersTypeOK, RemoteKeeps, ThreadPosts, DeliveryRow,
     DestinationRow
<1> QED
  BY <1>1, <1>6, <1>7, <1>8 DEF AdaptersInv, RowsFit

LEMMA CrashKeeps == ASSUME AdaptersInv, Crash PROVE AdaptersInv'
<1>1. /\ delivery' = NoDelivery /\ UNCHANGED <<givenVars, row, kept, deliveries>>
      /\ UNCHANGED <<kind, attached, kept, deliveries, remote>> /\ spent' \in 0 .. MaxFaults
  BY SpendFacts DEF Crash, givenVars
<1> QED
  BY <1>1, ObjectsSame, IdleFits, GoesOn

\* A new delivery has made nothing yet.
LEMMA DeliverKeeps == ASSUME AdaptersInv, NEW p \in ThreadPosts, Deliver(p) PROVE AdaptersInv'
<1>1. /\ UNCHANGED <<kind, https, attached, row, kept, remote, spent>>
      /\ deliveries \in Nat /\ deliveries' = deliveries + 1 /\ deliveries' \in 0 .. MaxDeliveries
  BY PlatformPostsAssumption, InHandFacts DEF Deliver, givenVars
<1>2. RemoteKeeps
  BY <1>1, SameKeeps DEF AdaptersInv
<1>3. ObjectsFit' /\ OnePostPerDelivery' /\ KeptFit'
  BY <1>1, <1>2, ObjectsStay DEF AdaptersInv
<1>4. /\ delivery' \in DeliveryRow /\ delivery'.at = "media" /\ delivery'.post = p
      /\ delivery'.ids = <<>> /\ delivery'.sent = 0 /\ delivery'.ext = NoId /\ ~delivery'.again
  <2>1. 0 \in 0 .. Polls - 1 /\ 0 \in 0 .. PublishTries - 1 /\ <<>> \in Seq(Nat)
    BY PlatformPostsAssumption
  <2>2. delivery' = [at |-> "media", post |-> p, ids |-> <<>>, obj |-> 0, sent |-> 0, polls |-> 0,
                     tries |-> 0, again |-> FALSE, ext |-> NoId]
    BY DEF Deliver, NoDelivery
  <2>3. delivery' \in DeliveryRow
    BY <2>1, <2>2 DEF DeliveryRow, ExternalId, NoId
  <2> QED
    BY <2>2, <2>3
<1>5. NoneYet' /\ NoneRenewed'
  <2>1. \A n \in DOMAIN remote : remote[n].delivery \in Nat /\ remote[n].delivery <= deliveries
    BY InHandFacts DEF AdaptersInv, ObjectsFit, ObjectFits, RemoteObject
  <2>2. \A n \in DOMAIN remote' : ~Own(n)'
    BY <1>1, <2>1 DEF Own
  <2> QED
    BY <2>2 DEF NoneYet, NoneRenewed
<1>6. ItemsFit'
  <2>1. Items' = attached[p] /\ Len(attached[p]) \in Nat
    BY <1>1, <1>4 DEF Items, AdaptersInv, AdaptersTypeOK
  <2> QED
    BY <1>4, <2>1 DEF ItemsFit, At, ItemSteps, UploadSteps, RequestSteps
<1>7. UploadFits' /\ RequestFits'
  BY <1>4 DEF UploadFits, RequestFits, At, UploadSteps, Names, NoId
<1>8. AdaptersTypeOK'
  BY <1>1, <1>2, <1>4 DEF AdaptersInv, AdaptersTypeOK, RemoteKeeps, ThreadPosts, DeliveryRow,
     DestinationRow
<1>9. RowsFit'
  BY <1>1, <1>2, RowsStay DEF AdaptersInv
<1> QED
  BY <1>3, <1>5, <1>6, <1>7, <1>8, <1>9 DEF AdaptersInv, DeliveryFits

LEMMA StepAdapters == ASSUME AdaptersInv, [AdaptersNext]_adapterVars PROVE AdaptersInv'
<1>1. ASSUME NEW p \in ThreadPosts, Deliver(p) PROVE AdaptersInv'
  BY <1>1, DeliverKeeps
<1>2. CASE NextMedia \/ SendFile \/ OpenUpload \/ SendPart \/ CloseUpload \/ KeepMedia
  BY <1>2, NextMediaKeeps, SendFileKeeps, OpenUploadKeeps, SendPartKeeps, CloseUploadKeeps, KeepMediaKeeps
<1>3. CASE XPollsMedia \/ MastodonPollsMedia \/ BlueskyPollsJob \/ LinkedInPollsVideo \/ PollFails
  BY <1>3, PollsKeep
<1>4. CASE CheckRequest \/ SetAltTexts
  BY <1>4, CheckRequestKeeps, SetAltTextsKeeps
<1>5. CASE CreateFails
  BY <1>5, RefusedKeeps DEF CreateFails
<1>6. CASE ThreadsCreates \/ InstagramCreates \/ TikTokInits
  BY <1>6, StartsKeeps DEF ThreadsCreates, InstagramCreates, TikTokInits
<1>7. CASE ThreadsPolls \/ InstagramPolls \/ TikTokPolls
  BY <1>7, RequestPollsKeep
<1>8. CASE MakePost \/ RetryPublish \/ SaveDelivery
  BY <1>8, MakePostKeeps, RetryPublishKeeps, SaveDeliveryKeeps
<1>9. ASSUME NEW n \in DOMAIN remote, NEW st \in {"ready", "failed"}, Processed(n, st)
      PROVE  AdaptersInv'
  BY <1>9, ProcessedKeeps DEF MediaStates
<1>10. CASE TokenExpires \/ Crash
  BY <1>10, TokenExpiresKeeps, CrashKeeps
<1>11. CASE UNCHANGED adapterVars
  <2>1. /\ UNCHANGED <<kind, https, attached, row, kept, delivery, deliveries, remote, spent>>
        /\ UNCHANGED <<givenVars, row, kept, deliveries>>
    BY <1>11 DEF adapterVars, givenVars
  <2>2. RemoteKeeps /\ ObjectsFit' /\ OnePostPerDelivery' /\ KeptFit'
    BY <2>1, ObjectsSame
  <2>3. RowsFit' /\ AdaptersTypeOK'
    BY <2>1, <2>2, RowsStay DEF AdaptersInv, AdaptersTypeOK
  <2>4. DeliveryFits'
    BY <2>1 DEF AdaptersInv, DeliveryFits, ItemsFit, UploadFits, RequestFits, NoneYet, NoneRenewed,
       At, Items, Item, InHand, Own, Made, Names, Usable, Upload, UsesPublicMediaURL, Finalizes
  <2> QED
    BY <2>2, <2>3, <2>4 DEF AdaptersInv
<1> QED
  BY <1>1, <1>2, <1>3, <1>4, <1>5, <1>6, <1>7, <1>8, <1>9, <1>10, <1>11 DEF AdaptersNext, AdapterStep

LEMMA SafePublication == AdaptersInv => PublicationSafety
<1> SUFFICES ASSUME AdaptersInv PROVE PublicationSafety
  OBVIOUS
<1>1. PlatformTypeOK
  <2>1. ASSUME NEW p \in ThreadPosts
        PROVE  /\ row[p].status \in {"pending", "failed", "success"}
               /\ row[p].why \in {"none", "platform", "media", "url", "reply"}
               /\ {row[p].ext.id, row[p].ext.root} \subseteq {0} \cup DOMAIN remote
               /\ kept[p] \in [DOMAIN attached[p] -> {0} \cup DOMAIN remote]
    <3>1. row[p] \in DestinationRow /\ {row[p].ext.id, row[p].ext.root} \subseteq {0} \cup DOMAIN remote
      BY DEF AdaptersInv, AdaptersTypeOK, RowsFit, RowFits, Names
    <3>2. kept[p] \in [DOMAIN attached[p] -> Nat]
      BY DEF AdaptersInv, AdaptersTypeOK
    <3>3. \A i \in DOMAIN attached[p] : kept[p][i] \in {0} \cup DOMAIN remote
      BY DEF AdaptersInv, KeptFit, KeptFits, Usable, Upload
    <3> QED
      BY <3>1, <3>2, <3>3 DEF DestinationRow
  <2>2. delivery \in DeliveryRow
    BY DEF AdaptersInv, AdaptersTypeOK
  <2> QED
    BY <2>1, <2>2 DEF PlatformTypeOK, AdaptersInv, AdaptersTypeOK, DeliveryRow, ItemSteps, UploadSteps,
       RequestSteps
<1>2. ThreadHasOneRoot
  BY DEF ThreadHasOneRoot, AdaptersInv, ObjectsFit, ObjectFits, HasRoot
<1>3. SuccessIsPublished
  BY DEF SuccessIsPublished, AdaptersInv, RowsFit, RowFits
<1> QED
  BY <1>1, <1>2, <1>3 DEF PublicationSafety, AdaptersInv

LEMMA SafeMedia == AdaptersInv => MediaSafety
<1> SUFFICES ASSUME AdaptersInv PROVE MediaSafety
  OBVIOUS
<1>1. KeptUploadIsTheLast
  BY DEF KeptUploadIsTheLast, AdaptersInv, KeptFit, KeptFits, Upload
<1>2. PostsUseProcessedMedia
  BY DEF PostsUseProcessedMedia, AdaptersInv, ObjectsFit, ObjectFits, ShowsMedia, Whole, Covers
<1>3. ValidMediaAreAccepted
  BY DEF ValidMediaAreAccepted, AdaptersInv, RowsFit, RowFits
<1> QED
  BY <1>1, <1>2, <1>3 DEF MediaSafety

LEMMA AdaptersSafe == PlatformsSpec => []AdaptersInv
<1>1. ASSUME [PlatformsNext]_platformsVars PROVE [AdaptersNext]_adapterVars
  BY <1>1 DEF PlatformsNext, Connecting, Posting, platformsVars
<1>2. PlatformsInit => AdaptersInv
  BY AdaptersStart DEF PlatformsInit
<1>3. AdaptersInv /\ [PlatformsNext]_platformsVars => AdaptersInv'
  BY <1>1, StepAdapters
<1> QED
  BY <1>2, <1>3, PTL DEF PlatformsSpec, PlatformsSafety

\* Whatever a platform refuses, loses, delays or carries out without an answer,
\* and wherever the process dies: a destination is "success" only with a post at
\* the platform, a thread on Bluesky has one root, and no delivery posts twice,
\* for threads, files and limits of every length (publishToDestination and the
\* adapters).
THEOREM PublicationSafetyHolds == PlatformsSpec => []PublicationSafety
BY AdaptersSafe, SafePublication, PTL

\* And a post shows only media of its own that are whole and processed, an
\* upload on record is the last one made of its item, and what the API accepted
\* no adapter refuses (platformMediaIDForDestination, the uploads and validate*Media).
THEOREM MediaSafetyHolds == PlatformsSpec => []MediaSafety
BY AdaptersSafe, SafeMedia, PTL

-----------------------------------------------------------------------------
(* Provider apps *)

Row == [key : Keys, name : AppNames \cup {NoAppName}, client : Clients \cup {NoClient},
        secret : BOOLEAN, active : BOOLEAN]

Entry == {e \in App \cup Row : e.client \in Clients}

\* What a list has for a key: its last entry.
Uses(list, k) == IF Places(list, k) = {} THEN NoAppRow ELSE list[Max(Places(list, k))]

LEMMA SmallestNat ==
  ASSUME NEW T \in SUBSET Nat, T # {} PROVE \E m \in T : \A n \in T : m <= n
<1>1. PICK m \in T : \A n \in T : <<n, m>> \notin OpToRel(<, Nat)
  BY WFMin, NatLessThanWellFounded, Zenon
<1>2. \A n \in T : n \in Nat /\ m \in Nat /\ ~(n < m)
  BY <1>1, Zenon DEF OpToRel
<1> QED
  BY <1>2

LEMMA LastOf ==
  ASSUME NEW len \in Nat, NEW P \in SUBSET (1 .. len), P # {}
  PROVE  Max(P) \in P /\ \A i \in P : i <= Max(P)
<1> DEFINE T == {len - i : i \in P}
<1>1. T \in SUBSET Nat /\ T # {}
  <2>1. \A i \in P : i \in Nat /\ i <= len /\ len - i \in Nat
    OBVIOUS
  <2> QED
    BY <2>1
<1>2. PICK t \in T : \A u \in T : t <= u
  BY <1>1, SmallestNat
<1>3. PICK m \in P : t = len - m
  OBVIOUS
<1>4. \A i \in P : m >= i
  <2> SUFFICES ASSUME NEW i \in P PROVE m >= i
    OBVIOUS
  <2>1. t <= len - i
    BY <1>2
  <2> QED
    BY <1>3, <2>1
<1>5. \E x \in P : \A y \in P : x >= y
  BY <1>4
<1>6. Max(P) \in P /\ \A y \in P : Max(P) >= y
  BY <1>5 DEF Max
<1> QED
  BY <1>6

LEMMA LastPlace ==
  ASSUME NEW list \in Seq(Entry), NEW k, Places(list, k) # {}
  PROVE  /\ Max(Places(list, k)) \in Places(list, k)
         /\ \A i \in Places(list, k) : i <= Max(Places(list, k))
<1>1. Places(list, k) \in SUBSET (1 .. Len(list)) /\ Len(list) \in Nat
  BY DEF Places
<1> QED
  BY <1>1, LastOf

LEMMA OverrideUses ==
  ASSUME NEW list \in Seq(Entry), NEW entry \in Entry
  PROVE  /\ Override(list, entry) \in Seq(Entry)
         /\ \A k : Uses(Override(list, entry), k) = IF k = entry.key THEN entry ELSE Uses(list, k)
<1>1. CASE Places(list, entry.key) = {}
  <2> DEFINE new == Append(list, entry)
  <2>1. Override(list, entry) = new
    BY <1>1 DEF Override
  <2>2. /\ new \in Seq(Entry) /\ Len(new) = Len(list) + 1 /\ new[Len(list) + 1] = entry
        /\ DOMAIN new = DOMAIN list \cup {Len(list) + 1} /\ Len(list) + 1 \notin DOMAIN list
        /\ \A i \in DOMAIN list : new[i] = list[i]
    OBVIOUS
  <2> HIDE DEF new
  <2>3. ASSUME NEW k, k # entry.key PROVE Uses(new, k) = Uses(list, k)
    <3>1. Places(new, k) = Places(list, k)
      BY <2>2, <2>3 DEF Places
    <3>2. Places(list, k) # {} => new[Max(Places(list, k))] = list[Max(Places(list, k))]
      <4> SUFFICES ASSUME Places(list, k) # {} PROVE new[Max(Places(list, k))] = list[Max(Places(list, k))]
        OBVIOUS
      <4>1. Max(Places(list, k)) \in DOMAIN list
        BY LastPlace DEF Places
      <4> QED
        BY <2>2, <4>1
    <3> QED
      BY <3>1, <3>2 DEF Uses
  <2>4. Uses(new, entry.key) = entry
    <3>1. Places(new, entry.key) = {Len(list) + 1}
      BY <1>1, <2>2 DEF Places
    <3>2. Max(Places(new, entry.key)) \in Places(new, entry.key)
      BY <2>2, <3>1, LastPlace
    <3> QED
      BY <2>2, <3>1, <3>2 DEF Uses
  <2> QED
    BY <2>1, <2>2, <2>3, <2>4
<1>2. CASE Places(list, entry.key) # {}
  <2>1. PICK m : /\ m = Max(Places(list, entry.key)) /\ m \in DOMAIN list /\ list[m].key = entry.key
                 /\ m \in Places(list, entry.key)
    BY <1>2, LastPlace DEF Places
  <2> DEFINE new == [list EXCEPT ![m] = entry]
  <2>2. Override(list, entry) = new
    BY <1>2, <2>1 DEF Override
  <2>3. /\ new \in Seq(Entry) /\ DOMAIN new = DOMAIN list /\ new[m] = entry
        /\ \A i \in DOMAIN list \ {m} : new[i] = list[i]
    <3>1. list \in [1 .. Len(list) -> Entry] /\ Len(list) \in Nat /\ DOMAIN list = 1 .. Len(list)
      OBVIOUS
    <3>2. new \in [1 .. Len(list) -> Entry]
      BY <3>1
    <3>3. new \in Seq(Entry)
      BY <3>1, <3>2
    <3> QED
      BY <2>1, <3>1, <3>3
  <2> HIDE DEF new
  <2>4. \A k : Places(new, k) = Places(list, k)
    BY <2>1, <2>3 DEF Places
  <2>5. ASSUME NEW k, k # entry.key PROVE Uses(new, k) = Uses(list, k)
    <3>1. Places(list, k) # {} => new[Max(Places(list, k))] = list[Max(Places(list, k))]
      <4> SUFFICES ASSUME Places(list, k) # {} PROVE new[Max(Places(list, k))] = list[Max(Places(list, k))]
        OBVIOUS
      <4>1. Max(Places(list, k)) \in DOMAIN list /\ list[Max(Places(list, k))].key = k
        BY LastPlace DEF Places
      <4> QED
        BY <2>1, <2>3, <2>5, <4>1
    <3> QED
      BY <2>4, <3>1 DEF Uses
  <2>6. Uses(new, entry.key) = entry
    BY <1>2, <2>1, <2>3, <2>4 DEF Uses
  <2> QED
    BY <2>2, <2>3, <2>5, <2>6
<1> QED
  BY <1>1, <1>2

\* Where an entry of the list comes from after n of the overrides in `order`: it
\* is one of them, or an entry of the environment in its place, none of whose
\* overrides was read unless the environment has the key again further on.
Comes(list, i, order, n) ==
  \/ \E j \in 1 .. n : list[i] = appRow[order[j]]
  \/ /\ i \in DOMAIN envApps /\ list[i] = envApps[i]
     /\ ~Superseded(i) => \A j \in 1 .. n : order[j] # envApps[i].key

LEMMA OverrideComes ==
  ASSUME NEW list \in Seq(Entry), envApps \in Seq(Entry), NEW order, NEW n \in Nat \ {0},
         NEW entry \in Entry, entry = appRow[order[n]],
         \A j \in 1 .. n : appRow[order[j]].key = order[j],
         \A i \in DOMAIN list : Comes(list, i, order, n - 1)
  PROVE  \A i \in DOMAIN Override(list, entry) : Comes(Override(list, entry), i, order, n)
<1>1. /\ n \in 1 .. n /\ entry.key = order[n]
      /\ \A j \in 1 .. n - 1 : j \in 1 .. n
      /\ \A j \in 1 .. n : j \in 1 .. n - 1 \/ j = n
  OBVIOUS
<1>2. CASE Places(list, entry.key) = {}
  <2> DEFINE new == Append(list, entry)
  <2>1. Override(list, entry) = new
    BY <1>2 DEF Override
  <2>2. /\ new[Len(list) + 1] = entry
        /\ DOMAIN new = DOMAIN list \cup {Len(list) + 1}
        /\ \A i \in DOMAIN list : new[i] = list[i]
    OBVIOUS
  <2> HIDE DEF new
  <2>3. ASSUME NEW i \in DOMAIN list PROVE Comes(new, i, order, n)
    <3>1. list[i].key # entry.key /\ Comes(list, i, order, n - 1)
      BY <1>2 DEF Places
    <3> QED
      BY <1>1, <2>2, <3>1 DEF Comes
  <2>4. Comes(new, Len(list) + 1, order, n)
    BY <1>1, <2>2 DEF Comes
  <2> QED
    BY <2>1, <2>2, <2>3, <2>4
<1>3. CASE Places(list, entry.key) # {}
  <2>1. PICK m : /\ m = Max(Places(list, entry.key)) /\ m \in DOMAIN list /\ list[m].key = entry.key
                 /\ m \in Nat /\ \A i \in Places(list, entry.key) : i <= m
    <3> DEFINE m == Max(Places(list, entry.key))
    <3>1. m \in Places(list, entry.key) /\ \A i \in Places(list, entry.key) : i <= m
      BY <1>3, LastPlace
    <3>2. m \in DOMAIN list /\ list[m].key = entry.key /\ m \in Nat
      BY <3>1 DEF Places
    <3> QED
      BY <3>1, <3>2
  <2> DEFINE new == [list EXCEPT ![m] = entry]
  <2>2. Override(list, entry) = new
    BY <1>3, <2>1 DEF Override
  <2>3. DOMAIN new = DOMAIN list /\ new[m] = entry /\ \A i \in DOMAIN list \ {m} : new[i] = list[i]
    BY <2>1
  <2> HIDE DEF new
  <2>4. Comes(new, m, order, n)
    BY <1>1, <2>3 DEF Comes
  <2>5. ASSUME NEW i \in DOMAIN list \ {m} PROVE Comes(new, i, order, n)
    <3>1. CASE \E j \in 1 .. n - 1 : list[i] = appRow[order[j]]
      BY <1>1, <2>3, <3>1 DEF Comes
    <3>2. CASE /\ i \in DOMAIN envApps /\ list[i] = envApps[i]
               /\ ~Superseded(i) => \A j \in 1 .. n - 1 : order[j] # envApps[i].key
      <4>1. ASSUME ~Superseded(i), envApps[i].key = order[n] PROVE FALSE
        <5>1. i \in Nat /\ i <= m /\ i # m
          BY <1>1, <2>1, <3>2, <4>1 DEF Places
        <5>2. \A l \in Places(envApps, order[n]) : l <= i
          <6>1. Places(envApps, order[n]) # {}
            BY <3>2, <4>1 DEF Places
          <6> QED
            BY <3>2, <4>1, <6>1, LastPlace DEF Superseded
        <5>3. CASE \E j \in 1 .. n - 1 : list[m] = appRow[order[j]]
          BY <1>1, <2>1, <3>2, <4>1, <5>3
        <5>4. CASE m \in DOMAIN envApps /\ list[m] = envApps[m]
          <6>1. m \in Places(envApps, order[n])
            BY <1>1, <2>1, <5>4 DEF Places
          <6> QED
            BY <2>1, <5>1, <5>2, <6>1
        <5> QED
          BY <2>1, <5>3, <5>4 DEF Comes
      <4> QED
        BY <1>1, <2>3, <3>2, <4>1 DEF Comes
    <3> QED
      BY <3>1, <3>2 DEF Comes
  <2> QED
    BY <2>2, <2>3, <2>4, <2>5
<1> QED
  BY <1>2, <1>3

\* The lists of MergeAppConfigs after n of the overrides in `order`.
IsMerge(f, order, n) ==
  f = [i \in 0 .. n |-> IF i = 0 THEN envApps ELSE Override(f[i - 1], appRow[order[i]])]

LEMMA MergeExists == ASSUME NEW order, NEW n \in Nat PROVE \E f : IsMerge(f, order, n)
<1> DEFINE T == {m \in Nat : ~\E f : IsMerge(f, order, m)}
<1> SUFFICES ASSUME T # {} PROVE FALSE
  OBVIOUS
<1>1. PICK m \in T : \A l \in T : m <= l
  <2>1. T \in SUBSET Nat
    OBVIOUS
  <2> QED
    BY <2>1, SmallestNat
<1>2. m \in Nat /\ ~\E f : IsMerge(f, order, m)
  OBVIOUS
<1>3. CASE m = 0
  <2> DEFINE g == [i \in 0 .. 0 |-> envApps]
  <2>1. g = [i \in 0 .. 0 |-> IF i = 0 THEN envApps ELSE Override(g[i - 1], appRow[order[i]])]
    OBVIOUS
  <2>2. IsMerge(g, order, m)
    BY <1>3, <2>1 DEF IsMerge
  <2> QED
    BY <1>2, <2>2
<1>4. CASE m # 0
  <2>1. m - 1 \in Nat /\ m - 1 \notin T
    BY <1>1, <1>2, <1>4
  <2>2. PICK f : IsMerge(f, order, m - 1)
    BY <2>1
  <2>3. /\ DOMAIN f = 0 .. m - 1 /\ f[0] = envApps
        /\ \A i \in 1 .. m - 1 : f[i] = Override(f[i - 1], appRow[order[i]])
    <3>1. f = [i \in 0 .. m - 1 |-> IF i = 0 THEN envApps ELSE Override(f[i - 1], appRow[order[i]])]
      BY <2>2 DEF IsMerge
    <3>2. \A i \in 0 .. m - 1 : f[i] = IF i = 0 THEN envApps ELSE Override(f[i - 1], appRow[order[i]])
      BY <3>1
    <3> QED
      BY <2>1, <3>1, <3>2
  <2> DEFINE g == [i \in 0 .. m |-> IF i = m THEN Override(f[m - 1], appRow[order[m]]) ELSE f[i]]
  <2>4. g[m] = Override(f[m - 1], appRow[order[m]]) /\ \A i \in 0 .. m - 1 : g[i] = f[i]
    BY <1>2
  <2>5. ASSUME NEW i \in 0 .. m
        PROVE  g[i] = IF i = 0 THEN envApps ELSE Override(g[i - 1], appRow[order[i]])
    <3> HIDE DEF g
    <3>1. CASE i = 0
      BY <1>2, <1>4, <2>3, <2>4, <3>1
    <3>2. CASE i = m
      <4>1. m - 1 \in 0 .. m - 1
        BY <2>1
      <4> QED
        BY <1>4, <2>4, <3>2, <4>1
    <3>3. CASE i # 0 /\ i # m
      <4>1. i \in 1 .. m - 1 /\ i \in 0 .. m - 1 /\ i - 1 \in 0 .. m - 1
        BY <1>2, <3>3
      <4> QED
        BY <2>3, <2>4, <3>3, <4>1
    <3> QED
      BY <3>1, <3>2, <3>3
  <2>6. IsMerge(g, order, m)
    <3> DEFINE h == [i \in 0 .. m |-> IF i = 0 THEN envApps ELSE Override(g[i - 1], appRow[order[i]])]
    <3>1. DOMAIN g = 0 .. m /\ DOMAIN h = 0 .. m
      OBVIOUS
    <3>2. \A i \in 0 .. m : g[i] = h[i]
      BY <2>5
    <3>3. g = h
      BY <3>1, <3>2
    <3> QED
      BY <3>3 DEF IsMerge
  <2> QED
    BY <1>2, <2>6
<1> QED
  BY <1>3, <1>4

\* After the overrides their keys have what the rows say, the others what they
\* had, and it is known where every entry comes from.
LEMMA MergeUses ==
  ASSUME envApps \in Seq(Entry), NEW order \in Seq(Keys),
         \A i \in DOMAIN order : appRow[order[i]] \in Entry /\ appRow[order[i]].key = order[i]
  PROVE  /\ MergeAppConfigs(order) \in Seq(Entry)
         /\ \A k : Uses(MergeAppConfigs(order), k) =
              IF \E i \in DOMAIN order : order[i] = k THEN appRow[k] ELSE Uses(envApps, k)
         /\ \A i \in DOMAIN MergeAppConfigs(order) : Comes(MergeAppConfigs(order), i, order, Len(order))
<1>1. PICK f : /\ IsMerge(f, order, Len(order)) /\ MergeAppConfigs(order) = f[Len(order)]
  <2> DEFINE f == CHOOSE f : f = [i \in 0 .. Len(order) |->
                     IF i = 0 THEN envApps ELSE Override(f[i - 1], appRow[order[i]])]
  <2>1. \E g : g = [i \in 0 .. Len(order) |->
                 IF i = 0 THEN envApps ELSE Override(g[i - 1], appRow[order[i]])]
    <3>1. Len(order) \in Nat
      OBVIOUS
    <3>2. \E g : IsMerge(g, order, Len(order))
      BY <3>1, MergeExists
    <3> QED
      BY <3>2, Zenon DEF IsMerge
  <2>2. f = [i \in 0 .. Len(order) |-> IF i = 0 THEN envApps ELSE Override(f[i - 1], appRow[order[i]])]
    BY <2>1, Zenon
  <2>3. MergeAppConfigs(order) = f[Len(order)]
    BY Zenon DEF MergeAppConfigs
  <2> HIDE DEF f
  <2> QED
    BY <2>2, <2>3 DEF IsMerge
<1>2. /\ f[0] = envApps
      /\ \A i \in 1 .. Len(order) : f[i] = Override(f[i - 1], appRow[order[i]])
  <2>1. f = [i \in 0 .. Len(order) |-> IF i = 0 THEN envApps ELSE Override(f[i - 1], appRow[order[i]])]
    BY <1>1 DEF IsMerge
  <2>2. \A i \in 0 .. Len(order) : f[i] = IF i = 0 THEN envApps ELSE Override(f[i - 1], appRow[order[i]])
    BY <2>1
  <2> QED
    BY <2>2
<1> DEFINE Right(n) ==
      /\ f[n] \in Seq(Entry)
      /\ \A k : Uses(f[n], k) = IF \E i \in 1 .. n : order[i] = k THEN appRow[k] ELSE Uses(envApps, k)
      /\ \A i \in DOMAIN f[n] : Comes(f[n], i, order, n)
<1> DEFINE T == {n \in 0 .. Len(order) : ~Right(n)}
<1>3. T = {}
  <2> SUFFICES ASSUME T # {} PROVE FALSE
    OBVIOUS
  <2>1. PICK n \in T : \A l \in T : n <= l
    <3>1. T \in SUBSET Nat
      OBVIOUS
    <3> QED
      BY <3>1, SmallestNat
  <2>2. n \in 0 .. Len(order) /\ ~Right(n)
    OBVIOUS
  <2>3. CASE n = 0
    BY <1>2, <2>2, <2>3 DEF Comes
  <2>4. CASE n # 0
    <3>1. n - 1 \in 0 .. Len(order) /\ n - 1 \notin T /\ n \in 1 .. Len(order) /\ n \in DOMAIN order
      BY <2>1, <2>2, <2>4
    <3>2. Right(n - 1)
      BY <3>1
    <3> DEFINE entry == appRow[order[n]]
    <3>3. entry \in Entry /\ entry.key = order[n] /\ f[n] = Override(f[n - 1], entry)
      BY <1>2, <3>1
    <3> HIDE DEF entry
    <3>4. /\ f[n] \in Seq(Entry)
          /\ \A k : Uses(f[n], k) = IF k = entry.key THEN entry ELSE Uses(f[n - 1], k)
      <4>1. PICK list \in Seq(Entry) : list = f[n - 1]
        BY <3>2
      <4>2. /\ Override(list, entry) \in Seq(Entry)
            /\ \A k : Uses(Override(list, entry), k) = IF k = entry.key THEN entry ELSE Uses(list, k)
        BY <3>3, OverrideUses
      <4> QED
        BY <3>3, <4>1, <4>2
    <3>5. ASSUME NEW k
          PROVE  Uses(f[n], k) = IF \E i \in 1 .. n : order[i] = k THEN appRow[k] ELSE Uses(envApps, k)
      <4>1. CASE k = order[n]
        BY <3>1, <3>3, <3>4, <4>1 DEF entry
      <4>2. CASE k # order[n]
        <5>1. (\E i \in 1 .. n : order[i] = k) <=> (\E i \in 1 .. n - 1 : order[i] = k)
          BY <3>1, <4>2
        <5> QED
          BY <3>2, <3>3, <3>4, <4>2, <5>1
      <4> QED
        BY <4>1, <4>2
    <3>51. \A i \in DOMAIN f[n] : Comes(f[n], i, order, n)
      <4>1. PICK list \in Seq(Entry) : list = f[n - 1] /\ \A i \in DOMAIN list : Comes(list, i, order, n - 1)
        BY <3>2
      <4>2. n \in Nat \ {0} /\ entry = appRow[order[n]] /\ \A j \in 1 .. n : appRow[order[j]].key = order[j]
        BY <2>4, <3>1 DEF entry
      <4>3. \A i \in DOMAIN Override(list, entry) : Comes(Override(list, entry), i, order, n)
        BY <3>3, <4>1, <4>2, OverrideComes
      <4> QED
        BY <3>3, <4>1, <4>3
    <3>6. Right(n)
      BY <3>4, <3>5, <3>51
    <3> QED
      BY <2>2, <3>6
  <2> QED
    BY <2>3, <2>4
<1>4. Right(Len(order))
  <2>1. Len(order) \in 0 .. Len(order)
    OBVIOUS
  <2> QED
    BY <1>3, <2>1
<1>5. DOMAIN order = 1 .. Len(order)
  OBVIOUS
<1> QED
  BY <1>1, <1>4, <1>5

\* Every element of a finite set has a place in its sequence.
LEMMA OrderCovers ==
  ASSUME NEW S, IsFiniteSet(S)
  PROVE  SetToSeq(S) \in Seq(S) /\ \A k \in S : \E i \in DOMAIN SetToSeq(S) : SetToSeq(S)[i] = k
<1>1. PICK n \in Nat : n = Cardinality(S) /\ ExistsBijection(1 .. n, S)
  BY FS_CardinalityType
<1>2. PICK g \in Bijection(1 .. n, S) : TRUE
  BY <1>1 DEF ExistsBijection
<1>3. g \in [1 .. n -> S] /\ IsInjective(g)
  BY <1>2 DEF Bijection, Injection, Surjection
<1> DEFINE f == SetToSeq(S)
<1>4. f \in [1 .. n -> S] /\ IsInjective(f)
  BY <1>1, <1>3, Zenon DEF SetToSeq
<1> HIDE DEF f
<1>5. f \in Injection(1 .. n, S)
  BY <1>4 DEF Injection
<1>6. Cardinality(1 .. n) = n
  <2>1. 1 \in Int /\ n \in Int
    BY <1>1
  <2>2. Cardinality(1 .. n) = IF 1 > n THEN 0 ELSE n - 1 + 1
    BY <2>1, FS_Interval
  <2> QED
    BY <1>1, <2>2
<1>7. f \in Surjection(1 .. n, S)
  BY <1>1, <1>5, <1>6, FS_Injection
<1>8. \A k \in S : \E i \in 1 .. n : f[i] = k
  BY <1>7 DEF Surjection
<1>9. f \in Seq(S) /\ DOMAIN f = 1 .. n
  BY <1>1, <1>4
<1> QED
  BY <1>8, <1>9 DEF f

\* Rows that can be read as overrides, finitely many of them.
RowsCanBeRead(rows) ==
  /\ rows \in [Keys -> Row]
  /\ \A k \in Keys : rows[k].active => rows[k].key = k /\ rows[k].client \in Clients
  /\ IsFiniteSet({k \in Keys : rows[k].active})

AppsInv ==
  /\ envApps \in Seq(App)
  /\ RowsCanBeRead(appRow)
  /\ OverrideWins

LEMMA AppsStart == AppsInit => AppsInv
<1> SUFFICES ASSUME AppsInit PROVE AppsInv
  OBVIOUS
<1>1. envApps \in Seq(App)
  <2>1. PICK m \in 0 .. MaxEnvApps : envApps \in [1 .. m -> App]
    BY DEF AppsInit, BoundedSeq, SeqOf
  <2>2. m \in Nat
    BY ProviderAppsAssumption
  <2> QED
    BY <2>1, <2>2
<1>2. RowsCanBeRead(appRow)
  <2>1. NoAppRow \in Row
    BY DEF NoAppRow, Keys, Row
  <2>2. \A k \in Keys : appRow[k] = NoAppRow /\ ~appRow[k].active
    BY DEF AppsInit, NoRows, NoAppRow
  <2>3. {k \in Keys : appRow[k].active} = {}
    BY <2>2
  <2>4. IsFiniteSet({k \in Keys : appRow[k].active})
    BY <2>3, FS_EmptySet
  <2> QED
    BY <2>1, <2>2, <2>4 DEF RowsCanBeRead, AppsInit, NoRows
<1> QED
  BY <1>1, <1>2 DEF AppsInv, AppsInit, OverrideWins

\* A change of one row.
LEMMA RowChanges ==
  ASSUME RowsCanBeRead(appRow), NEW k \in Keys,
         NEW r \in Row, r.active => r.key = k /\ r.client \in Clients, appRow' = [appRow EXCEPT ![k] = r]
  PROVE  RowsCanBeRead(appRow')
<1>1. /\ \A l \in Keys : appRow'[l] = IF l = k THEN r ELSE appRow[l]
      /\ appRow' \in [Keys -> Row]
  BY DEF RowsCanBeRead
<1>2. IsFiniteSet({l \in Keys : appRow[l].active} \cup {k})
  BY FS_AddElement DEF RowsCanBeRead
<1>3. {l \in Keys : appRow'[l].active} \in SUBSET ({l \in Keys : appRow[l].active} \cup {k})
  BY <1>1
<1>4. IsFiniteSet({l \in Keys : appRow'[l].active})
  BY <1>2, <1>3, FS_Subset
<1> QED
  BY <1>1, <1>4 DEF RowsCanBeRead

\* The server starts with the rows there are.
LEMMA StartServerWins == ASSUME AppsInv, StartServer PROVE OverrideWins'
<1>1. CASE server' = "failed"
  BY <1>1 DEF OverrideWins
<1>2. CASE /\ server' = "up" /\ adapters' = Adapters(Merged)
           /\ booted' = [k \in Keys |-> IF appRow[k].active THEN appRow[k] ELSE NoAppRow]
  <2>1. IsFiniteSet(ActiveRows) /\ ActiveRows \subseteq Keys
    BY DEF ActiveRows, AppsInv, RowsCanBeRead
  <2> DEFINE order == SetToSeq(ActiveRows)
  <2>2. order \in Seq(ActiveRows) /\ \A k \in ActiveRows : \E i \in DOMAIN order : order[i] = k
    BY <2>1, OrderCovers
  <2> HIDE DEF order
  <2>3. order \in Seq(Keys) /\ \A i \in DOMAIN order : order[i] \in ActiveRows
    BY <2>1, <2>2
  <2>4. \A i \in DOMAIN order : appRow[order[i]] \in Entry /\ appRow[order[i]].key = order[i]
    BY <2>3 DEF ActiveRows, AppsInv, RowsCanBeRead, Entry
  <2>5. envApps \in Seq(Entry) /\ envApps' = envApps
    BY DEF AppsInv, Entry, App, StartServer
  <2>6. PICK list \in Seq(Entry) :
          /\ list = Merged
          /\ \A k : Uses(list, k) = IF \E i \in DOMAIN order : order[i] = k THEN appRow[k] ELSE Uses(envApps, k)
          /\ \A i \in DOMAIN list : Comes(list, i, order, Len(order))
    BY <2>3, <2>4, <2>5, MergeUses DEF Merged, order
  <2>7. \A k \in Keys : appRow[k].active <=> \E i \in DOMAIN order : order[i] = k
    BY <2>2, <2>3 DEF ActiveRows
  <2>71. \A k \in Keys :
           /\ appRow[k].active =>
                booted'[k] = appRow[k] /\ booted'[k].active /\ appRow[k].client \in Clients
           /\ ~appRow[k].active => ~booted'[k].active
    BY <1>2 DEF NoAppRow, AppsInv, RowsCanBeRead
  <2>8. \A k \in Keys \cup AppNames : adapters'[k] =
          IF FoundAt(list, k) = {} THEN NoClient ELSE list[Max(FoundAt(list, k))].client
    BY <1>2, <2>6 DEF Adapters
  <2>9. \A i \in DOMAIN list : /\ list[i].key \in Keys /\ list[i].client \in Clients
                              /\ list[i].name \in AppNames \cup {NoAppName}
    BY DEF Entry, App, Row
  <2>10. \A k \in Keys : HasApp(k)' <=> Places(list, k) # {}
    <3> SUFFICES ASSUME NEW k \in Keys PROVE HasApp(k)' <=> Places(list, k) # {}
      OBVIOUS
    <3>1. CASE appRow[k].active
      <4>1. Uses(list, k) = appRow[k]
        BY <2>6, <2>7, <3>1
      <4>2. Uses(list, k).client # NoClient
        BY <2>71, <3>1, <4>1, ProviderAppsAssumption
      <4>3. Places(list, k) # {}
        BY <4>2 DEF Uses, NoAppRow
      <4> QED
        BY <2>71, <3>1, <4>3 DEF HasApp
    <3>2. CASE ~appRow[k].active
      <4>1. Uses(list, k) = Uses(envApps, k)
        BY <2>6, <2>7, <3>2
      <4>2. Uses(list, k).client # NoClient <=> Places(list, k) # {}
        <5>1. Places(list, k) # {} => Uses(list, k).client \in Clients
          BY <2>9, LastPlace DEF Uses, Places
        <5> QED
          BY <5>1, ProviderAppsAssumption DEF Uses, NoAppRow
      <4>3. Uses(envApps, k).client # NoClient <=> Places(envApps, k) # {}
        <5>1. ASSUME Places(envApps, k) # {} PROVE Uses(envApps, k).client \in Clients
          <6>1. Max(Places(envApps, k)) \in DOMAIN envApps
            BY <2>5, <5>1, LastPlace DEF Places
          <6> QED
            BY <2>5, <5>1, <6>1 DEF Uses, Entry
        <5> QED
          BY <5>1, ProviderAppsAssumption DEF Uses, NoAppRow
      <4>4. Places(envApps, k)' = Places(envApps, k)
        BY <2>5 DEF Places
      <4> QED
        BY <2>71, <3>2, <4>1, <4>2, <4>3, <4>4 DEF HasApp
    <3> QED
      BY <3>1, <3>2
  <2>11. \A k \in Keys : HasApp(k)' => InForce(k)' = Uses(list, k)
    <3> SUFFICES ASSUME NEW k \in Keys, HasApp(k)' PROVE InForce(k)' = Uses(list, k)
      OBVIOUS
    <3>1. Uses(list, k) = IF appRow[k].active THEN appRow[k] ELSE Uses(envApps, k)
      BY <2>6, <2>7
    <3>2. Places(envApps, k)' = Places(envApps, k)
      BY <2>5 DEF Places
    <3>3. CASE appRow[k].active
      BY <2>71, <3>1, <3>3 DEF InForce
    <3>4. CASE ~appRow[k].active
      <4>1. ~booted'[k].active /\ Places(envApps, k) # {}
        BY <2>71, <3>2, <3>4 DEF HasApp
      <4>2. InForce(k)' = envApps[Max(Places(envApps, k))]
        BY <2>5, <3>2, <4>1 DEF InForce
      <4> QED
        BY <3>1, <3>4, <4>1, <4>2 DEF Uses
    <3> QED
      BY <3>3, <3>4
  <2>12. \A k \in Keys : FoundAt(list, k) = Places(list, k)
    BY <2>9, ProviderAppsAssumption DEF FoundAt, Places, AdapterKeys, Keys
  <2>13. ASSUME NEW k \in Keys PROVE adapters'[k] = IF HasApp(k)' THEN InForce(k)'.client ELSE NoClient
    BY <2>8, <2>10, <2>11, <2>12 DEF Uses
  <2>14. ASSUME NEW n, FoundAt(list, n) # {}
         PROVE  Max(FoundAt(list, n)) \in DOMAIN list /\ n \in AdapterKeys(list[Max(FoundAt(list, n))])
    <3>1. FoundAt(list, n) \in SUBSET (1 .. Len(list)) /\ Len(list) \in Nat
      BY DEF FoundAt
    <3>2. Max(FoundAt(list, n)) \in FoundAt(list, n)
      BY <2>14, <3>1, LastOf
    <3> QED
      BY <3>2 DEF FoundAt
  <2>15. ASSUME NEW k \in Keys, HasApp(k)', NEW n \in AdapterKeys(InForce(k)') PROVE adapters'[n] # NoClient
    <3>1. PICK i \in DOMAIN list : list[i] = InForce(k)'
      BY <2>10, <2>11, <2>15, LastPlace DEF Uses, Places
    <3>2. n \in Keys \cup AppNames /\ FoundAt(list, n) # {}
      BY <2>9, <2>15, <3>1 DEF AdapterKeys, FoundAt
    <3> QED
      BY <2>8, <2>9, <2>14, <3>2, ProviderAppsAssumption
  <2>16. ASSUME NEW n \in AppNames, adapters'[n] # NoClient
         PROVE  \/ \E k \in Keys : HasApp(k)' /\ InForce(k)'.name = n /\ InForce(k)'.client = adapters'[n]
                \/ \E i \in DOMAIN envApps' :
                     Superseded(i)' /\ envApps'[i].name = n /\ envApps'[i].client = adapters'[n]
    <3>1. PICK m \in DOMAIN list : n \in AdapterKeys(list[m]) /\ adapters'[n] = list[m].client
      BY <2>8, <2>14, <2>16
    <3>2. list[m].name = n
      BY <2>9, <3>1, ProviderAppsAssumption DEF AdapterKeys, Keys
    <3>3. CASE \E j \in 1 .. Len(order) : list[m] = appRow[order[j]]
      <4>1. PICK k \in Keys : appRow[k].active /\ list[m] = appRow[k]
        BY <2>1, <2>3, <3>3 DEF ActiveRows
      <4>2. HasApp(k)' /\ InForce(k)' = list[m]
        BY <2>71, <4>1 DEF HasApp, InForce
      <4> QED
        BY <3>1, <3>2, <4>2
    <3>4. CASE /\ m \in DOMAIN envApps /\ list[m] = envApps[m]
               /\ ~Superseded(m) => \A j \in 1 .. Len(order) : order[j] # envApps[m].key
      <4>1. CASE Superseded(m)
        BY <2>5, <3>1, <3>2, <3>4, <4>1 DEF Superseded, Places
      <4>2. CASE ~Superseded(m)
        <5>1. PICK k \in Keys : k = envApps[m].key
          BY <2>9, <3>4
        <5>2. ~appRow[k].active /\ ~booted'[k].active
          <6>1. DOMAIN order = 1 .. Len(order)
            BY <2>3
          <6> QED
            BY <2>7, <2>71, <3>4, <4>2, <5>1, <6>1
        <5>3. m \in Places(envApps, k) /\ m = Max(Places(envApps, k))
          BY <3>4, <4>2, <5>1 DEF Places, Superseded
        <5>4. HasApp(k)' /\ InForce(k)' = list[m]
          BY <2>5, <3>4, <5>2, <5>3 DEF HasApp, InForce, Places
        <5> QED
          BY <3>1, <3>2, <5>4
      <4> QED
        BY <4>1, <4>2
    <3> QED
      BY <2>6, <3>3, <3>4 DEF Comes
  <2> QED
    BY <2>13, <2>15, <2>16 DEF OverrideWins, AdapterKeys
<1> QED
  BY <1>1, <1>2 DEF StartServer

LEMMA WinsStays ==
  ASSUME OverrideWins, UNCHANGED <<envApps, booted, adapters, server>> PROVE OverrideWins'
<1>1. /\ \A k : HasApp(k)' = HasApp(k) /\ InForce(k)' = InForce(k)
      /\ \A i : Superseded(i)' = Superseded(i)
  BY DEF HasApp, InForce, Superseded, Places
<1> QED
  BY <1>1 DEF OverrideWins, AdapterKeys

LEMMA StepApps == ASSUME AppsInv, [AppsNext]_appVars PROVE AppsInv'
<1>1. CASE StartServer
  <2>1. envApps' = envApps /\ appRow' = appRow
    BY <1>1 DEF StartServer
  <2> QED
    BY <1>1, <2>1, StartServerWins DEF AppsInv
<1>2. CASE StopServer
  BY <1>2 DEF StopServer, AppsInv, OverrideWins
<1>3. CASE SaveApp
  <2>1. /\ UNCHANGED <<envApps, booted, adapters, server>>
        /\ \E k \in Keys, n \in AppNames \cup {NoAppName}, c \in Clients, given, active \in BOOLEAN :
             /\ k = OtherProvider => given /\ n = NoAppName
             /\ appRow' = [appRow EXCEPT ![k] = [key |-> k, name |-> n, client |-> c,
                                                 secret |-> given \/ appRow[k].secret, active |-> active]]
    BY <1>3, Zenon DEF SaveApp
  <2>2. PICK k \in Keys, n \in AppNames \cup {NoAppName}, c \in Clients,
             given \in BOOLEAN, active \in BOOLEAN :
          /\ k = OtherProvider => given /\ n = NoAppName
          /\ appRow' = [appRow EXCEPT ![k] = [key |-> k, name |-> n, client |-> c,
                                              secret |-> given \/ appRow[k].secret, active |-> active]]
    BY <2>1, Zenon
  <2> DEFINE r == [key |-> k, name |-> n, client |-> c,
                   secret |-> given \/ appRow[k].secret, active |-> active]
  <2>3. r.key = k /\ r.client \in Clients /\ r \in Row
    <3>1. (given \/ appRow[k].secret) \in BOOLEAN
      OBVIOUS
    <3> QED
      BY <3>1 DEF Row
  <2>4. appRow' = [appRow EXCEPT ![k] = r]
    BY <2>2
  <2> HIDE DEF r
  <2>5. RowsCanBeRead(appRow')
    BY <2>3, <2>4, RowChanges DEF AppsInv
  <2> QED
    BY <2>1, <2>5, WinsStays DEF AppsInv
<1>4. CASE DeleteApp
  <2>1. /\ UNCHANGED <<envApps, booted, adapters, server>>
        /\ \E k \in Keys : appRow' = [appRow EXCEPT ![k] = NoAppRow]
    BY <1>4 DEF DeleteApp
  <2>2. NoAppRow \in Row /\ ~NoAppRow.active
    BY DEF NoAppRow, Keys, Row
  <2>3. RowsCanBeRead(appRow')
    BY <2>1, <2>2, RowChanges DEF AppsInv
  <2> QED
    BY <2>1, <2>3, WinsStays DEF AppsInv
<1>5. CASE UNCHANGED appVars
  BY <1>5, WinsStays DEF appVars, AppsInv
<1> QED
  BY <1>1, <1>2, <1>3, <1>4, <1>5 DEF AppsNext

\* A running server uses for every provider and instance the row that was active
\* at its start, and else the last entry of the environment, and under a name
\* the client of such an app (or of an earlier entry of an instance listed
\* twice), for any entries, any rows and any order in which they are read
\* (MergeAppConfigs and BuildAdapterRegistry).
THEOREM OverrideWinsHolds == PlatformsSpec => []OverrideWins
<1>1. ASSUME [PlatformsNext]_platformsVars PROVE [AppsNext]_appVars
  BY <1>1 DEF PlatformsNext, Connecting, Posting, platformsVars, providerVars
<1>2. PlatformsInit => AppsInv
  BY AppsStart DEF PlatformsInit
<1>3. AppsInv /\ [PlatformsNext]_platformsVars => AppsInv'
  BY <1>1, StepApps
<1>4. AppsInv => OverrideWins
  BY DEF AppsInv
<1> QED
  BY <1>2, <1>3, <1>4, PTL DEF PlatformsSpec, PlatformsSafety
=============================================================================
