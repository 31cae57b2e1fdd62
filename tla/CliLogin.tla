------------------------------ MODULE CliLogin ------------------------------
(* The device login of the command line: "openpost auth login" starts a     *)
(* session on the server (services/cli_auth), the user approves or denies   *)
(* it in a browser, and the command polls until it gets a token, which it   *)
(* stores in the keyring or in a file before it writes the profile.  Every  *)
(* statement of a handler is a step: browsers and a poll may interleave,    *)
(* handlers may die, and an answer may never arrive.                        *)
EXTENDS ApiTokens

CONSTANTS
  Logins,     \* runs of "openpost auth login" of one profile, one at a time
  NoLogin,
  Browsers    \* requests of the authorization page that may overlap

ASSUME LoginsAssumption == NoLogin \notin Logins /\ Logins \cap Tokens = {}

VARIABLES
  session,    \* the row of cli_auth_sessions of each login
  decision,   \* what each browser request is doing
  poll,       \* the poll handler of each login
  cli,        \* the command the user is running
  profile     \* what the user's machine has stored

loginVars == <<session, decision, poll, cli, profile>>

-----------------------------------------------------------------------------
(* The session row *)

NoSession == [status |-> "none", due |-> FALSE, approvedAt |-> FALSE]

\* sessionByCode; an unknown code is 404.
Known(c) == session[c].status # "none"

\* Mutant: the UPDATE does not repeat the status.
MovedUnchecked(c, from, to) ==
  session' = [session EXCEPT ![c].status = to, ![c].approvedAt = @ \/ to = "approved"]

\* UPDATE ... SET status WHERE id = ? AND status = ?; nobody counts the rows.
Moved(c, from, to) ==
  session' = IF session[c].status = from
             THEN [session EXCEPT ![c].status = to,
                                  ![c].approvedAt = @ \/ to = "approved"]
             ELSE session

\* expireIfNeeded looks at the row that was read.
Expires(c, seen) == seen = "pending" /\ session[c].due

Expired(c) == Moved(c, "pending", "expired")

\* expires_at passes.
Deadline(c) ==
  /\ Known(c) /\ ~session[c].due
  /\ session' = [session EXCEPT ![c].due = TRUE]
  /\ UNCHANGED <<decision, poll, cli, profile, apiToken>>

-----------------------------------------------------------------------------
(* The authorization page *)

NoDecision == [pc |-> "idle", op |-> "none", login |-> NoLogin, seen |-> "none"]

\* Any bearer AuthMiddleware lets through may look, approve or deny, an API
\* token of one workspace too: none of the three asks WorkspaceScopeAllows.
OpenDecision(b, r) ==
  /\ Served(r)
  /\ decision[b].pc = "idle"
  /\ \E c \in Logins, op \in {"look", "approve", "deny"} :
       /\ Known(c)
       /\ decision' = [decision EXCEPT ![b] =
                         [pc |-> "read", op |-> op, login |-> c, seen |-> session[c].status]]
  /\ UNCHANGED <<session, poll, cli, profile, apiToken>>

\* What ApproveSession, DenySession and GetPendingByUserCode write.
Decided(op, c, seen) ==
  IF Expires(c, seen) THEN Expired(c)
  ELSE CASE op = "approve" /\ seen = "pending" -> Moved(c, "pending", "approved")
         [] op = "deny" /\ seen = "pending"    -> Moved(c, "pending", "denied")
         [] OTHER                              -> UNCHANGED session

Decide(b) ==
  /\ decision[b].pc = "read"
  /\ Decided(decision[b].op, decision[b].login, decision[b].seen)
  /\ decision' = [decision EXCEPT ![b] = NoDecision]
  /\ UNCHANGED <<poll, cli, profile, apiToken>>

-----------------------------------------------------------------------------
(* PollSession *)

NoPoll == [pc |-> "idle", seen |-> "none", answer |-> "none"]

PollAt(c, pc, answer) == poll' = [poll EXCEPT ![c].pc = pc, ![c].answer = answer]

\* The session was read: it expires, is reported, or goes on to be consumed.
HandlePoll(c) ==
  /\ poll[c].pc = "read"
  /\ IF Expires(c, poll[c].seen)
     THEN Expired(c) /\ PollAt(c, "reply", "expired")
     ELSE /\ UNCHANGED session
          /\ IF poll[c].seen = "approved" THEN PollAt(c, "mint", "none")
                                          ELSE PollAt(c, "reply", poll[c].seen)
  /\ UNCHANGED <<decision, cli, profile, apiToken>>

\* consumeApprovedSession mints the token first ...
MintForLogin(c) ==
  /\ poll[c].pc = "mint"
  /\ Generated(NoSpace, c)
  /\ PollAt(c, "consume", "none")
  /\ UNCHANGED <<session, decision, cli, profile>>

\* ... and then closes the session.
ConsumeSession(c) ==
  /\ poll[c].pc = "consume"
  /\ Moved(c, "approved", "expired")
  /\ PollAt(c, "reply", "approved")
  /\ UNCHANGED <<decision, cli, profile, apiToken>>

\* A statement fails or the limiter refuses: the client hears of an error.
PollError(c) ==
  /\ poll[c].pc \in {"read", "mint", "consume"}
  /\ PollAt(c, "reply", "error")
  /\ UNCHANGED <<session, decision, cli, profile, apiToken>>

\* The server stops: nobody answers.
PollDies(c) ==
  /\ poll[c].pc # "idle"
  /\ poll' = [poll EXCEPT ![c] = NoPoll]
  /\ UNCHANGED <<session, decision, cli, profile, apiToken>>

-----------------------------------------------------------------------------
(* The command.  "meant" is what the last command that succeeded was to     *)
(* leave behind; "torn" says a command stopped between two of its writes.   *)

Idle == [pc |-> "idle", login |-> NoLogin]

Ended == cli' = Idle

\* StartCLIAuth and StartSession.
StartLogin(c) ==
  /\ cli.pc = "idle" /\ ~Known(c)
  /\ session' = [session EXCEPT ![c].status = "pending"]
  /\ cli' = [pc |-> "waiting", login |-> c]
  /\ UNCHANGED <<decision, poll, profile, apiToken>>

\* The top of the loop of runDeviceLogin.
CheckDeadline(c) ==
  /\ cli = [pc |-> "waiting", login |-> c]
  /\ IF session[c].due THEN Ended ELSE cli' = [cli EXCEPT !.pc = "sleeping"]
  /\ UNCHANGED <<session, decision, poll, profile, apiToken>>

\* PollCLIAuth sends the poll, whose handler reads the session.
SendPoll(c) ==
  /\ cli = [pc |-> "sleeping", login |-> c]
  /\ poll[c].pc = "idle"
  /\ cli' = [cli EXCEPT !.pc = "asking"]
  /\ poll' = [poll EXCEPT ![c] = [NoPoll EXCEPT !.pc = "read", !.seen = session[c].status]]
  /\ UNCHANGED <<session, decision, profile, apiToken>>

\* Mutant: the loop also continues after an error.
AfterAnswerRetries(answer) ==
  CASE answer \in {"pending", "error"} -> cli' = [cli EXCEPT !.pc = "waiting"]
    [] answer = "approved"             -> cli' = [cli EXCEPT !.pc = "storing"]
    [] OTHER                           -> Ended

\* The switch of runDeviceLogin: any answer but "pending" ends the loop.
AfterAnswer(answer) ==
  CASE answer = "pending"  -> cli' = [cli EXCEPT !.pc = "waiting"]
    [] answer = "approved" -> cli' = [cli EXCEPT !.pc = "storing"]
    [] OTHER               -> Ended

ReceiveAnswer(c) ==
  /\ poll[c].pc = "reply"
  /\ IF cli = [pc |-> "asking", login |-> c] THEN AfterAnswer(poll[c].answer)
                                             ELSE UNCHANGED cli
  /\ poll' = [poll EXCEPT ![c] = NoPoll]
  /\ UNCHANGED <<session, decision, profile, apiToken>>

\* Mutant: the HTTP client has no timeout.
ClientWaits(c) ==
  cli = [pc |-> "asking", login |-> c] /\ UNCHANGED <<loginVars, apiToken>>

\* The HTTP client waits 60 seconds.
ClientTimeout(c) ==
  /\ cli = [pc |-> "asking", login |-> c]
  /\ Ended
  /\ UNCHANGED <<session, decision, poll, profile, apiToken>>

\* Mutant: the keyring unless the flag asks for the file.
StoreAsAsked(insecure) == IF insecure THEN "file" ELSE "keyring"

\* NewStore prefers the file when it already has a token of the profile.
StoreOf(insecure) == IF insecure \/ profile.file # NoLogin THEN "file" ELSE "keyring"

\* store.Set; the keyring may refuse.
StoreToken ==
  /\ cli.pc = "storing"
  /\ \/ \E insecure \in BOOLEAN :
          /\ profile' = [profile EXCEPT ![StoreOf(insecure)] = cli.login]
          /\ cli' = [cli EXCEPT !.pc = "naming"]
     \/ profile.file = NoLogin /\ Ended /\ UNCHANGED profile
  /\ UNCHANGED <<session, decision, poll, apiToken>>

\* updateProfile.
NameInstance ==
  /\ cli.pc = "naming"
  /\ profile' = [profile EXCEPT !.instance = cli.login, !.meant = cli.login, !.torn = FALSE]
  /\ Ended
  /\ UNCHANGED <<session, decision, poll, apiToken>>

\* "auth logout" empties the keyring, and stops if that fails ...
LogoutKeyring ==
  /\ cli.pc = "idle"
  /\ profile' = [profile EXCEPT !.keyring = NoLogin]
  /\ cli' = [cli EXCEPT !.pc = "forgetting"]
  /\ UNCHANGED <<session, decision, poll, apiToken>>

\* ... and then the file.
LogoutFile ==
  /\ cli.pc = "forgetting"
  /\ profile' = [profile EXCEPT !.file = NoLogin, !.meant = NoLogin, !.torn = FALSE]
  /\ Ended
  /\ UNCHANGED <<session, decision, poll, apiToken>>

\* The command is interrupted between its two writes.
Interrupt ==
  /\ cli.pc \in {"naming", "forgetting"}
  /\ profile' = [profile EXCEPT !.torn = TRUE]
  /\ Ended
  /\ UNCHANGED <<session, decision, poll, apiToken>>

-----------------------------------------------------------------------------
LoginInit ==
  /\ session = [c \in Logins |-> NoSession]
  /\ decision = [b \in Browsers |-> NoDecision]
  /\ poll = [c \in Logins |-> NoPoll]
  /\ cli = Idle
  /\ profile = [keyring |-> NoLogin, file |-> NoLogin, instance |-> NoLogin,
                meant |-> NoLogin, torn |-> FALSE]

HandlerStep(c) == HandlePoll(c) \/ MintForLogin(c) \/ ConsumeSession(c)

CommandStep ==
  \/ \E c \in Logins : CheckDeadline(c) \/ SendPoll(c)
  \/ StoreToken \/ NameInstance \/ LogoutFile

LoginNext ==
  \/ \E b \in Browsers, r \in Requests : OpenDecision(b, r)
  \/ /\ UNCHANGED bearer
     /\ \/ \E c \in Logins : Deadline(c) \/ HandlerStep(c) \/ PollError(c) \/ PollDies(c)
                               \/ StartLogin(c) \/ ReceiveAnswer(c) \/ ClientTimeout(c)
        \/ \E b \in Browsers : Decide(b)
        \/ CommandStep \/ LogoutKeyring \/ Interrupt

-----------------------------------------------------------------------------
(* Properties *)

LoginStep(A) == A /\ UNCHANGED bearer

\* The command runs, sleeps and times out; the server answers if it lives;
\* the clock goes on.  Nothing is assumed of the user in the browser.
LoginFairness ==
  /\ WF_<<loginVars, tokenVars>>(LoginStep(CommandStep))
  /\ \A c \in Logins :
       /\ WF_<<loginVars, tokenVars>>(LoginStep(Deadline(c)))
       /\ WF_<<loginVars, tokenVars>>(LoginStep(HandlerStep(c)))
       /\ WF_<<loginVars, tokenVars>>(LoginStep(ReceiveAnswer(c)))
       /\ WF_<<loginVars, tokenVars>>(LoginStep(ClientTimeout(c)))

\* The decision of the user, and the end of a session, are final: two browsers
\* that both saw a pending session cannot overrule one another.
DecisionIsFinal ==
  [][\A c \in Logins :
       /\ session[c].status \in {"denied", "expired"} => session'[c].status = session[c].status
       /\ session[c].status = "approved" => session'[c].status \in {"approved", "expired"}]_session

\* One login buys one token at most, and only after it was approved: the
\* session is consumed after the token is minted, and what keeps the next poll
\* from minting again is that the command stops at the first error.
LoginIsOneShot ==
  INSTANCE OneShot WITH Tickets <- Logins,
    granted <- {c \in Logins : session[c].approvedAt},
    spent <- [c \in Logins |-> Cardinality(MintedFor(c))]

LoginImplementsOneShot == LoginIsOneShot!OneShotSpec

\* The token the commands use, as clientFrom resolves it.
InUse == IF profile.file # NoLogin THEN profile.file ELSE profile.keyring

\* After a command, unless one stopped between two writes: the token in use is
\* that of the last login, it goes to the instance of that login, and after a
\* logout there is none.
StoreIsWhatWasMeant ==
  (cli.pc \notin {"naming", "forgetting"} /\ ~profile.torn)
    => /\ InUse = profile.meant
       /\ InUse # NoLogin => profile.instance = InUse

\* A login command ends, whatever the server and the user do.
LoginEnds == \A c \in Logins : (cli.login = c) ~> (cli.login # c)
=============================================================================
