------------------------------- MODULE SignIn -------------------------------
(* Registration, login with a second factor, and web sessions               *)
(* (handlers/auth.go, services/mfa, services/sessions).  Registration is    *)
(* modelled for several emails; the rest for one account whose password the *)
(* caller knows.  A handler is a run of statements on the database: it reads*)
(* and decides, then writes what is left in its "todo", one statement at a  *)
(* time, and statements of other requests fall in between.  A statement     *)
(* that fails ends the handler and leaves what was written before it.       *)
EXTENDS Naturals, FiniteSets, Sequences

CONSTANTS
  Emails,
  Challenges,            \* identifiers of rows of auth_challenges
  NoChallenge,           \* not a challenge: a password alone
  WebSessions,           \* identifiers of rows of user_sessions
  Calls,                 \* requests that are served at the same time
  Serializable           \* transactions are serialized (SQLite) or not

ASSUME SignInAssumption ==
  /\ NoChallenge \notin Challenges
  /\ Serializable \in BOOLEAN

VARIABLES
  registrationsDisabled,  \* configuration of the instance, never written
  user,        \* the row of users of each email: "none", "member", "admin"
  totp,        \* the account's authenticator secret, named by its setup
  passkeys,    \* the account's passkeys, named by their setup
  scanned,     \* secrets the user has in an authenticator app
  challenge,   \* rows of auth_challenges
  web,         \* rows of user_sessions
  call         \* what each request being served knows

accountVars == <<totp, passkeys, scanned, challenge, web>>
signInVars == <<registrationsDisabled, user, accountVars, call>>

-----------------------------------------------------------------------------
(* Rows *)

NoRow == [type |-> "none", due |-> FALSE]
NoWeb == [state |-> "none", lapsed |-> FALSE, used |-> FALSE, by |-> NoChallenge]
NoCall == [op |-> "idle", about |-> NoChallenge, row |-> NoWeb,
           email |-> "", saw |-> <<>>, todo |-> <<>>]

SignInInit ==
  /\ registrationsDisabled \in BOOLEAN
  /\ user = [e \in Emails |-> "none"]
  /\ totp = NoChallenge /\ passkeys = {} /\ scanned = {}
  /\ challenge = [k \in Challenges |-> NoRow]
  /\ web = [s \in WebSessions |-> NoWeb]
  /\ call = [r \in Calls |-> NoCall]

Begin(r, next) == call[r].op = "idle" /\ call' = [call EXCEPT ![r] = next]
Continue(r, op, next) == call[r].op = op /\ call' = [call EXCEPT ![r] = next]

\* The writes a handler still has to make, about a challenge.
Writes(about, todo) ==
  [NoCall EXCEPT !.op = IF todo = <<>> THEN "idle" ELSE "writing",
                 !.about = about, !.todo = todo]

-----------------------------------------------------------------------------
(* Registration *)

Registered == {e \in Emails : user[e] # "none"}

\* registerUser, the reads of its transaction.
ReadUsers(r) ==
  /\ \E e \in Emails :
       /\ ~(registrationsDisabled /\ Registered # {})
       /\ user[e] = "none"
       /\ Begin(r, [NoCall EXCEPT !.op = "registering", !.email = e, !.saw = <<Registered>>])
  /\ UNCHANGED <<user, accountVars>>

\* Mutant: the transaction commits whatever it has read.
CommitsAnyway(r) == user[call[r].email] = "none"

\* The insert commits: the email is unique, and a serialized transaction
\* fails when another one wrote what it has read.
MayCommit(r) ==
  /\ user[call[r].email] = "none"
  /\ Serializable => call[r].saw = <<Registered>>

InsertUser(r) ==
  /\ Continue(r, "registering", NoCall)
  /\ MayCommit(r)
  /\ user' = [user EXCEPT ![call[r].email] =
                IF call[r].saw = <<{}>> THEN "admin" ELSE "member"]
  /\ UNCHANGED accountVars

RegistrationFails(r) ==
  Continue(r, "registering", NoCall) /\ UNCHANGED <<user, accountVars>>

RegisterNext ==
  /\ UNCHANGED registrationsDisabled
  /\ \E r \in Calls : ReadUsers(r) \/ InsertUser(r) \/ RegistrationFails(r)

-----------------------------------------------------------------------------
(* Challenges *)

\* createChallenge inserts a row with a fresh identifier.
NewChallenge == {k \in Challenges : challenge[k].type = "none"}
FreshChallenge == CHOOSE k \in Challenges : k \in NewChallenge

Created(type) ==
  /\ NewChallenge # {}
  /\ challenge' = [challenge EXCEPT ![FreshChallenge].type = type]

\* deleteChallenge does not look at the number of rows.
Deleted(k) == challenge' = [challenge EXCEPT ![k].type = "gone"]

\* The handler that answers a challenge of each type, after it was read.
Answers == [login |-> "verifyTOTP", passkeyLogin |-> "finishPasskeyLogin",
            totpSetup |-> "confirmTOTP", passkeySetup |-> "finishPasskey"]

\* getChallenge: a challenge that is due is deleted and the request refused.
GetChallenge(r) ==
  /\ \E k \in Challenges :
       /\ challenge[k].type \in DOMAIN Answers
       /\ \/ ~challenge[k].due /\ UNCHANGED challenge
             /\ \E op \in {Answers[challenge[k].type]} \cup
                          (IF challenge[k].type = "login" THEN {"beginPasskeyLogin"} ELSE {}) :
                  Begin(r, [NoCall EXCEPT !.op = op, !.about = k])
          \/ challenge[k].due /\ Deleted(k) /\ Begin(r, NoCall)
  /\ UNCHANGED <<user, totp, passkeys, scanned, web>>

FallDue(k) ==
  /\ challenge[k].type \in DOMAIN Answers /\ ~challenge[k].due
  /\ challenge' = [challenge EXCEPT ![k].due = TRUE]
  /\ UNCHANGED <<user, totp, passkeys, scanned, web, call>>

-----------------------------------------------------------------------------
(* Handlers: what they read and what they decide to write *)

Reads == UNCHANGED <<user, accountVars>>

\* Login reads the user and then counts the passkeys (enabledMFAMethods).
Login(r) ==
  Reads /\ Begin(r, [NoCall EXCEPT !.op = "methods", !.saw = <<totp>>])

EnabledMFAMethods(r) ==
  /\ Continue(r, "methods",
       Writes(NoChallenge, IF call[r].saw = <<NoChallenge>> /\ passkeys = {}
                           THEN <<"issue">> ELSE <<"login">>))
  /\ Reads

\* Mutant: the session is issued before its challenge is deleted.
IssueThenConsume == <<"issue", "consume">>

\* A verified challenge is deleted, and then the session is issued.
ConsumeThenIssue == <<"consume", "issue">>

\* The code is one of an app that holds the account's secret.
VerifyTOTPLogin(r) ==
  /\ totp # NoChallenge /\ totp \in scanned
  /\ Continue(r, "verifyTOTP", Writes(call[r].about, ConsumeThenIssue))
  /\ Reads

BeginPasskeyLogin(r) ==
  /\ passkeys # {}
  /\ Continue(r, "beginPasskeyLogin", Writes(NoChallenge, <<"passkeyLogin">>))
  /\ Reads

FinishPasskeyLogin(r) ==
  /\ passkeys # {}
  /\ Continue(r, "finishPasskeyLogin", Writes(call[r].about, ConsumeThenIssue))
  /\ Reads

\* Mutant: the secret is stored with the account when the setup begins.
StoreAtOnce == <<"totpSetup", "totp">>

\* The secret waits in the challenge until a code made with it is shown.
StoreInChallenge == <<"totpSetup">>

BeginTOTPSetup(r) ==
  /\ totp = NoChallenge
  /\ NewChallenge # {}
  /\ Begin(r, Writes(FreshChallenge, StoreInChallenge))
  /\ Reads

ConfirmTOTPSetup(r) ==
  /\ call[r].about \in scanned
  /\ Continue(r, "confirmTOTP", Writes(call[r].about, <<"totp", "consume">>))
  /\ Reads

DisableTOTP(r) == Reads /\ Begin(r, Writes(NoChallenge, <<"totpOff">>))

BeginPasskeyRegistration(r) == Reads /\ Begin(r, Writes(NoChallenge, <<"passkeySetup">>))

FinishPasskeyRegistration(r) ==
  /\ Continue(r, "finishPasskey", Writes(call[r].about, <<"passkey", "consume">>))
  /\ Reads

\* RemovePasskey: one conditional DELETE.
RemovePasskey(r) ==
  /\ \E p \in passkeys : passkeys' = passkeys \ {p}
  /\ call[r].op = "idle"
  /\ UNCHANGED <<user, totp, scanned, challenge, web, call>>

-----------------------------------------------------------------------------
(* Statements *)

\* The next write is made ...
Written(r, what) ==
  /\ call[r].todo # <<>> /\ Head(call[r].todo) = what
  /\ call' = [call EXCEPT ![r] = Writes(@.about, Tail(@.todo))]
  /\ UNCHANGED user

InsertChallenge(r) ==
  \E type \in DOMAIN Answers :
    Written(r, type) /\ Created(type) /\ UNCHANGED <<totp, passkeys, scanned, web>>

SaveTOTP(r) ==
  /\ \/ Written(r, "totp") /\ totp' = call[r].about
     \/ Written(r, "totpOff") /\ totp' = NoChallenge
  /\ UNCHANGED <<passkeys, scanned, challenge, web>>

\* The credential's identifier is unique.
InsertPasskey(r) ==
  /\ Written(r, "passkey") /\ call[r].about \notin passkeys
  /\ passkeys' = passkeys \cup {call[r].about}
  /\ UNCHANGED <<totp, scanned, challenge, web>>

DeleteChallenge(r) ==
  Written(r, "consume") /\ Deleted(call[r].about) /\ UNCHANGED <<totp, passkeys, scanned, web>>

FreshWeb == CHOOSE s \in WebSessions : web[s].state = "none"

\* issueAuthResponse.
CreateSession(r) ==
  /\ Written(r, "issue")
  /\ \E s \in WebSessions : web[s].state = "none"
  /\ web' = [web EXCEPT ![FreshWeb] = [NoWeb EXCEPT !.state = "active", !.by = call[r].about]]
  /\ UNCHANGED <<totp, passkeys, scanned, challenge>>

\* ... or the handler ends here: a guard refuses, a statement fails, or the
\* server stops.
Refuse(r) ==
  /\ call[r].op \notin {"idle", "registering"}
  /\ call' = [call EXCEPT ![r] = NoCall]
  /\ UNCHANGED <<user, accountVars>>

\* The answer to a setup shows the secret, and the user scans it.
Scan(k) ==
  /\ challenge[k].type = "totpSetup" /\ k \notin scanned
  /\ scanned' = scanned \cup {k}
  /\ UNCHANGED <<user, totp, passkeys, challenge, web, call>>

MFANext ==
  /\ UNCHANGED registrationsDisabled
  /\ \/ \E r \in Calls :
          \/ GetChallenge(r) \/ Login(r) \/ EnabledMFAMethods(r)
          \/ VerifyTOTPLogin(r) \/ BeginPasskeyLogin(r) \/ FinishPasskeyLogin(r)
          \/ BeginTOTPSetup(r) \/ ConfirmTOTPSetup(r) \/ DisableTOTP(r)
          \/ BeginPasskeyRegistration(r) \/ FinishPasskeyRegistration(r) \/ RemovePasskey(r)
          \/ InsertChallenge(r) \/ SaveTOTP(r) \/ InsertPasskey(r) \/ DeleteChallenge(r)
          \/ CreateSession(r) \/ Refuse(r)
     \/ \E k \in Challenges : FallDue(k) \/ Scan(k)

-----------------------------------------------------------------------------
(* Web sessions *)

\* ValidateSession reads the row and refuses a revoked or expired one, ...
ValidateSession(r) ==
  /\ \E s \in WebSessions :
       /\ web[s].state = "active" /\ ~web[s].lapsed
       /\ Begin(r, [NoCall EXCEPT !.op = "validated", !.row = web[s], !.saw = <<s>>])
  /\ Reads

\* Mutant: the row that was read is written back.
TouchRow(r) == [web EXCEPT ![call[r].saw[1]] = [call[r].row EXCEPT !.used = TRUE]]

\* ... TouchLastUsedAt writes one column, ...
Touched(r) == [web EXCEPT ![call[r].saw[1]].used = TRUE]

TouchSession(r) ==
  /\ Continue(r, "validated", [NoCall EXCEPT !.op = "signedIn"])
  /\ web' = Touched(r)
  /\ UNCHANGED <<user, totp, passkeys, scanned, challenge>>

\* ... and the handler runs: RevokeSession, or one that leaves sessions alone.
RevokeSession(r) ==
  /\ Continue(r, "signedIn", NoCall)
  /\ \/ UNCHANGED web
     \/ \E s \in WebSessions :
          web[s].state = "active" /\ web' = [web EXCEPT ![s].state = "revoked"]
  /\ UNCHANGED <<user, totp, passkeys, scanned, challenge>>

LapseSession(s) ==
  /\ web[s].state = "active" /\ ~web[s].lapsed
  /\ web' = [web EXCEPT ![s].lapsed = TRUE]
  /\ UNCHANGED <<user, totp, passkeys, scanned, challenge, call>>

WebNext ==
  /\ UNCHANGED registrationsDisabled
  /\ \/ \E r \in Calls :
          \/ Login(r) \/ EnabledMFAMethods(r) \/ CreateSession(r)
          \/ ValidateSession(r) \/ TouchSession(r) \/ RevokeSession(r) \/ Refuse(r)
     \/ \E s \in WebSessions : LapseSession(s)

-----------------------------------------------------------------------------
(* Properties *)

\* However many first registrations overlap, an instance has one admin, the
\* first account; and a closed instance has that account alone.
OneAdmin ==
  /\ Registered # {} => Cardinality({e \in Emails : user[e] = "admin"}) = 1
  /\ registrationsDisabled => Cardinality(Registered) <= 1

\* The authenticator secret an account asks for at login is one the user's app
\* holds: an enrolment that was begun, repeated, abandoned or confirmed twice
\* never locks the user out.
SecretWasScanned == totp # NoChallenge => totp \in scanned

\* A session that was issued for a challenge leaves no challenge to answer,
\* although the two are separate statements and either may fail.
ChallengeIsSpent ==
  \A s \in WebSessions :
    web[s].by # NoChallenge => challenge[web[s].by].type = "gone"

\* A revoked session stays revoked and an expired one expired, whatever
\* requests were being validated at the time.
SessionRevocationIsFinal ==
  [][\A s \in WebSessions :
       /\ web[s].state = "revoked" => web'[s].state = "revoked"
       /\ web[s].lapsed => web'[s].lapsed]_web
=============================================================================
