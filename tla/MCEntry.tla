------------------------------ MODULE MCEntry ------------------------------
(* The ways in, on small instances: API tokens, device logins of the command *)
(* line, authorization codes of the MCP server, and for the web registration,*)
(* second factors, sessions, the limiter and avatars.  A behaviour runs one  *)
(* of them ("area"), chosen at the start.  What meets in the table of tokens *)
(* runs together in the area "delegation": tokens that are created, approve  *)
(* a login, allow a code, and are bought by either.                          *)
(* Two run twice: several device logins that one browser approves, and one   *)
(* that several browsers decide; second factors run with two overlapping     *)
(* requests that know authenticator codes, and with one request at a time    *)
(* for passkeys and the three challenges a login with one takes.             *)
EXTENDS TokenHolders, SignIn, RateLimiter, Avatars

CONSTANTS OneLogin, OneBrowser, OneExchange, OneClient, OneCall, OneSession, LastChallenge

VARIABLE area

webVars == <<signInVars, limiterVars, avatarVars>>
entryVars == <<area, holderVars, webVars>>

EntryInit ==
  /\ area \in {"tokens", "logins", "browsers", "codes", "delegation",
               "registration", "factors", "passkeys", "sessions", "limiter", "avatars"}
  /\ HoldersInit
  /\ SignInInit /\ LimiterInit /\ AvatarsInit
  /\ registrationsDisabled => area = "registration"

\* Where tokens are not what the area is about, one session sends the requests.
SignedIn ==
  /\ \A r \in Requests \ {OneCall} : UNCHANGED bearer[r]
  /\ bearer'[OneCall].token = NoToken

\* Tokens that approve a login or allow a code: there is one of either, no row
\* expires or is revoked, and the command stores nothing.
OneOfEach ==
  /\ \A r \in Requests \ {OneCall} : UNCHANGED bearer[r]
  /\ \A c \in Logins \ {OneLogin} : UNCHANGED session[c]
  /\ \A b \in Browsers \ {OneBrowser} : UNCHANGED decision[b]
  /\ \A e \in Exchanges \ {OneExchange} : UNCHANGED exchange[e]
  /\ decision'[OneBrowser].op \in {"none", "approve"}
  /\ \A k \in Codes : mcpCode'[k].client \in {"none", OneClient} /\ ~mcpCode'[k].due
  /\ \A c \in Logins : ~session'[c].due
  /\ session'[OneLogin].status = "none" \/ \A k \in Codes : mcpCode'[k].state = "none"
  /\ \A t \in Tokens : ~apiToken'[t].lapsed /\ apiToken'[t].state # "revoked"
  /\ UNCHANGED profile

\* The command line and the assistants.
Holders ==
  /\ area \in {"tokens", "logins", "browsers", "codes", "delegation"}
  /\ UNCHANGED webVars /\ HoldersNext
  /\ area = "tokens" => UNCHANGED <<loginVars, codeVars>>
  /\ area \in {"logins", "browsers"} => SignedIn /\ UNCHANGED codeVars
  /\ area \in {"logins", "browsers", "codes"} /\ UNCHANGED <<loginVars, codeVars>> => UNCHANGED apiToken
  /\ area = "logins" => /\ \A b \in Browsers \ {OneBrowser} : UNCHANGED decision[b]
                        /\ decision'[OneBrowser].op \in {"none", "approve"}
  /\ area = "browsers" => \A c \in Logins \ {OneLogin} : UNCHANGED session[c]
  /\ area = "codes" => SignedIn /\ UNCHANGED loginVars
  /\ area = "delegation" => OneOfEach

\* The web client.
WebUsers ==
  /\ UNCHANGED holderVars
  /\ \/ area = "registration" /\ RegisterNext /\ UNCHANGED <<limiterVars, avatarVars>>
     \/ /\ area = "factors" /\ MFANext /\ UNCHANGED <<passkeys, limiterVars, avatarVars>>
        /\ UNCHANGED challenge[LastChallenge]
        /\ \A s \in WebSessions \ {OneSession} : UNCHANGED web[s]
     \/ /\ area = "passkeys" /\ MFANext /\ UNCHANGED <<totp, limiterVars, avatarVars>>
        /\ \A r \in Calls \ {OneCall} : UNCHANGED call[r]
        /\ \A k \in Challenges : ~challenge'[k].due
        /\ \A s \in WebSessions \ {OneSession} : UNCHANGED web[s]
     \/ area = "sessions" /\ WebNext /\ UNCHANGED <<limiterVars, avatarVars>>
     \/ area = "limiter" /\ LimiterNext /\ UNCHANGED <<signInVars, avatarVars>>
     \/ area = "avatars" /\ AvatarsNext /\ UNCHANGED <<signInVars, limiterVars>>

EntryNext == UNCHANGED area /\ (Holders \/ WebUsers)

EntrySpec == EntryInit /\ [][EntryNext]_entryVars /\ LoginFairness

\* The safety of the web client: one admin, no account locked out by a secret
\* it never scanned, no challenge left after its session, no more attempts than
\* the limiter allows, and an avatar that exists (SignIn, RateLimiter, Avatars).
WebSafety ==
  OneAdmin /\ SecretWasScanned /\ ChallengeIsSpent /\ AttemptsBounded /\ AvatarExists

\* What was revoked, denied or has lapsed stays so, whichever requests read it
\* before: tokens, decisions of a login, and web sessions.
RefusalsAreFinal == RevocationIsFinal /\ DecisionIsFinal /\ SessionRevocationIsFinal
=============================================================================
