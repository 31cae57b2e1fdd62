----------------------------- MODULE ApiTokens ------------------------------
(* The API tokens of one user (services/apitokens) and the requests that    *)
(* carry them (api/middleware/auth.go).  A bearer token is looked up, its   *)
(* last use is written, and only then does the handler run: each is a       *)
(* statement of its own, so a revocation may fall between any two of them.  *)
(* Tokens are minted by the token page (here), by the device login of the   *)
(* command line (CliLogin) and by the OAuth server of MCP (McpCodes).       *)
EXTENDS Naturals, FiniteSets

CONSTANTS
  Tokens,     \* identifiers of rows of api_tokens
  NoToken,    \* the request is signed in with a JWT session instead
  Spaces,     \* workspaces the user is a member of
  NoSpace,    \* a token that is not limited to a workspace
  Requests    \* requests that are served at the same time

ASSUME TokensAssumption == NoToken \notin Tokens /\ NoSpace \notin Spaces

VARIABLES
  apiToken,   \* the row of each token
  bearer      \* what each request being served knows

tokenVars == <<apiToken, bearer>>

-----------------------------------------------------------------------------
(* Rows *)

\* models.APIToken.  "from" says on whose behalf it was minted.
NoApiToken == [state |-> "none", lapsed |-> FALSE, used |-> FALSE,
               workspace |-> NoSpace, from |-> NoToken]

ApiTokenRow(workspace, from) ==
  [NoApiToken EXCEPT !.state = "active", !.workspace = workspace, !.from = from]

Unissued == {t \in Tokens : apiToken[t].state = "none"}

\* The tokens minted on behalf of an origin.
MintedFor(from) == {t \in Tokens \ Unissued : apiToken[t].from = from}

\* GenerateTokenWithOptions inserts a row with a fresh identifier.
FreshToken == CHOOSE t \in Tokens : t \in Unissued

Generated(workspace, from) ==
  /\ Unissued # {}
  /\ apiToken' = [apiToken EXCEPT ![FreshToken] = ApiTokenRow(workspace, from)]

\* validateMatchedToken, up to the load of the user.
ValidToken(row) == row.state = "active" /\ ~row.lapsed

NoBearer == [pc |-> "idle", token |-> NoToken, row |-> NoApiToken]

TokensInit ==
  /\ apiToken = [t \in Tokens |-> NoApiToken]
  /\ bearer = [r \in Requests |-> NoBearer]

-----------------------------------------------------------------------------
(* A request *)

\* AuthenticateBearer: a JWT is tried first, then the rows with the token's
\* prefix.  A token that is not valid ends the request with 401.
Authenticate(r) ==
  /\ bearer[r].pc = "idle"
  /\ \/ bearer' = [bearer EXCEPT ![r] = [NoBearer EXCEPT !.pc = "serving"]]
     \/ \E t \in Tokens :
          /\ ValidToken(apiToken[t])
          /\ bearer' = [bearer EXCEPT ![r] =
                          [pc |-> "matched", token |-> t, row |-> apiToken[t]]]
  /\ UNCHANGED apiToken

\* Mutant: the row that was read is written back whole.
TouchWritesRow(r) ==
  apiToken' = [apiToken EXCEPT ![bearer[r].token] = [bearer[r].row EXCEPT !.used = TRUE]]

\* TouchLastUsedAt writes one column of the row as it is by now.
TouchLastUsedAt(r) == apiToken' = [apiToken EXCEPT ![bearer[r].token].used = TRUE]

Touch(r) ==
  /\ bearer[r].pc = "matched"
  /\ TouchLastUsedAt(r)
  /\ bearer' = [bearer EXCEPT ![r].pc = "serving"]

\* The handler runs with the principal of the row that was read.
Served(r) == bearer[r].pc = "serving" /\ bearer' = [bearer EXCEPT ![r] = NoBearer]

OtherHandler(r) == Served(r) /\ UNCHANGED apiToken

\* WorkspaceScopeAllows.
ScopeAllows(r, workspace) == bearer[r].row.workspace \in {NoSpace, workspace}

\* Mutant: a request that names no workspace gets an unlimited token.
RequestedAsAsked(r, workspace) == workspace

\* The workspace create-api-token limits the new token to.
RequestedSpace(r, workspace) ==
  IF workspace = NoSpace THEN bearer[r].row.workspace ELSE workspace

\* create-api-token.
CreateToken(r) ==
  /\ Served(r)
  /\ \E asked \in Spaces \cup {NoSpace} :
       LET workspace == RequestedSpace(r, asked)
       IN  /\ workspace # NoSpace => ScopeAllows(r, workspace)
           /\ Generated(workspace, bearer[r].token)

\* revoke-api-token: a conditional UPDATE whose row count is checked.
RevokeToken(r) ==
  /\ Served(r)
  /\ \E t \in Tokens :
       /\ apiToken[t].state = "active"
       /\ apiToken' = [apiToken EXCEPT ![t].state = "revoked"]

\* expires_at passes.
Lapse(t) ==
  /\ ValidToken(apiToken[t])
  /\ apiToken' = [apiToken EXCEPT ![t].lapsed = TRUE]
  /\ UNCHANGED bearer

TokensNext ==
  \/ \E r \in Requests : Authenticate(r) \/ Touch(r) \/ OtherHandler(r)
                          \/ CreateToken(r) \/ RevokeToken(r)
  \/ \E t \in Tokens : Lapse(t)

-----------------------------------------------------------------------------
(* Properties *)

\* A revoked token stays revoked and an expired one expired, whatever requests
\* were in flight: the write of last_used_at must not bring an old row back.
RevocationIsFinal ==
  [][\A t \in Tokens :
       /\ apiToken[t].state = "revoked" => apiToken'[t].state = "revoked"
       /\ apiToken[t].lapsed => apiToken'[t].lapsed]_apiToken

\* A token that create-api-token makes for the bearer of a token of one workspace
\* is a token of that workspace, along any chain of creations.  It is the only
\* handler that mints and asks: a login such a bearer approved buys a token of
\* every workspace (CliLogin), a code it allowed one of any workspace (McpCodes).
CreationStaysInWorkspace ==
  \A t \in Tokens \ Unissued :
    LET parent == apiToken[t].from
    IN  (parent \in Tokens /\ apiToken[parent].workspace # NoSpace)
          => apiToken[t].workspace = apiToken[parent].workspace
=============================================================================
