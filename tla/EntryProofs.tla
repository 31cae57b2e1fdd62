---------------------------- MODULE EntryProofs ----------------------------
(***************************************************************************)
(* The ways in, for any number of tokens, logins, codes, sessions and      *)
(* requests that are served at the same time.  Tokens, logins and codes    *)
(* share the table of tokens: their invariant is one, over the steps of    *)
(* all three (TokenHolders).  The parts of the web client have theirs; at  *)
(* the end they hold together in the system of MCEntry.                    *)
(*                                                                         *)
(* API tokens come first, with what minting a token does for the two       *)
(* components that mint one on behalf of something.                        *)
(***************************************************************************)
EXTENDS MCEntry, FiniteSetTheorems, TLAPS

TokenRow(Origins) == [state     : {"none", "active", "revoked"},
                      lapsed    : BOOLEAN,
                      used      : BOOLEAN,
                      workspace : Spaces \cup {NoSpace},
                      from      : Origins]

-----------------------------------------------------------------------------
(* Minting                                                                 *)

\* What was minted for an origin is not added to, and keeps its workspaces.
KeepsMinted(from) ==
  /\ MintedFor(from)' = MintedFor(from)
  /\ \A t \in MintedFor(from) : apiToken'[t].workspace = apiToken[t].workspace

\* It depends on the rows of the tokens only.
LEMMA SameTokens ==
  ASSUME UNCHANGED apiToken, NEW from
  PROVE  KeepsMinted(from) /\ MintedFor(from)' = MintedFor(from)
  BY DEF KeepsMinted, MintedFor, Unissued

LEMMA NothingMinted ==
  ASSUME TokensInit, NEW from
  PROVE  MintedFor(from) = {}
  BY DEF TokensInit, NoApiToken, MintedFor, Unissued

LEMMA FirstRows ==
  ASSUME TokensInit, NEW Origins, NoToken \in Origins
  PROVE  apiToken \in [Tokens -> TokenRow(Origins)]
  BY DEF TokensInit, NoApiToken, TokenRow

LEMMA MintedRow ==
  ASSUME NEW Origins, NEW workspace \in Spaces \cup {NoSpace}, NEW from \in Origins
  PROVE  /\ ApiTokenRow(workspace, from) \in TokenRow(Origins)
         /\ ApiTokenRow(workspace, from).state = "active"
         /\ ApiTokenRow(workspace, from).workspace = workspace
         /\ ApiTokenRow(workspace, from).from = from
         /\ ~ApiTokenRow(workspace, from).lapsed
  BY DEF ApiTokenRow, NoApiToken, TokenRow

\* One token that was not issued before gets a row, the others keep theirs.
LEMMA MintingChangesOne ==
  ASSUME NEW Origins, apiToken \in [Tokens -> TokenRow(Origins)],
         NEW workspace \in Spaces \cup {NoSpace}, NEW from \in Origins,
         Generated(workspace, from)
  PROVE  /\ apiToken' \in [Tokens -> TokenRow(Origins)]
         /\ FreshToken \in Unissued
         /\ \A t \in Tokens : apiToken'[t] = IF t = FreshToken THEN ApiTokenRow(workspace, from)
                                                               ELSE apiToken[t]
<1>1. FreshToken \in Unissued /\ FreshToken \in Tokens
  BY DEF Generated, FreshToken, Unissued
<1>2. ApiTokenRow(workspace, from) \in TokenRow(Origins)
  BY MintedRow
<1>3. apiToken' = [apiToken EXCEPT ![FreshToken] = ApiTokenRow(workspace, from)]
  BY DEF Generated
<1> QED
  BY <1>1, <1>2, <1>3

\* A token is minted for one origin and for no other.
LEMMA MintingAddsOne ==
  ASSUME NEW Origins, apiToken \in [Tokens -> TokenRow(Origins)],
         NEW workspace \in Spaces \cup {NoSpace}, NEW from \in Origins,
         Generated(workspace, from)
  PROVE  /\ \A c : c # from => KeepsMinted(c)
         /\ MintedFor(from)' = MintedFor(from) \cup {FreshToken}
         /\ \A t \in MintedFor(from) : apiToken'[t].workspace = apiToken[t].workspace
         /\ apiToken'[FreshToken].workspace = workspace
<1>1. PICK fresh, row : fresh = FreshToken /\ row = ApiTokenRow(workspace, from)
  OBVIOUS
<1>2a. /\ fresh \in Unissued
       /\ \A t \in Tokens : apiToken'[t] = IF t = fresh THEN row ELSE apiToken[t]
  BY <1>1, MintingChangesOne
<1>2b. row.state = "active" /\ row.from = from /\ row.workspace = workspace
  BY <1>1, MintedRow
<1>2. /\ fresh \in Tokens /\ apiToken[fresh].state = "none"
      /\ \A t \in Tokens : apiToken'[t] = IF t = fresh THEN row ELSE apiToken[t]
      /\ row.state = "active" /\ row.from = from /\ row.workspace = workspace
  BY <1>2a, <1>2b DEF Unissued
<1>3. \A c : c # from => KeepsMinted(c)
  BY <1>2 DEF KeepsMinted, MintedFor, Unissued
<1>4. MintedFor(from)' = MintedFor(from) \cup {fresh}
  BY <1>2 DEF MintedFor, Unissued
<1>5. \A t \in MintedFor(from) : apiToken'[t].workspace = apiToken[t].workspace
  BY <1>2 DEF MintedFor, Unissued
<1>6. apiToken'[fresh].workspace = workspace
  BY <1>2
<1> QED
  BY <1>1, <1>3, <1>4, <1>5, <1>6

-----------------------------------------------------------------------------
(* The requests of one user                                                *)

\* On whose behalf tokens are minted.
TokenOrigins == Tokens \cup {NoToken} \cup Logins \cup Codes

Bearer == [pc    : {"idle", "matched", "serving"},
           token : Tokens \cup {NoToken},
           row   : TokenRow(TokenOrigins)]

TokensTypeOK ==
  /\ apiToken \in [Tokens -> TokenRow(TokenOrigins)]
  /\ bearer \in [Requests -> Bearer]

\* A request remembers the workspace its token still has.
BearersKnowTheirSpace ==
  \A r \in Requests :
    /\ bearer[r].token \in Tokens =>
         /\ apiToken[bearer[r].token].state # "none"
         /\ bearer[r].row.workspace = apiToken[bearer[r].token].workspace
    /\ bearer[r].pc = "matched" => bearer[r].token \in Tokens

\* A token that is not issued is not refused either.
UnissuedAreBlank == \A t \in Unissued : ~apiToken[t].lapsed

\* The token another one was created with has been issued.
ParentsWereIssued ==
  \A t \in Tokens \ Unissued : apiToken[t].from \in Tokens => apiToken[t].from \notin Unissued

TokensInv ==
  /\ TokensTypeOK
  /\ BearersKnowTheirSpace
  /\ UnissuedAreBlank
  /\ ParentsWereIssued
  /\ CreationStaysInWorkspace

LEMMA InitTokens == TokensInit => TokensInv
<1> SUFFICES ASSUME TokensInit PROVE TokensInv
  OBVIOUS
<1>1. NoApiToken \in TokenRow(TokenOrigins)
  BY DEF NoApiToken, TokenRow, TokenOrigins
<1>2. NoBearer \in Bearer /\ NoBearer.pc = "idle" /\ NoBearer.token = NoToken
  BY <1>1 DEF NoBearer, Bearer
<1>3. TokensTypeOK
  BY <1>1, <1>2 DEF TokensInit, TokensTypeOK
<1>4. Unissued = Tokens /\ UnissuedAreBlank
  BY DEF TokensInit, NoApiToken, Unissued, UnissuedAreBlank
<1> QED
  BY <1>2, <1>3, <1>4, TokensAssumption
  DEF TokensInit, TokensInv, BearersKnowTheirSpace, ParentsWereIssued, CreationStaysInWorkspace

\* What no statement on an issued token may change.
SameIdentity(t) ==
  /\ apiToken'[t].workspace = apiToken[t].workspace
  /\ apiToken'[t].from = apiToken[t].from
  /\ apiToken'[t].state = "none" <=> apiToken[t].state = "none"
  /\ apiToken[t].state = "none" => apiToken'[t].lapsed = apiToken[t].lapsed

\* What such a statement may not take back.
KeepsRefusals(t) ==
  /\ apiToken[t].state = "revoked" => apiToken'[t].state = "revoked"
  /\ apiToken[t].lapsed => apiToken'[t].lapsed

\* What no step of a request does: refuse less, or mint for a login or a code.
TokensKeep ==
  /\ \A t \in Tokens : KeepsRefusals(t)
  /\ \A c \in Logins \cup Codes : KeepsMinted(c)

\* A step that neither mints nor reads tokens keeps the invariant.
LEMMA IdentityKeeps ==
  ASSUME TokensInv, TokensTypeOK', BearersKnowTheirSpace', \A t \in Tokens : SameIdentity(t)
  PROVE  TokensInv' /\ \A c : KeepsMinted(c)
<1>1. Unissued' = Unissued
  BY DEF Unissued, SameIdentity
<1>2. \A c : KeepsMinted(c)
  BY <1>1 DEF KeepsMinted, MintedFor, Unissued, SameIdentity
<1> QED
  BY <1>1, <1>2
  DEF SameIdentity, TokensInv, UnissuedAreBlank, ParentsWereIssued, CreationStaysInWorkspace,
      Unissued

\* The request looks its token up, or is signed in with a session.
LEMMA AuthenticateTokens ==
  ASSUME TokensInv, NEW r \in Requests, Authenticate(r)
  PROVE  TokensInv' /\ UNCHANGED apiToken
<1>1. PICK b : /\ bearer' = [bearer EXCEPT ![r] = b]
               /\ b \in Bearer
               /\ \/ b.pc = "serving" /\ b.token = NoToken
                  \/ /\ b.token \in Tokens /\ apiToken[b.token].state = "active"
                     /\ b.row = apiToken[b.token]
  <2>1. CASE bearer' = [bearer EXCEPT ![r] = [NoBearer EXCEPT !.pc = "serving"]]
    <3>1. NoApiToken \in TokenRow(TokenOrigins)
      BY DEF NoApiToken, TokenRow, TokenOrigins
    <3>2. PICK b : b = [NoBearer EXCEPT !.pc = "serving"]
      OBVIOUS
    <3>3. b = [pc |-> "serving", token |-> NoToken, row |-> NoApiToken]
      BY <3>2 DEF NoBearer
    <3>4. b \in Bearer /\ b.pc = "serving" /\ b.token = NoToken
      BY <3>1, <3>3 DEF Bearer
    <3> QED
      BY <2>1, <3>2, <3>4
  <2>2. ASSUME NEW t \in Tokens, ValidToken(apiToken[t]),
               bearer' = [bearer EXCEPT ![r] = [pc |-> "matched", token |-> t, row |-> apiToken[t]]]
        PROVE  \E b : /\ bearer' = [bearer EXCEPT ![r] = b]
                      /\ b \in Bearer
                      /\ \/ b.pc = "serving" /\ b.token = NoToken
                         \/ /\ b.token \in Tokens /\ apiToken[b.token].state = "active"
                            /\ b.row = apiToken[b.token]
    <3>1. PICK b : b = [pc |-> "matched", token |-> t, row |-> apiToken[t]]
      OBVIOUS
    <3>2. b \in Bearer /\ b.token = t /\ b.row = apiToken[t]
      BY <3>1 DEF Bearer, TokensInv, TokensTypeOK
    <3> QED
      BY <2>2, <3>1, <3>2 DEF ValidToken
  <2> QED
    BY <2>1, <2>2 DEF Authenticate
<1>2. UNCHANGED apiToken
  BY DEF Authenticate
<1>3. TokensTypeOK'
  BY <1>1, <1>2 DEF TokensInv, TokensTypeOK
<1>4. bearer'[r] = b /\ \A q \in Requests \ {r} : bearer'[q] = bearer[q]
  BY <1>1 DEF TokensInv, TokensTypeOK
<1>5. BearersKnowTheirSpace'
  BY <1>1, <1>2, <1>4, TokensAssumption DEF TokensInv, BearersKnowTheirSpace
<1> QED
  BY <1>2, <1>3, <1>5, IdentityKeeps DEF SameIdentity

\* The write of last_used_at changes one column of the row as it is by then.
LEMMA TouchTokens ==
  ASSUME TokensInv, NEW r \in Requests, Touch(r)
  PROVE  TokensInv' /\ TokensKeep
<1>1. apiToken' = [apiToken EXCEPT ![bearer[r].token].used = TRUE]
  BY DEF Touch, TouchLastUsedAt
<1>2. \A t \in Tokens : /\ apiToken'[t] \in TokenRow(TokenOrigins)
                        /\ SameIdentity(t) /\ KeepsRefusals(t)
  BY <1>1 DEF SameIdentity, KeepsRefusals, TokensInv, TokensTypeOK, TokenRow
<1>3. bearer' = [bearer EXCEPT ![r].pc = "serving"]
  BY DEF Touch
<1>4. /\ bearer' \in [Requests -> Bearer]
      /\ \A q \in Requests : /\ bearer'[q].token = bearer[q].token
                             /\ bearer'[q].row = bearer[q].row
                             /\ bearer'[q].pc = "matched" => bearer[q].pc = "matched"
  BY <1>3 DEF TokensInv, TokensTypeOK, Bearer
<1>5. TokensTypeOK'
  BY <1>1, <1>2, <1>4 DEF TokensInv, TokensTypeOK
<1>6. BearersKnowTheirSpace'
  BY <1>2, <1>4 DEF SameIdentity, TokensInv, BearersKnowTheirSpace
<1> QED
  BY <1>2, <1>5, <1>6, IdentityKeeps DEF TokensKeep

\* The handler that runs forgets its token.
LEMMA ServedBearers ==
  ASSUME TokensInv, NEW r \in Requests, Served(r)
  PROVE  /\ bearer' \in [Requests -> Bearer]
         /\ bearer'[r].token = NoToken /\ bearer'[r].pc = "idle"
         /\ \A q \in Requests \ {r} : bearer'[q] = bearer[q]
<1>1. NoApiToken \in TokenRow(TokenOrigins)
  BY DEF NoApiToken, TokenRow, TokenOrigins
<1>2. NoBearer \in Bearer /\ NoBearer.pc = "idle" /\ NoBearer.token = NoToken
  BY <1>1 DEF NoBearer, Bearer
<1> QED
  BY <1>2 DEF Served, TokensInv, TokensTypeOK

\* A handler that changes no identity.
LEMMA HandlerKeeps ==
  ASSUME TokensInv, NEW r \in Requests, Served(r),
         apiToken' \in [Tokens -> TokenRow(TokenOrigins)],
         \A t \in Tokens : SameIdentity(t)
  PROVE  TokensInv' /\ \A c : KeepsMinted(c)
<1>1. TokensTypeOK'
  BY ServedBearers DEF TokensTypeOK
<1>2. BearersKnowTheirSpace'
  BY ServedBearers, TokensAssumption DEF SameIdentity, TokensInv, BearersKnowTheirSpace
<1> QED
  BY <1>1, <1>2, IdentityKeeps

\* A token is revoked or expires.
LEMMA RevokeTokens ==
  ASSUME TokensInv, NEW r \in Requests, RevokeToken(r)
  PROVE  TokensInv' /\ TokensKeep
<1>1. PICK t \in Tokens : /\ apiToken[t].state = "active"
                          /\ apiToken' = [apiToken EXCEPT ![t].state = "revoked"]
  BY DEF RevokeToken
<1>2. /\ apiToken' \in [Tokens -> TokenRow(TokenOrigins)]
      /\ \A u \in Tokens : SameIdentity(u) /\ KeepsRefusals(u)
  BY <1>1 DEF SameIdentity, KeepsRefusals, TokensInv, TokensTypeOK, TokenRow
<1> QED
  BY <1>2, HandlerKeeps DEF RevokeToken, TokensKeep

LEMMA LapseTokens ==
  ASSUME TokensInv, NEW t \in Tokens, Lapse(t)
  PROVE  TokensInv' /\ TokensKeep
<1>1. /\ apiToken' \in [Tokens -> TokenRow(TokenOrigins)]
      /\ \A u \in Tokens : SameIdentity(u) /\ KeepsRefusals(u)
  BY DEF Lapse, ValidToken, SameIdentity, KeepsRefusals, TokensInv, TokensTypeOK, TokenRow
<1>2. TokensTypeOK' /\ BearersKnowTheirSpace'
  BY <1>1 DEF Lapse, SameIdentity, TokensInv, TokensTypeOK, BearersKnowTheirSpace
<1> QED
  BY <1>1, <1>2, IdentityKeeps DEF TokensKeep

\* A token that is minted with another one has that one's workspace.
MayMint(workspace, from) ==
  from \in Tokens => /\ from \notin Unissued
                     /\ \/ apiToken[from].workspace = NoSpace
                        \/ apiToken[from].workspace = workspace

\* A step in which no request learns of a token.
NoneLearns ==
  /\ bearer' \in [Requests -> Bearer]
  /\ \A q \in Requests : \/ bearer'[q] = bearer[q]
                         \/ bearer'[q].token = NoToken /\ bearer'[q].pc = "idle"

\* A token is minted on behalf of a login, of a code, or of another token.
LEMMA MintTokens ==
  ASSUME TokensInv, NEW workspace \in Spaces \cup {NoSpace}, NEW from \in TokenOrigins,
         Generated(workspace, from), MayMint(workspace, from), NoneLearns
  PROVE  TokensInv' /\ \A t \in Tokens : KeepsRefusals(t)
<1>1. PICK fresh, row : fresh = FreshToken /\ row = ApiTokenRow(workspace, from)
  OBVIOUS
<1>2. /\ row.state = "active" /\ row.workspace = workspace /\ row.from = from /\ ~row.lapsed
  BY <1>1 DEF ApiTokenRow, NoApiToken
<1>2a. apiToken \in [Tokens -> TokenRow(TokenOrigins)]
  BY DEF TokensInv, TokensTypeOK
<1>2b. /\ FreshToken \in Unissued
       /\ apiToken' \in [Tokens -> TokenRow(TokenOrigins)]
       /\ \A t \in Tokens : apiToken'[t] = IF t = FreshToken THEN ApiTokenRow(workspace, from)
                                                              ELSE apiToken[t]
  BY <1>2a, MintingChangesOne
<1>3. /\ fresh \in Unissued
      /\ apiToken' \in [Tokens -> TokenRow(TokenOrigins)]
      /\ \A t \in Tokens : apiToken'[t] = IF t = fresh THEN row ELSE apiToken[t]
  BY <1>1, <1>2b
<1>4. fresh \in Tokens /\ apiToken[fresh].state = "none" /\ Unissued' = Unissued \ {fresh}
  BY <1>2, <1>3 DEF Unissued
<1>5. TokensTypeOK'
  BY <1>3 DEF TokensTypeOK, NoneLearns
<1>6. BearersKnowTheirSpace'
  BY <1>3, <1>4, TokensAssumption DEF NoneLearns, TokensInv, BearersKnowTheirSpace
<1>7. ParentsWereIssued'
  BY <1>2, <1>3, <1>4 DEF MayMint, TokensInv, ParentsWereIssued
<1>8. CreationStaysInWorkspace'
  <2> SUFFICES ASSUME NEW t \in Tokens \ Unissued', apiToken'[t].from \in Tokens,
                      apiToken'[apiToken'[t].from].workspace # NoSpace
               PROVE  apiToken'[t].workspace = apiToken'[apiToken'[t].from].workspace
    BY DEF CreationStaysInWorkspace
  <2>1. CASE t = fresh
    BY <1>2, <1>3, <1>4, <2>1 DEF MayMint
  <2>2. CASE t # fresh
    <3>1. apiToken[t].from # fresh /\ apiToken'[t] = apiToken[t] /\ t \notin Unissued
      BY <1>3, <1>4, <2>2 DEF TokensInv, ParentsWereIssued
    <3> QED
      BY <1>3, <3>1 DEF TokensInv, CreationStaysInWorkspace
  <2> QED
    BY <2>1, <2>2
<1>9. \A t \in Tokens : KeepsRefusals(t)
  BY <1>3, <1>4 DEF KeepsRefusals, TokensInv, UnissuedAreBlank
<1>10. UnissuedAreBlank'
  BY <1>2, <1>3, <1>4 DEF TokensInv, UnissuedAreBlank, Unissued
<1> QED
  BY <1>5, <1>6, <1>7, <1>8, <1>9, <1>10 DEF TokensInv

\* A token that is created gets the workspace of the one it is created with.
LEMMA CreateTokens ==
  ASSUME TokensInv, NEW r \in Requests, CreateToken(r)
  PROVE  TokensInv' /\ TokensKeep
<1>1. Served(r)
  BY DEF CreateToken
<1>2. PICK asked \in Spaces \cup {NoSpace} :
        /\ RequestedSpace(r, asked) # NoSpace => ScopeAllows(r, RequestedSpace(r, asked))
        /\ Generated(RequestedSpace(r, asked), bearer[r].token)
  BY DEF CreateToken
<1>3. PICK workspace, parent :
        workspace = RequestedSpace(r, asked) /\ parent = bearer[r].token
  OBVIOUS
<1>4. /\ workspace \in Spaces \cup {NoSpace} /\ parent \in Tokens \cup {NoToken}
      /\ bearer[r].row.workspace # NoSpace => workspace = bearer[r].row.workspace
  BY <1>2, <1>3
  DEF RequestedSpace, ScopeAllows, TokensInv, TokensTypeOK, Bearer, TokenRow
<1>5. parent \in TokenOrigins /\ Generated(workspace, parent)
  BY <1>2, <1>3, <1>4 DEF TokenOrigins
<1>6. MayMint(workspace, parent)
  BY <1>3, <1>4 DEF MayMint, TokensInv, BearersKnowTheirSpace, Unissued
<1>7. NoneLearns
  BY <1>1, ServedBearers DEF NoneLearns
<1>8. TokensInv' /\ \A t \in Tokens : KeepsRefusals(t)
  BY <1>4, <1>5, <1>6, <1>7, MintTokens
<1>9. \A c \in Logins \cup Codes : KeepsMinted(c)
  <2>1. \A c \in Logins \cup Codes : c # parent
    BY <1>4, LoginsAssumption, CodesAssumption, OriginsAssumption
  <2> QED
    BY <1>4, <1>5, <2>1, MintingAddsOne DEF TokensInv, TokensTypeOK
<1> QED
  BY <1>8, <1>9 DEF TokensKeep

\* Rows that stay keep everything.
LEMMA SameRows == ASSUME UNCHANGED apiToken PROVE TokensKeep /\ \A t \in Tokens : SameIdentity(t)
  BY SameTokens DEF TokensKeep, KeepsRefusals, SameIdentity

\* A handler that touches no token.
LEMMA ServedTokens ==
  ASSUME TokensInv, NEW r \in Requests, Served(r), UNCHANGED apiToken
  PROVE  TokensInv' /\ TokensKeep
<1>1. apiToken' \in [Tokens -> TokenRow(TokenOrigins)]
  BY DEF TokensInv, TokensTypeOK
<1> QED
  BY <1>1, SameRows, HandlerKeeps

LEMMA IdleTokens == ASSUME TokensInv, UNCHANGED tokenVars PROVE TokensInv' /\ TokensKeep
<1>1. UNCHANGED apiToken /\ UNCHANGED bearer
  BY DEF tokenVars
<1>2. TokensTypeOK' /\ BearersKnowTheirSpace'
  BY <1>1 DEF TokensInv, TokensTypeOK, BearersKnowTheirSpace
<1> QED
  BY <1>1, <1>2, SameRows, IdentityKeeps

LEMMA TokensStep == ASSUME TokensInv, TokensNext PROVE TokensInv' /\ TokensKeep
<1>1. ASSUME NEW r \in Requests, Authenticate(r) PROVE TokensInv' /\ TokensKeep
  BY <1>1, AuthenticateTokens, SameRows
<1>2. ASSUME NEW r \in Requests, Touch(r) PROVE TokensInv' /\ TokensKeep
  BY <1>2, TouchTokens
<1>3. ASSUME NEW r \in Requests, OtherHandler(r) PROVE TokensInv' /\ TokensKeep
  BY <1>3, ServedTokens DEF OtherHandler
<1>4. ASSUME NEW r \in Requests, CreateToken(r) PROVE TokensInv' /\ TokensKeep
  BY <1>4, CreateTokens
<1>5. ASSUME NEW r \in Requests, RevokeToken(r) PROVE TokensInv' /\ TokensKeep
  BY <1>5, RevokeTokens
<1>6. ASSUME NEW t \in Tokens, Lapse(t) PROVE TokensInv' /\ TokensKeep
  BY <1>6, LapseTokens
<1> QED
  BY <1>1, <1>2, <1>3, <1>4, <1>5, <1>6 DEF TokensNext

-----------------------------------------------------------------------------
(* Authorization codes of the MCP server                                   *)

CodeRow == [state     : {"none", "fresh", "consumed"},
            due       : BOOLEAN,
            client    : Clients \cup {"none"},
            workspace : Spaces \cup {NoSpace}]

ExchangeState == [pc        : {"idle", "read", "mint"},
                  code      : Codes \cup {"none"},
                  workspace : Spaces \cup {NoSpace}]

CodesTypeOK ==
  /\ mcpCode \in [Codes -> CodeRow]
  /\ exchange \in [Exchanges -> ExchangeState]
  /\ apiToken \in [Tokens -> TokenRow(TokenOrigins)]

\* An exchange works on a code that was granted, for the workspace it was.
ReadCodesWereGranted ==
  \A e \in Exchanges : exchange[e].pc # "idle" =>
    /\ exchange[e].code \in Codes /\ mcpCode[exchange[e].code].state # "none"
    /\ exchange[e].workspace = mcpCode[exchange[e].code].workspace

\* What is about to be minted for is consumed, and nothing was minted for it.
MintersConsumed ==
  \A e \in Exchanges : exchange[e].pc = "mint" =>
    mcpCode[exchange[e].code].state = "consumed" /\ MintedFor(exchange[e].code) = {}

\* A code that is still open has bought nothing.
OpenCodesBoughtNothing ==
  \A k \in Codes : mcpCode[k].state # "consumed" => MintedFor(k) = {}

CodesInv ==
  /\ CodesTypeOK
  /\ ReadCodesWereGranted
  /\ MintersConsumed
  /\ OpenCodesBoughtNothing
  /\ CodeTokensStayInWorkspace
  /\ OneMinterPerCode

-----------------------------------------------------------------------------
LEMMA IdleExchange == NoExchange \in ExchangeState /\ NoExchange.pc = "idle"
  BY DEF NoExchange, ExchangeState

LEMMA InitCodes == TokensInit /\ CodesInit => CodesInv
<1> SUFFICES ASSUME TokensInit, CodesInit PROVE CodesInv
  OBVIOUS
<1>1. CodesTypeOK
  <2>1. apiToken \in [Tokens -> TokenRow(TokenOrigins)]
    BY FirstRows DEF TokenOrigins
  <2> QED
    BY <2>1 DEF CodesInit, NoCode, NoExchange, CodesTypeOK, CodeRow, ExchangeState
<1>2. \A k \in Codes : MintedFor(k) = {}
  BY NothingMinted
<1> QED
  BY <1>1, <1>2 DEF CodesInit, NoExchange, CodesInv, ReadCodesWereGranted, MintersConsumed,
     OpenCodesBoughtNothing, CodeTokensStayInWorkspace, OneMinterPerCode

\* What the invariant says of the tokens, after a step that minted for no code.
LEMMA CodesMintNothing ==
  ASSUME CodesInv, apiToken' \in [Tokens -> TokenRow(TokenOrigins)],
         \A k \in Codes : KeepsMinted(k), UNCHANGED codeVars
  PROVE  CodesInv'
<1>1. UNCHANGED mcpCode /\ UNCHANGED exchange
  BY DEF codeVars
<1> QED
  BY <1>1
  DEF KeepsMinted, CodesInv, CodesTypeOK, ReadCodesWereGranted, MintersConsumed,
      OpenCodesBoughtNothing, CodeTokensStayInWorkspace, OneMinterPerCode

\* A token is minted for one code and for no other.
LEMMA MintsForCodes ==
  ASSUME CodesInv, NEW k \in Codes, NEW workspace \in Spaces \cup {NoSpace},
         Generated(workspace, k)
  PROVE  /\ apiToken' \in [Tokens -> TokenRow(TokenOrigins)]
         /\ \A c : c # k => KeepsMinted(c)
         /\ MintedFor(k)' = MintedFor(k) \cup {FreshToken}
         /\ apiToken'[FreshToken].workspace = workspace
<1>1. apiToken \in [Tokens -> TokenRow(TokenOrigins)] /\ k \in TokenOrigins
  BY DEF CodesInv, CodesTypeOK, TokenOrigins
<1> QED
  BY <1>1, MintingChangesOne, MintingAddsOne

\* Every step of the endpoint keeps the invariant.
LEMMA AuthorizeCodes ==
  ASSUME CodesInv, NEW k \in Codes, NEW r \in Requests, Authorize(k, r)
  PROVE  CodesInv'
<1>1. PICK client \in Clients, workspace \in Spaces \cup {NoSpace} :
        mcpCode' = [mcpCode EXCEPT ![k] = [NoCode EXCEPT !.state = "fresh",
                                             !.client = client, !.workspace = workspace]]
  BY DEF Authorize
<1>2. PICK row : row = [NoCode EXCEPT !.state = "fresh", !.client = client,
                                      !.workspace = workspace]
  OBVIOUS
<1>3. row \in CodeRow /\ row.state = "fresh"
  BY <1>2 DEF NoCode, CodeRow
<1>4. \A c \in Codes : mcpCode'[c] = IF c = k THEN row ELSE mcpCode[c]
  BY <1>1, <1>2 DEF CodesInv, CodesTypeOK
<1>5. CodesTypeOK'
  BY <1>1, <1>2, <1>3 DEF Authorize, CodesInv, CodesTypeOK
<1>6. mcpCode[k].state = "none" /\ UNCHANGED <<exchange, apiToken>>
  BY DEF Authorize
<1>7. \A c \in Codes : KeepsMinted(c) /\ (c = k => MintedFor(c) = {})
  BY <1>6, SameTokens DEF CodesInv, OpenCodesBoughtNothing
<1>8. OpenCodesBoughtNothing' /\ CodeTokensStayInWorkspace'
  BY <1>4, <1>7
  DEF KeepsMinted, CodesInv, OpenCodesBoughtNothing, CodeTokensStayInWorkspace
<1> QED
  BY <1>3, <1>4, <1>5, <1>6, <1>7, <1>8
  DEF KeepsMinted, CodesInv, ReadCodesWereGranted, MintersConsumed, OneMinterPerCode

LEMMA CodeDueCodes == ASSUME CodesInv, NEW k \in Codes, CodeDue(k) PROVE CodesInv'
<1>1. CodesTypeOK' /\ \A c \in Codes : /\ mcpCode'[c].state = mcpCode[c].state
                                     /\ mcpCode'[c].workspace = mcpCode[c].workspace
  BY DEF CodeDue, CodesInv, CodesTypeOK, CodeRow
<1>2. UNCHANGED exchange /\ \A c \in Codes : KeepsMinted(c)
  BY SameTokens DEF CodeDue
<1> QED
  BY <1>1, <1>2
  DEF KeepsMinted, CodesInv, ReadCodesWereGranted, MintersConsumed, OpenCodesBoughtNothing,
      CodeTokensStayInWorkspace, OneMinterPerCode

LEMMA ReadCodes == ASSUME CodesInv, NEW e \in Exchanges, ReadCode(e) PROVE CodesInv'
<1>1. PICK k \in Codes, client \in Clients :
        /\ Exchangeable(k, client)
        /\ exchange' = [exchange EXCEPT ![e] =
                          [pc |-> "read", code |-> k, workspace |-> mcpCode[k].workspace]]
  BY DEF ReadCode
<1>2. CodesTypeOK'
  BY <1>1 DEF ReadCode, CodesInv, CodesTypeOK, ExchangeState, CodeRow
<1>3. \A f \in Exchanges \ {e} : exchange'[f] = exchange[f]
  BY <1>1 DEF CodesInv, CodesTypeOK
<1>4. /\ exchange'[e].pc = "read" /\ exchange'[e].code = k /\ mcpCode[k].state # "none"
      /\ exchange'[e].workspace = mcpCode[k].workspace
  BY <1>1 DEF CodesInv, CodesTypeOK, Exchangeable
<1>5. UNCHANGED mcpCode /\ \A c \in Codes : KeepsMinted(c)
  BY SameTokens DEF ReadCode
<1> QED
  BY <1>2, <1>3, <1>4, <1>5
  DEF KeepsMinted, CodesInv, ReadCodesWereGranted, MintersConsumed, OpenCodesBoughtNothing,
      CodeTokensStayInWorkspace, OneMinterPerCode

\* An exchange that ends, however it ends, leaves the others as they were.
LEMMA EndingKeeps ==
  ASSUME CodesInv, NEW e \in Exchanges, exchange' = [exchange EXCEPT ![e] = NoExchange],
         UNCHANGED <<mcpCode, apiToken>>
  PROVE  CodesInv'
<1>1. CodesTypeOK'
  BY IdleExchange DEF CodesInv, CodesTypeOK
<1>2. /\ exchange'[e].pc = "idle"
      /\ \A f \in Exchanges \ {e} : exchange'[f] = exchange[f]
  BY IdleExchange DEF CodesInv, CodesTypeOK
<1>3. UNCHANGED mcpCode /\ \A c \in Codes : KeepsMinted(c)
  BY SameTokens
<1> QED
  BY <1>1, <1>2, <1>3
  DEF KeepsMinted, CodesInv, ReadCodesWereGranted, MintersConsumed, OpenCodesBoughtNothing,
      CodeTokensStayInWorkspace, OneMinterPerCode

LEMMA ConsumeCodes == ASSUME CodesInv, NEW e \in Exchanges, ConsumeCode(e) PROVE CodesInv'
<1>1. PICK k : k = exchange[e].code
  OBVIOUS
<1>2. k \in Codes /\ exchange[e].pc = "read" /\ UNCHANGED apiToken
  BY <1>1 DEF ConsumeCode, CodesInv, ReadCodesWereGranted
<1>3. CASE mcpCode[k].state = "fresh"
  <2>1. /\ mcpCode' = [mcpCode EXCEPT ![k].state = "consumed"]
        /\ exchange' = [exchange EXCEPT ![e].pc = "mint"]
    BY <1>1, <1>3 DEF ConsumeCode
  <2>2a. mcpCode' \in [Codes -> CodeRow]
    BY <1>2, <2>1 DEF CodesInv, CodesTypeOK, CodeRow
  <2>2b. exchange' \in [Exchanges -> ExchangeState]
    BY <2>1 DEF CodesInv, CodesTypeOK, ExchangeState
  <2>2. CodesTypeOK'
    BY <1>2, <2>2a, <2>2b DEF CodesInv, CodesTypeOK
  <2>3. /\ mcpCode'[k].state = "consumed" /\ mcpCode'[k].workspace = mcpCode[k].workspace
        /\ \A c \in Codes \ {k} : mcpCode'[c] = mcpCode[c]
    BY <1>2, <2>1 DEF CodesInv, CodesTypeOK, CodeRow
  <2>4. /\ exchange'[e].pc = "mint" /\ exchange'[e].code = k
        /\ exchange'[e].workspace = exchange[e].workspace
        /\ \A f \in Exchanges \ {e} : exchange'[f] = exchange[f]
    BY <1>1, <2>1 DEF CodesInv, CodesTypeOK, ExchangeState
  <2>5. MintedFor(k)' = {}
    BY <1>2, <1>3, SameTokens DEF CodesInv, OpenCodesBoughtNothing
  <2>6. \A f \in Exchanges : exchange[f].pc = "mint" => exchange[f].code # k
    BY <1>3 DEF CodesInv, MintersConsumed
  <2>7. ReadCodesWereGranted' /\ MintersConsumed'
    BY <1>1, <1>2, <2>3, <2>4, <2>5, SameTokens
    DEF CodesInv, ReadCodesWereGranted, MintersConsumed
  <2>8. OpenCodesBoughtNothing' /\ CodeTokensStayInWorkspace'
    <3>1. \A c \in Codes : KeepsMinted(c)
      BY <1>2, SameTokens
    <3> QED
      BY <2>3, <3>1
      DEF KeepsMinted, CodesInv, OpenCodesBoughtNothing, CodeTokensStayInWorkspace
  <2>9. OneMinterPerCode'
    BY <2>4, <2>6 DEF CodesInv, OneMinterPerCode
  <2> QED
    BY <2>2, <2>7, <2>8, <2>9 DEF CodesInv
<1>4. CASE mcpCode[k].state # "fresh"
  <2>1. exchange' = [exchange EXCEPT ![e] = NoExchange] /\ UNCHANGED <<mcpCode, apiToken>>
    BY <1>1, <1>4 DEF ConsumeCode
  <2> QED
    BY <2>1, EndingKeeps
<1> QED
  BY <1>3, <1>4

LEMMA MintCodes ==
  ASSUME CodesInv, NEW e \in Exchanges, MintForCode(e), NEW k, k = exchange[e].code
  PROVE  /\ CodesInv'
         /\ k \in Codes
         /\ mcpCode[k].state = "consumed"
         /\ MintedFor(k) = {}
         /\ MintedFor(k)' = {FreshToken}
         /\ \A c : c # k => KeepsMinted(c)
<1>1. PICK workspace : workspace = exchange[e].workspace
  OBVIOUS
<1>2. /\ k \in Codes /\ workspace \in Spaces \cup {NoSpace}
      /\ mcpCode[k].state = "consumed" /\ MintedFor(k) = {}
      /\ mcpCode[k].workspace = workspace
  BY <1>1 DEF MintForCode, CodesInv, CodesTypeOK, ExchangeState, ReadCodesWereGranted,
              MintersConsumed
<1>3. Generated(workspace, k)
  BY <1>1 DEF MintForCode
<1>4. /\ apiToken' \in [Tokens -> TokenRow(TokenOrigins)]
      /\ \A c : c # k => KeepsMinted(c)
      /\ MintedFor(k)' = {FreshToken} /\ apiToken'[FreshToken].workspace = workspace
  BY <1>2, <1>3, MintsForCodes
<1>5. exchange' = [exchange EXCEPT ![e] = NoExchange] /\ UNCHANGED mcpCode
  BY DEF MintForCode
<1>6. CodesTypeOK'
  BY <1>4, <1>5, IdleExchange DEF CodesInv, CodesTypeOK
<1>7. /\ exchange'[e].pc = "idle"
      /\ \A f \in Exchanges \ {e} : exchange'[f] = exchange[f]
  BY <1>5, IdleExchange DEF CodesInv, CodesTypeOK
<1>8. \A f \in Exchanges : exchange'[f].pc = "mint" => exchange'[f].code # k
  BY <1>1, <1>7 DEF MintForCode, CodesInv, OneMinterPerCode
<1>9a. ReadCodesWereGranted'
  BY <1>5, <1>7 DEF CodesInv, ReadCodesWereGranted
<1>9b. \A c : c # k => MintedFor(c)' = MintedFor(c)
  BY <1>4 DEF KeepsMinted
<1>9. ReadCodesWereGranted' /\ MintersConsumed'
  BY <1>5, <1>7, <1>8, <1>9a, <1>9b DEF CodesInv, MintersConsumed
<1>10. OpenCodesBoughtNothing' /\ OneMinterPerCode'
  BY <1>2, <1>4, <1>5, <1>7 DEF KeepsMinted, CodesInv, OpenCodesBoughtNothing, OneMinterPerCode
<1>11. CodeTokensStayInWorkspace'
  BY <1>2, <1>4, <1>5 DEF KeepsMinted, CodesInv, CodeTokensStayInWorkspace
<1> QED
  BY <1>1, <1>2, <1>4, <1>6, <1>9, <1>10, <1>11 DEF CodesInv

LEMMA CodesStep == ASSUME CodesInv, CodesNext PROVE CodesInv'
<1>1. ASSUME NEW k \in Codes, NEW r \in Requests, Authorize(k, r) PROVE CodesInv'
  BY <1>1, AuthorizeCodes
<1>2. ASSUME NEW k \in Codes, CodeDue(k) PROVE CodesInv'
  BY <1>2, CodeDueCodes
<1>3. ASSUME NEW e \in Exchanges, ReadCode(e) PROVE CodesInv'
  BY <1>3, ReadCodes
<1>4. ASSUME NEW e \in Exchanges, ConsumeCode(e) PROVE CodesInv'
  BY <1>4, ConsumeCodes
<1>5. ASSUME NEW e \in Exchanges, MintForCode(e) PROVE CodesInv'
  BY <1>5, MintCodes
<1>6. ASSUME NEW e \in Exchanges, ExchangeFails(e) PROVE CodesInv'
  BY <1>6, EndingKeeps DEF ExchangeFails
<1> QED
  BY <1>1, <1>2, <1>3, <1>4, <1>5, <1>6 DEF CodesNext

-----------------------------------------------------------------------------
(* The refinement of OneShot *)

GrantedCodes == {k \in Codes : mcpCode[k].state # "none"}
SpentCodes == [k \in Codes |-> Cardinality(MintedFor(k))]

LEMMA InitCodesOneShot == TokensInit /\ CodesInit => CodeIsOneShot!OneShotInit
<1> SUFFICES ASSUME TokensInit, CodesInit PROVE CodeIsOneShot!OneShotInit
  OBVIOUS
<1>1. \A k \in Codes : MintedFor(k) = {} /\ mcpCode[k].state = "none"
  BY DEF TokensInit, CodesInit, NoApiToken, NoCode, MintedFor, Unissued
<1>2. Cardinality({}) = 0
  BY FS_EmptySet
<1> QED
  BY <1>1, <1>2 DEF CodeIsOneShot!OneShotInit

\* A step that mints nothing and grants nothing is no step of OneShot.
LEMMA CodesStutter ==
  ASSUME UNCHANGED apiToken, GrantedCodes' = GrantedCodes
  PROVE  UNCHANGED <<GrantedCodes, SpentCodes>>
  BY SameTokens DEF SpentCodes

LEMMA CodesElsewhere ==
  ASSUME UNCHANGED mcpCode, \A k \in Codes : KeepsMinted(k)
  PROVE  UNCHANGED <<GrantedCodes, SpentCodes>>
  BY DEF KeepsMinted, GrantedCodes, SpentCodes

LEMMA CodesOneShot ==
  ASSUME CodesInv, CodesNext
  PROVE  [CodeIsOneShot!OneShotNext]_<<GrantedCodes, SpentCodes>>
<1>1. ASSUME NEW k \in Codes, NEW r \in Requests, Authorize(k, r)
      PROVE  CodeIsOneShot!Grant(k)
  <2>1. mcpCode[k].state = "none" /\ UNCHANGED apiToken
    BY <1>1 DEF Authorize
  <2>2. /\ mcpCode'[k].state = "fresh"
        /\ \A c \in Codes \ {k} : mcpCode'[c] = mcpCode[c]
    BY <1>1 DEF Authorize, NoCode, CodesInv, CodesTypeOK
  <2> QED
    BY <2>1, <2>2, SameTokens DEF CodeIsOneShot!Grant
<1>2. ASSUME NEW k \in Codes, CodeDue(k) PROVE UNCHANGED <<GrantedCodes, SpentCodes>>
  <2>1. \A c \in Codes : mcpCode'[c].state = mcpCode[c].state
    BY <1>2 DEF CodeDue, CodesInv, CodesTypeOK, CodeRow
  <2> QED
    BY <1>2, <2>1, CodesStutter DEF CodeDue, GrantedCodes
<1>3. ASSUME NEW e \in Exchanges, ReadCode(e) \/ ExchangeFails(e)
      PROVE  UNCHANGED <<GrantedCodes, SpentCodes>>
  BY <1>3, CodesStutter DEF ReadCode, ExchangeFails, GrantedCodes
<1>4. ASSUME NEW e \in Exchanges, ConsumeCode(e) PROVE UNCHANGED <<GrantedCodes, SpentCodes>>
  <2>1. exchange[e].code \in Codes
    BY <1>4 DEF ConsumeCode, CodesInv, ReadCodesWereGranted
  <2>2. \A c \in Codes : mcpCode'[c].state = "none" <=> mcpCode[c].state = "none"
    BY <1>4, <2>1 DEF ConsumeCode, CodesInv, CodesTypeOK, CodeRow
  <2> QED
    BY <1>4, <2>2, CodesStutter DEF ConsumeCode, GrantedCodes
<1>5. ASSUME NEW e \in Exchanges, MintForCode(e)
      PROVE  CodeIsOneShot!Spend(exchange[e].code)
  <2>1. PICK k, workspace : k = exchange[e].code /\ workspace = exchange[e].workspace
    OBVIOUS
  <2>2. /\ k \in Codes /\ mcpCode[k].state = "consumed"
        /\ MintedFor(k) = {} /\ MintedFor(k)' = {FreshToken}
    BY <1>5, <2>1, MintCodes
  <2>3. /\ Generated(workspace, k) /\ UNCHANGED mcpCode
        /\ workspace \in Spaces \cup {NoSpace}
    BY <1>5, <2>1 DEF MintForCode, CodesInv, CodesTypeOK, ExchangeState
  <2>4. \A c \in Codes \ {k} : MintedFor(c)' = MintedFor(c)
    BY <2>2, <2>3, MintsForCodes DEF KeepsMinted
  <2>5. Cardinality(MintedFor(k)) = 0 /\ Cardinality(MintedFor(k)') = 1
    BY <2>2, FS_EmptySet, FS_Singleton
  <2>6. SpentCodes' = [SpentCodes EXCEPT ![k] = 1]
    BY <2>2, <2>4, <2>5 DEF SpentCodes
  <2>7. SpentCodes[k] = 0
    BY <2>2, <2>5 DEF SpentCodes
  <2> QED
    BY <2>1, <2>2, <2>3, <2>6, <2>7 DEF CodeIsOneShot!Spend, SpentCodes
<1>6. ASSUME NEW e \in Exchanges, MintForCode(e) PROVE exchange[e].code \in Codes
  BY <1>6, MintCodes
<1> QED
  BY <1>1, <1>2, <1>3, <1>4, <1>5, <1>6 DEF CodesNext, CodeIsOneShot!OneShotNext

-----------------------------------------------------------------------------
(* Device logins of the command line                                       *)

Statuses == {"none", "pending", "approved", "denied", "expired"}

SessionRow == [status : Statuses, due : BOOLEAN, approvedAt : BOOLEAN]

PollState == [pc     : {"idle", "read", "mint", "consume", "reply"},
              seen   : Statuses,
              answer : Statuses \cup {"error"}]

CommandState ==
  [pc    : {"idle", "waiting", "sleeping", "asking", "storing", "naming", "forgetting"},
   login : Logins \cup {NoLogin}]

LoginTypeOK ==
  /\ session \in [Logins -> SessionRow]
  /\ poll \in [Logins -> PollState]
  /\ cli \in CommandState
  /\ apiToken \in [Tokens -> TokenRow(TokenOrigins)]

MayPoll(c) == cli.login = c /\ cli.pc \in {"waiting", "sleeping"}

\* A login that was not started has nothing.
UnknownHaveNothing ==
  \A c \in Logins : ~Known(c) =>
    poll[c].pc = "idle" /\ MintedFor(c) = {} /\ ~session[c].approvedAt /\ cli.login # c

\* approved_at says whether the session was ever approved.
ApprovalIsRecorded ==
  \A c \in Logins :
    /\ session[c].status = "approved" => session[c].approvedAt
    /\ session[c].status = "pending" => ~session[c].approvedAt

\* The command polls only while no poll is under way and nothing was minted.
PollersHaveNothing ==
  \A c \in Logins : MayPoll(c) => poll[c].pc = "idle" /\ MintedFor(c) = {}

\* What may lead to a token, or back to another poll, has no token yet.
PollsHaveNothing ==
  \A c \in Logins :
    (poll[c].pc \in {"read", "mint"} \/ (poll[c].pc = "reply" /\ poll[c].answer = "pending"))
      => MintedFor(c) = {}

\* A token is minted for an approval that was seen.
MintersSawApproval ==
  \A c \in Logins :
    (poll[c].pc = "mint" \/ (poll[c].pc = "read" /\ poll[c].seen = "approved"))
      => session[c].approvedAt

LoginInv ==
  /\ LoginTypeOK
  /\ UnknownHaveNothing
  /\ ApprovalIsRecorded
  /\ PollersHaveNothing
  /\ PollsHaveNothing
  /\ MintersSawApproval

-----------------------------------------------------------------------------
LEMMA IdleCommand ==
  /\ Idle \in CommandState
  /\ \A c \in Logins : Idle.login # c
  BY LoginsAssumption DEF Idle, CommandState

LEMMA IdlePoll == NoPoll \in PollState /\ NoPoll.pc = "idle"
  BY DEF NoPoll, PollState, Statuses

LEMMA InitLogin == TokensInit /\ LoginInit => LoginInv
<1> SUFFICES ASSUME TokensInit, LoginInit PROVE LoginInv
  OBVIOUS
<1>1. apiToken \in [Tokens -> TokenRow(TokenOrigins)]
  BY FirstRows DEF TokenOrigins
<1>2. NoSession \in SessionRow /\ NoSession.status = "none" /\ ~NoSession.approvedAt
  BY DEF NoSession, SessionRow, Statuses
<1>3. \A c \in Logins : /\ session[c] = NoSession /\ poll[c] = NoPoll
                        /\ cli.login # c /\ MintedFor(c) = {}
  BY IdleCommand, NothingMinted DEF LoginInit
<1>4. LoginTypeOK
  BY <1>1, <1>2, IdleCommand, IdlePoll DEF LoginInit, LoginTypeOK
<1> QED
  BY <1>2, <1>3, <1>4, IdlePoll
  DEF LoginInv, UnknownHaveNothing, ApprovalIsRecorded, PollersHaveNothing, PollsHaveNothing,
      MintersSawApproval, MayPoll, Known

-----------------------------------------------------------------------------
(* Steps, by what they touch                                               *)

\* The session of d as a step leaves it: what was approved stays approved, and
\* an approval is of a session that was pending.
SessionKeeps(d) ==
  /\ session'[d].approvedAt <=> \/ session[d].approvedAt
                                \/ session[d].status = "pending" /\ session'[d].status = "approved"
  /\ session'[d].status = "approved" => session'[d].approvedAt
  /\ session'[d].status = "pending" => session[d].status = "pending"
  /\ session'[d].status = "none" <=> session[d].status = "none"

\* UPDATE ... WHERE status = ?.
LEMMA MovedRow ==
  ASSUME LoginInv, NEW c, NEW from \in {"pending", "approved"},
         NEW to \in {"approved", "denied", "expired"}, to = "approved" => from = "pending",
         Moved(c, from, to)
  PROVE  /\ session' \in [Logins -> SessionRow]
         /\ \A d \in Logins : SessionKeeps(d) /\ (d # c => session'[d] = session[d])
<1>1. CASE session[c].status # from
  <2>1. session' = session
    BY <1>1 DEF Moved
  <2> QED
    BY <2>1 DEF SessionKeeps, LoginInv, LoginTypeOK, ApprovalIsRecorded
<1>2. CASE session[c].status = from /\ c \notin Logins
  <2>1. session' = session
    BY <1>2 DEF Moved, LoginInv, LoginTypeOK
  <2> QED
    BY <2>1 DEF SessionKeeps, LoginInv, LoginTypeOK, ApprovalIsRecorded
<1>3. CASE session[c].status = from /\ c \in Logins
  <2>1. PICK approved \in BOOLEAN :
          /\ approved <=> (session[c].approvedAt \/ to = "approved")
          /\ session' = [session EXCEPT ![c].status = to, ![c].approvedAt = approved]
    <3>1. session' = [session EXCEPT ![c].status = to,
                                     ![c].approvedAt = (@ \/ to = "approved")]
      BY <1>3 DEF Moved
    <3> QED
      BY <3>1
  <2>2. /\ session' \in [Logins -> SessionRow]
        /\ session'[c].status = to /\ session'[c].approvedAt = approved
        /\ \A d \in Logins \ {c} : session'[d] = session[d]
    BY <1>3, <2>1 DEF LoginInv, LoginTypeOK, SessionRow, Statuses
  <2>3. SessionKeeps(c)
    BY <1>3, <2>1, <2>2 DEF SessionKeeps, LoginInv, ApprovalIsRecorded
  <2>4. \A d \in Logins \ {c} : SessionKeeps(d)
    BY <2>2 DEF SessionKeeps, LoginInv, ApprovalIsRecorded
  <2> QED
    BY <2>2, <2>3, <2>4
<1> QED
  BY <1>1, <1>2, <1>3

LEMMA SameSession ==
  ASSUME LoginInv, UNCHANGED session
  PROVE  session' \in [Logins -> SessionRow] /\ \A d \in Logins : SessionKeeps(d)
  BY DEF SessionKeeps, LoginInv, LoginTypeOK, ApprovalIsRecorded

\* Sessions move on, the polls and the command stay where they are.
LEMMA SessionStep ==
  ASSUME LoginInv, session' \in [Logins -> SessionRow], \A d \in Logins : SessionKeeps(d),
         UNCHANGED <<poll, cli, apiToken>>
  PROVE  LoginInv'
<1>1. \A d \in Logins : MintedFor(d)' = MintedFor(d)
  BY SameTokens
<1>2. \A d \in Logins : (Known(d)' <=> Known(d)) /\ (MayPoll(d)' <=> MayPoll(d))
  BY DEF SessionKeeps, Known, MayPoll
<1>3. LoginTypeOK'
  BY DEF LoginInv, LoginTypeOK
<1>4. UnknownHaveNothing' /\ ApprovalIsRecorded'
  BY <1>1, <1>2 DEF SessionKeeps, LoginInv, UnknownHaveNothing, ApprovalIsRecorded, Known
<1>5. PollersHaveNothing' /\ PollsHaveNothing' /\ MintersSawApproval'
  BY <1>1, <1>2 DEF SessionKeeps, LoginInv, PollersHaveNothing, PollsHaveNothing, MintersSawApproval
<1> QED
  BY <1>3, <1>4, <1>5 DEF LoginInv

\* The poll of one login moves on beside its session; no token is minted.
LEMMA PollStep ==
  ASSUME LoginInv, NEW c \in Logins, Known(c),
         session' \in [Logins -> SessionRow], \A d \in Logins : SessionKeeps(d),
         NEW p \in PollState, poll' = [poll EXCEPT ![c] = p], UNCHANGED <<cli, apiToken>>,
         p.pc # "idle" => poll[c].pc # "idle",
         p.pc = "mint" \/ (p.pc = "reply" /\ p.answer = "pending") => MintedFor(c) = {},
         p.pc = "mint" => session[c].approvedAt,
         p.pc # "read"
  PROVE  LoginInv'
<1>1. \A d \in Logins : MintedFor(d)' = MintedFor(d)
  BY SameTokens
<1>2. \A d \in Logins : (Known(d)' <=> Known(d)) /\ (MayPoll(d)' <=> MayPoll(d))
  BY DEF SessionKeeps, Known, MayPoll
<1>3. /\ poll' \in [Logins -> PollState]
      /\ \A d \in Logins : poll'[d] = IF d = c THEN p ELSE poll[d]
  BY DEF LoginInv, LoginTypeOK
<1>4. LoginTypeOK'
  BY <1>3 DEF LoginInv, LoginTypeOK
<1>5. UnknownHaveNothing' /\ ApprovalIsRecorded'
  BY <1>1, <1>2, <1>3 DEF SessionKeeps, LoginInv, UnknownHaveNothing, ApprovalIsRecorded, Known
<1>6. PollersHaveNothing'
  BY <1>1, <1>2, <1>3 DEF LoginInv, PollersHaveNothing
<1>7. PollsHaveNothing'
  BY <1>1, <1>3 DEF LoginInv, PollsHaveNothing
<1>8. MintersSawApproval'
  BY <1>3 DEF SessionKeeps, LoginInv, MintersSawApproval
<1> QED
  BY <1>4, <1>5, <1>6, <1>7, <1>8 DEF LoginInv

\* The command moves on, and may poll only where it could before.
LEMMA CommandMoves ==
  ASSUME LoginInv, cli' \in CommandState, UNCHANGED <<session, poll, apiToken>>,
         \A c \in Logins : cli'.login = c => cli.login = c,
         \A c \in Logins : MayPoll(c)' => MayPoll(c)
  PROVE  LoginInv'
<1>1. \A d \in Logins : MintedFor(d)' = MintedFor(d) /\ (Known(d)' <=> Known(d))
  BY SameTokens DEF Known
<1>2. LoginTypeOK'
  BY DEF LoginInv, LoginTypeOK
<1>3. UnknownHaveNothing'
  BY <1>1 DEF LoginInv, UnknownHaveNothing
<1>4. PollersHaveNothing'
  BY <1>1 DEF LoginInv, PollersHaveNothing
<1>5. ApprovalIsRecorded' /\ PollsHaveNothing' /\ MintersSawApproval'
  BY <1>1 DEF LoginInv, ApprovalIsRecorded, PollsHaveNothing, MintersSawApproval
<1> QED
  BY <1>2, <1>3, <1>4, <1>5 DEF LoginInv

-----------------------------------------------------------------------------
(* The actions                                                             *)

LEMMA PollAtRow ==
  ASSUME LoginInv, NEW c \in Logins, NEW pc \in {"mint", "consume", "reply"},
         NEW answer \in Statuses \cup {"error"}, PollAt(c, pc, answer)
  PROVE  \E p \in PollState : /\ p.pc = pc /\ p.answer = answer
                              /\ poll' = [poll EXCEPT ![c] = p]
<1>1. PICK p : p = [poll[c] EXCEPT !.pc = pc, !.answer = answer]
  OBVIOUS
<1>2. p \in PollState /\ p.pc = pc /\ p.answer = answer
  BY <1>1 DEF LoginInv, LoginTypeOK, PollState
<1>3. poll' = [poll EXCEPT ![c] = p]
  BY <1>1 DEF PollAt, LoginInv, LoginTypeOK
<1> QED
  BY <1>2, <1>3

LEMMA DeadlineLogin ==
  ASSUME LoginInv, NEW c \in Logins, Deadline(c)
  PROVE  LoginInv' /\ \A d \in Logins : SessionKeeps(d)
<1>1. /\ session' \in [Logins -> SessionRow]
      /\ \A d \in Logins : /\ session'[d].status = session[d].status
                           /\ session'[d].approvedAt = session[d].approvedAt
  BY DEF Deadline, LoginInv, LoginTypeOK, SessionRow
<1>2. \A d \in Logins : SessionKeeps(d)
  BY <1>1 DEF SessionKeeps, LoginInv, ApprovalIsRecorded
<1> QED
  BY <1>1, <1>2, SessionStep DEF Deadline

LEMMA DecideLogin ==
  ASSUME LoginInv, NEW b \in Browsers, Decide(b)
  PROVE  LoginInv' /\ \A d \in Logins : SessionKeeps(d)
<1>1. PICK op, c, seen : Decided(op, c, seen)
  BY DEF Decide
<1>2. session' \in [Logins -> SessionRow] /\ \A d \in Logins : SessionKeeps(d)
  <2>1. \/ Moved(c, "pending", "expired") \/ Moved(c, "pending", "approved")
        \/ Moved(c, "pending", "denied") \/ UNCHANGED session
    BY <1>1 DEF Decided, Expired
  <2>2. CASE Moved(c, "pending", "expired")
    BY <2>2, MovedRow
  <2>3. CASE Moved(c, "pending", "approved")
    BY <2>3, MovedRow
  <2>4. CASE Moved(c, "pending", "denied")
    BY <2>4, MovedRow
  <2> QED
    BY <2>1, <2>2, <2>3, <2>4, SameSession
<1> QED
  BY <1>2, SessionStep DEF Decide

LEMMA PollKnown ==
  ASSUME LoginInv, NEW c \in Logins, poll[c].pc # "idle"
  PROVE  Known(c)
  BY DEF LoginInv, UnknownHaveNothing

LEMMA HandlePollLogin ==
  ASSUME LoginInv, NEW c \in Logins, HandlePoll(c)
  PROVE  LoginInv' /\ \A d \in Logins : SessionKeeps(d)
<1>1. /\ poll[c].pc = "read" /\ Known(c) /\ MintedFor(c) = {}
      /\ UNCHANGED <<cli, apiToken>>
  BY PollKnown DEF HandlePoll, LoginInv, PollsHaveNothing
<1>2. CASE Expires(c, poll[c].seen)
  <2>1. Moved(c, "pending", "expired") /\ PollAt(c, "reply", "expired")
    BY <1>2 DEF HandlePoll, Expired
  <2>2. session' \in [Logins -> SessionRow] /\ \A d \in Logins : SessionKeeps(d)
    BY <2>1, MovedRow
  <2>3. PICK p \in PollState : /\ p.pc = "reply" /\ p.answer = "expired"
                               /\ poll' = [poll EXCEPT ![c] = p]
    BY <2>1, PollAtRow DEF Statuses
  <2> QED
    BY <1>1, <2>2, <2>3, PollStep
<1>3. CASE ~Expires(c, poll[c].seen)
  <2>1. session' \in [Logins -> SessionRow] /\ \A d \in Logins : SessionKeeps(d)
    BY <1>3, SameSession DEF HandlePoll
  <2>2. CASE poll[c].seen = "approved"
    <3>1. PollAt(c, "mint", "none")
      BY <1>3, <2>2 DEF HandlePoll
    <3>2. PICK p \in PollState : /\ p.pc = "mint" /\ p.answer = "none"
                                 /\ poll' = [poll EXCEPT ![c] = p]
      BY <3>1, PollAtRow DEF Statuses
    <3>3. session[c].approvedAt
      BY <1>1, <2>2 DEF LoginInv, MintersSawApproval
    <3> QED
      BY <1>1, <2>1, <3>2, <3>3, PollStep
  <2>3. CASE poll[c].seen # "approved"
    <3>1. PollAt(c, "reply", poll[c].seen) /\ poll[c].seen \in Statuses
      BY <1>3, <2>3 DEF HandlePoll, LoginInv, LoginTypeOK, PollState
    <3>2. PICK answer \in Statuses : answer = poll[c].seen
      BY <3>1
    <3>3. PollAt(c, "reply", answer)
      BY <3>1, <3>2
    <3>4. PICK p \in PollState : p.pc = "reply" /\ poll' = [poll EXCEPT ![c] = p]
      BY <3>3, PollAtRow
    <3> QED
      BY <1>1, <2>1, <3>4, PollStep
  <2> QED
    BY <2>2, <2>3
<1> QED
  BY <1>2, <1>3

LEMMA ConsumeLogin ==
  ASSUME LoginInv, NEW c \in Logins, ConsumeSession(c)
  PROVE  LoginInv' /\ \A d \in Logins : SessionKeeps(d)
<1>1. /\ poll[c].pc = "consume" /\ Known(c) /\ UNCHANGED <<cli, apiToken>>
      /\ Moved(c, "approved", "expired") /\ PollAt(c, "reply", "approved")
  BY PollKnown DEF ConsumeSession
<1>2. session' \in [Logins -> SessionRow] /\ \A d \in Logins : SessionKeeps(d)
  BY <1>1, MovedRow
<1>3. PICK p \in PollState : /\ p.pc = "reply" /\ p.answer = "approved"
                             /\ poll' = [poll EXCEPT ![c] = p]
  BY <1>1, PollAtRow DEF Statuses
<1> QED
  BY <1>1, <1>2, <1>3, PollStep

LEMMA PollErrorLogin ==
  ASSUME LoginInv, NEW c \in Logins, PollError(c)
  PROVE  LoginInv' /\ \A d \in Logins : SessionKeeps(d)
<1>1. /\ poll[c].pc # "idle" /\ Known(c) /\ UNCHANGED <<session, cli, apiToken>>
      /\ PollAt(c, "reply", "error")
  BY PollKnown DEF PollError
<1>2. PICK p \in PollState : /\ p.pc = "reply" /\ p.answer = "error"
                             /\ poll' = [poll EXCEPT ![c] = p]
  BY <1>1, PollAtRow
<1> QED
  BY <1>1, <1>2, PollStep, SameSession

LEMMA PollDiesLogin ==
  ASSUME LoginInv, NEW c \in Logins, PollDies(c)
  PROVE  LoginInv' /\ \A d \in Logins : SessionKeeps(d)
  BY PollKnown, IdlePoll, SameSession, PollStep DEF PollDies

\* A login is started once: nothing was ever done for it.
LEMMA StartLoginLogin ==
  ASSUME LoginInv, NEW c \in Logins, StartLogin(c)
  PROVE  LoginInv' /\ \A d \in Logins : session'[d].approvedAt <=> session[d].approvedAt
<1>1. /\ ~Known(c) /\ session[c].status = "none"
      /\ poll[c].pc = "idle" /\ MintedFor(c) = {} /\ ~session[c].approvedAt
  BY DEF StartLogin, Known, LoginInv, UnknownHaveNothing
<1>2. /\ session' \in [Logins -> SessionRow]
      /\ session'[c].status = "pending" /\ session'[c].approvedAt = session[c].approvedAt
      /\ \A d \in Logins \ {c} : session'[d] = session[d]
  BY DEF StartLogin, LoginInv, LoginTypeOK, SessionRow, Statuses
<1>3. /\ cli' = [pc |-> "waiting", login |-> c] /\ cli' \in CommandState
      /\ cli'.login = c /\ UNCHANGED <<poll, apiToken>>
  BY DEF StartLogin, CommandState
<1>4. \A d \in Logins : MintedFor(d)' = MintedFor(d)
  BY <1>3, SameTokens
<1>5. \A d \in Logins : MayPoll(d)' => d = c
  BY <1>3 DEF MayPoll
<1>6. LoginTypeOK'
  BY <1>2, <1>3 DEF LoginInv, LoginTypeOK
<1>7. UnknownHaveNothing'
  BY <1>2, <1>3, <1>4 DEF LoginInv, UnknownHaveNothing, Known
<1>8. ApprovalIsRecorded'
  BY <1>1, <1>2 DEF LoginInv, ApprovalIsRecorded
<1>9. PollersHaveNothing'
  BY <1>1, <1>3, <1>4, <1>5 DEF PollersHaveNothing
<1>10. PollsHaveNothing' /\ MintersSawApproval'
  BY <1>2, <1>3, <1>4 DEF LoginInv, PollsHaveNothing, MintersSawApproval
<1> QED
  BY <1>2, <1>6, <1>7, <1>8, <1>9, <1>10 DEF LoginInv

LEMMA SendPollLogin == ASSUME LoginInv, NEW c \in Logins, SendPoll(c) PROVE LoginInv'
<1>1. /\ MayPoll(c) /\ cli.login = c /\ UNCHANGED <<session, apiToken>>
      /\ cli' = [cli EXCEPT !.pc = "asking"]
  BY DEF SendPoll, MayPoll
<1>2. /\ cli' \in CommandState /\ cli'.login = c /\ cli'.pc = "asking"
  BY <1>1 DEF LoginInv, LoginTypeOK, CommandState
<1>3. MintedFor(c) = {} /\ Known(c)
  BY <1>1 DEF LoginInv, PollersHaveNothing, UnknownHaveNothing
<1>4. PICK p : p = [NoPoll EXCEPT !.pc = "read", !.seen = session[c].status]
  OBVIOUS
<1>5. p = [pc |-> "read", seen |-> session[c].status, answer |-> "none"]
  BY <1>4 DEF NoPoll
<1>6. p \in PollState /\ p.pc = "read" /\ p.seen = session[c].status
  BY <1>5 DEF PollState, LoginInv, LoginTypeOK, SessionRow, Statuses
<1>7. /\ poll' \in [Logins -> PollState]
      /\ \A d \in Logins : poll'[d] = IF d = c THEN p ELSE poll[d]
  BY <1>4, <1>6 DEF SendPoll, LoginInv, LoginTypeOK
<1>8. \A d \in Logins : MintedFor(d)' = MintedFor(d) /\ (Known(d)' <=> Known(d))
  BY <1>1, SameTokens DEF Known
<1>9. LoginTypeOK'
  BY <1>1, <1>2, <1>7 DEF LoginInv, LoginTypeOK
<1>10. UnknownHaveNothing' /\ ApprovalIsRecorded'
  BY <1>1, <1>2, <1>3, <1>7, <1>8 DEF LoginInv, UnknownHaveNothing, ApprovalIsRecorded
<1>11. PollersHaveNothing'
  BY <1>2 DEF PollersHaveNothing, MayPoll
<1>12. PollsHaveNothing' /\ MintersSawApproval'
  BY <1>1, <1>3, <1>6, <1>7, <1>8
  DEF LoginInv, PollsHaveNothing, MintersSawApproval, ApprovalIsRecorded
<1> QED
  BY <1>9, <1>10, <1>11, <1>12 DEF LoginInv

\* Only "pending" sends the command back to its loop.
LEMMA ReceiveLogin == ASSUME LoginInv, NEW c \in Logins, ReceiveAnswer(c) PROVE LoginInv'
<1>1. /\ poll[c].pc = "reply" /\ Known(c) /\ poll' = [poll EXCEPT ![c] = NoPoll]
      /\ UNCHANGED <<session, apiToken>>
  BY PollKnown DEF ReceiveAnswer
<1>2. /\ cli' \in CommandState
      /\ \A d \in Logins : cli'.login = d => cli.login = d
      /\ \A d \in Logins : MayPoll(d)' => MayPoll(d) \/ (d = c /\ poll[c].answer = "pending")
  <2>1. CASE cli = [pc |-> "asking", login |-> c]
    <3>1. cli.login = c /\ AfterAnswer(poll[c].answer)
      BY <2>1 DEF ReceiveAnswer
    <3>2. \/ poll[c].answer = "pending" /\ cli' = [cli EXCEPT !.pc = "waiting"]
          \/ cli' = [cli EXCEPT !.pc = "storing"]
          \/ cli' = Idle
      BY <3>1 DEF AfterAnswer, Ended
    <3>3. \/ /\ cli' \in CommandState /\ cli'.login = c
             /\ cli'.pc = "storing" \/ poll[c].answer = "pending"
          \/ cli' = Idle
      BY <2>1, <3>2 DEF CommandState
    <3> QED
      BY <3>1, <3>3, IdleCommand DEF MayPoll
  <2>2. CASE cli # [pc |-> "asking", login |-> c]
    BY <2>2 DEF ReceiveAnswer, MayPoll, LoginInv, LoginTypeOK
  <2> QED
    BY <2>1, <2>2
<1>3. /\ poll' \in [Logins -> PollState]
      /\ \A d \in Logins : poll'[d] = IF d = c THEN NoPoll ELSE poll[d]
  BY <1>1, IdlePoll DEF LoginInv, LoginTypeOK
<1>4. \A d \in Logins : MintedFor(d)' = MintedFor(d) /\ (Known(d)' <=> Known(d))
  BY <1>1, SameTokens DEF Known
<1>5. LoginTypeOK'
  BY <1>1, <1>2, <1>3 DEF LoginInv, LoginTypeOK
<1>6. UnknownHaveNothing' /\ ApprovalIsRecorded'
  BY <1>1, <1>2, <1>3, <1>4, IdlePoll DEF LoginInv, UnknownHaveNothing, ApprovalIsRecorded
<1>7. PollersHaveNothing'
  BY <1>1, <1>2, <1>3, <1>4, IdlePoll DEF LoginInv, PollersHaveNothing, PollsHaveNothing
<1>8. PollsHaveNothing' /\ MintersSawApproval'
  BY <1>1, <1>3, <1>4, IdlePoll DEF LoginInv, PollsHaveNothing, MintersSawApproval
<1> QED
  BY <1>5, <1>6, <1>7, <1>8 DEF LoginInv

\* The other steps of the command lead to no poll.
LEMMA CommandLogin ==
  ASSUME LoginInv,
         \/ CheckDeadline(cli.login) \/ ClientTimeout(cli.login)
         \/ StoreToken \/ NameInstance \/ LogoutKeyring \/ LogoutFile \/ Interrupt
  PROVE  LoginInv' /\ UNCHANGED <<session, apiToken>>
<1>1. UNCHANGED <<session, poll, apiToken>>
  BY DEF CheckDeadline, ClientTimeout, StoreToken, NameInstance, LogoutKeyring, LogoutFile, Interrupt
<1>2. \/ cli' = Idle
      \/ cli.pc = "waiting" /\ cli' = [cli EXCEPT !.pc = "sleeping"]
      \/ cli' = [cli EXCEPT !.pc = "naming"]
      \/ cli' = [cli EXCEPT !.pc = "forgetting"]
  BY DEF CheckDeadline, ClientTimeout, StoreToken, NameInstance, LogoutKeyring, LogoutFile,
         Interrupt, Ended
<1>3. /\ cli' \in CommandState
      /\ \A d \in Logins : cli'.login = d => cli.login = d
      /\ \A d \in Logins : MayPoll(d)' => MayPoll(d)
  BY <1>2, IdleCommand DEF MayPoll, LoginInv, LoginTypeOK, CommandState
<1> QED
  BY <1>1, <1>3, CommandMoves

\* A token is minted: the login had none, and the command is not polling.
LEMMA MintLogin ==
  ASSUME LoginInv, NEW c \in Logins, MintForLogin(c)
  PROVE  /\ LoginInv'
         /\ session[c].approvedAt /\ UNCHANGED session
         /\ MintedFor(c) = {} /\ MintedFor(c)' = {FreshToken}
         /\ \A d : d # c => KeepsMinted(d)
<1>1. /\ poll[c].pc = "mint" /\ Known(c) /\ session[c].approvedAt /\ MintedFor(c) = {}
      /\ UNCHANGED <<session, cli>> /\ PollAt(c, "consume", "none")
  BY PollKnown DEF MintForLogin, LoginInv, PollsHaveNothing, MintersSawApproval
<1>2. /\ apiToken \in [Tokens -> TokenRow(TokenOrigins)] /\ c \in TokenOrigins
      /\ NoSpace \in Spaces \cup {NoSpace} /\ Generated(NoSpace, c)
  BY DEF MintForLogin, LoginInv, LoginTypeOK, TokenOrigins
<1>3a. /\ apiToken' \in [Tokens -> TokenRow(TokenOrigins)]
       /\ \A d : d # c => KeepsMinted(d)
       /\ MintedFor(c)' = {FreshToken}
  BY <1>1, <1>2, MintingChangesOne, MintingAddsOne
<1>3. /\ apiToken' \in [Tokens -> TokenRow(TokenOrigins)]
      /\ \A d \in Logins \ {c} : MintedFor(d)' = MintedFor(d)
      /\ MintedFor(c)' = {FreshToken}
  BY <1>3a DEF KeepsMinted
<1>4. PICK p \in PollState : p.pc = "consume" /\ poll' = [poll EXCEPT ![c] = p]
  BY <1>1, PollAtRow DEF Statuses
<1>5. /\ poll' \in [Logins -> PollState]
      /\ \A d \in Logins : poll'[d] = IF d = c THEN p ELSE poll[d]
  BY <1>4 DEF LoginInv, LoginTypeOK
<1>6. LoginTypeOK'
  BY <1>1, <1>3, <1>5 DEF LoginInv, LoginTypeOK
<1>7. UnknownHaveNothing' /\ ApprovalIsRecorded'
  BY <1>1, <1>3, <1>5 DEF LoginInv, UnknownHaveNothing, ApprovalIsRecorded, Known
<1>8. PollersHaveNothing'
  BY <1>1, <1>3, <1>5 DEF LoginInv, PollersHaveNothing, MayPoll
<1>9. PollsHaveNothing' /\ MintersSawApproval'
  BY <1>1, <1>3, <1>4, <1>5 DEF LoginInv, PollsHaveNothing, MintersSawApproval
<1> QED
  BY <1>1, <1>3, <1>3a, <1>6, <1>7, <1>8, <1>9 DEF LoginInv

-----------------------------------------------------------------------------
(* The refinement of OneShot                                               *)

ApprovedLogins == {c \in Logins : session[c].approvedAt}
SpentLogins == [c \in Logins |-> Cardinality(MintedFor(c))]

LoginOneShotStep == [LoginIsOneShot!OneShotNext]_<<ApprovedLogins, SpentLogins>>

\* A step that mints nothing and approves nothing is no step of OneShot.
LEMMA LoginStutter ==
  ASSUME UNCHANGED apiToken, \A d \in Logins : session'[d].approvedAt <=> session[d].approvedAt
  PROVE  LoginOneShotStep
<1>1. ApprovedLogins' = ApprovedLogins
  BY DEF ApprovedLogins
<1>2. SpentLogins' = SpentLogins
  BY SameTokens DEF SpentLogins
<1> QED
  BY <1>1, <1>2 DEF LoginOneShotStep

\* A step of another component mints for no login.
LEMMA LoginElsewhere ==
  ASSUME LoginInv, apiToken' \in [Tokens -> TokenRow(TokenOrigins)],
         \A c \in Logins : KeepsMinted(c), UNCHANGED loginVars
  PROVE  LoginInv' /\ LoginOneShotStep
<1>1. /\ UNCHANGED session /\ UNCHANGED <<poll, cli>>
      /\ \A c \in Logins : MintedFor(c)' = MintedFor(c)
  BY DEF loginVars, KeepsMinted
<1>2. LoginInv'
  BY <1>1
  DEF LoginInv, LoginTypeOK, UnknownHaveNothing, Known, ApprovalIsRecorded, PollersHaveNothing,
      MayPoll, PollsHaveNothing, MintersSawApproval
<1>3. ApprovedLogins' = ApprovedLogins /\ SpentLogins' = SpentLogins
  BY <1>1 DEF ApprovedLogins, SpentLogins
<1> QED
  BY <1>2, <1>3 DEF LoginOneShotStep

\* A step that changes one session grants its ticket or nothing.
LEMMA SessionOneShot ==
  ASSUME LoginInv, UNCHANGED apiToken, NEW c, \A d \in Logins : SessionKeeps(d),
         \A d \in Logins : d # c => session'[d] = session[d]
  PROVE  LoginOneShotStep
<1>1. CASE \A d \in Logins : session'[d].approvedAt <=> session[d].approvedAt
  BY <1>1, LoginStutter
<1>2. ASSUME NEW d \in Logins, ~(session'[d].approvedAt <=> session[d].approvedAt)
      PROVE  LoginIsOneShot!Grant(d)
  <2>1. ~session[d].approvedAt /\ session'[d].approvedAt /\ d = c
    BY <1>2 DEF SessionKeeps
  <2>2. ApprovedLogins' = ApprovedLogins \cup {d}
    BY <2>1 DEF ApprovedLogins
  <2>3. SpentLogins' = SpentLogins
    BY SameTokens DEF SpentLogins
  <2> QED
    BY <2>1, <2>2, <2>3 DEF LoginIsOneShot!Grant, ApprovedLogins, SpentLogins
<1> QED
  BY <1>1, <1>2 DEF LoginOneShotStep, LoginIsOneShot!OneShotNext

LEMMA MintOneShot ==
  ASSUME LoginInv, NEW c \in Logins, MintForLogin(c)
  PROVE  LoginOneShotStep
<1>1. /\ session[c].approvedAt /\ UNCHANGED session
      /\ MintedFor(c) = {} /\ MintedFor(c)' = {FreshToken}
      /\ \A d \in Logins \ {c} : MintedFor(d)' = MintedFor(d)
  BY MintLogin DEF KeepsMinted
<1>2. Cardinality(MintedFor(c)) = 0 /\ Cardinality(MintedFor(c)') = 1
  BY <1>1, FS_EmptySet, FS_Singleton
<1>3. SpentLogins' = [SpentLogins EXCEPT ![c] = 1] /\ SpentLogins[c] = 0
  BY <1>1, <1>2 DEF SpentLogins
<1>4. c \in ApprovedLogins /\ ApprovedLogins' = ApprovedLogins
  BY <1>1 DEF ApprovedLogins
<1>5. LoginIsOneShot!Spend(c)
  BY <1>3, <1>4 DEF LoginIsOneShot!Spend, ApprovedLogins, SpentLogins
<1> QED
  BY <1>5 DEF LoginOneShotStep, LoginIsOneShot!OneShotNext

\* Each statement on the sessions is about one of them.
LEMMA OneSessionMoves ==
  ASSUME LoginInv,
         \/ \E b \in Browsers : Decide(b)
         \/ \E c \in Logins : Deadline(c) \/ HandlePoll(c) \/ ConsumeSession(c) \/ PollError(c)
                                \/ PollDies(c)
  PROVE  /\ UNCHANGED apiToken
         /\ \E c : \A d \in Logins : d # c => session'[d] = session[d]
<1>1. ASSUME NEW c, NEW from, NEW to, Moved(c, from, to) \/ UNCHANGED session
      PROVE  \A d \in Logins : d # c => session'[d] = session[d]
  BY <1>1 DEF Moved, LoginInv, LoginTypeOK
<1>2. ASSUME NEW b \in Browsers, Decide(b)
      PROVE  \E c : \A d \in Logins : d # c => session'[d] = session[d]
  BY <1>1, <1>2 DEF Decide, Decided, Expired
<1>3. ASSUME NEW c \in Logins, Deadline(c)
      PROVE  \A d \in Logins : d # c => session'[d] = session[d]
  BY <1>3 DEF Deadline, LoginInv, LoginTypeOK
<1>4. ASSUME NEW c \in Logins,
             HandlePoll(c) \/ ConsumeSession(c) \/ PollError(c) \/ PollDies(c)
      PROVE  \A d \in Logins : d # c => session'[d] = session[d]
  BY <1>1, <1>4 DEF HandlePoll, ConsumeSession, PollError, PollDies, Expired
<1>5. UNCHANGED apiToken
  BY DEF Decide, Deadline, HandlePoll, ConsumeSession, PollError, PollDies
<1> QED
  BY <1>2, <1>3, <1>4, <1>5

LEMMA LoginNextStep ==
  ASSUME LoginInv, LoginNext
  PROVE  LoginInv' /\ LoginOneShotStep
<1>1. ASSUME \/ \E b \in Browsers : Decide(b)
             \/ \E c \in Logins : Deadline(c) \/ HandlePoll(c) \/ ConsumeSession(c)
                                    \/ PollError(c) \/ PollDies(c)
      PROVE  LoginInv' /\ LoginOneShotStep
  <2>1. LoginInv' /\ \A d \in Logins : SessionKeeps(d)
    BY <1>1, DecideLogin, DeadlineLogin, HandlePollLogin, ConsumeLogin, PollErrorLogin,
       PollDiesLogin
  <2>2. PICK c : UNCHANGED apiToken /\ \A d \in Logins : d # c => session'[d] = session[d]
    BY <1>1, OneSessionMoves
  <2> QED
    BY <2>1, <2>2, SessionOneShot
<1>2. ASSUME NEW c \in Logins, MintForLogin(c) PROVE LoginInv' /\ LoginOneShotStep
  BY <1>2, MintLogin, MintOneShot
<1>3. ASSUME NEW c \in Logins, StartLogin(c) PROVE LoginInv' /\ LoginOneShotStep
  BY <1>3, StartLoginLogin, LoginStutter DEF StartLogin
<1>4. ASSUME NEW c \in Logins, SendPoll(c) \/ ReceiveAnswer(c) PROVE LoginInv' /\ LoginOneShotStep
  BY <1>4, SendPollLogin, ReceiveLogin, LoginStutter DEF SendPoll, ReceiveAnswer
<1>5. ASSUME \/ \E c \in Logins : CheckDeadline(c) \/ ClientTimeout(c)
             \/ StoreToken \/ NameInstance \/ LogoutKeyring \/ LogoutFile \/ Interrupt
      PROVE  LoginInv' /\ LoginOneShotStep
  <2>1. \/ CheckDeadline(cli.login) \/ ClientTimeout(cli.login)
        \/ StoreToken \/ NameInstance \/ LogoutKeyring \/ LogoutFile \/ Interrupt
    BY <1>5 DEF CheckDeadline, ClientTimeout
  <2> QED
    BY <2>1, CommandLogin, LoginStutter
<1>6. ASSUME NEW b \in Browsers, NEW r \in Requests, OpenDecision(b, r)
      PROVE  LoginInv' /\ LoginOneShotStep
  BY <1>6, SessionStep, SameSession, LoginStutter DEF OpenDecision
<1> QED
  BY <1>1, <1>2, <1>3, <1>4, <1>5, <1>6 DEF LoginNext, HandlerStep, CommandStep

LEMMA InitLoginOneShot == TokensInit /\ LoginInit => LoginIsOneShot!OneShotInit
<1> SUFFICES ASSUME TokensInit, LoginInit PROVE LoginIsOneShot!OneShotInit
  OBVIOUS
<1>1. \A c \in Logins : MintedFor(c) = {} /\ ~session[c].approvedAt
  BY NothingMinted DEF LoginInit, NoSession
<1> QED
  BY <1>1, FS_EmptySet DEF LoginIsOneShot!OneShotInit

-----------------------------------------------------------------------------
(* What the user's machine stores                                          *)

Held == Logins \cup {NoLogin}

Stored == [keyring : Held, file : Held, instance : Held, meant : Held, torn : BOOLEAN]

\* A command that is about to name the instance has stored the token the others
\* will use; one that is about to empty the file has emptied the keyring.
StoreInv ==
  /\ profile \in Stored
  /\ cli.pc \in {"storing", "naming"} => cli.login \in Logins
  /\ cli.pc = "naming" => InUse = cli.login
  /\ cli.pc = "forgetting" => profile.keyring = NoLogin
  /\ StoreIsWhatWasMeant

LEMMA InitStore == LoginInit => StoreInv
<1> SUFFICES ASSUME LoginInit PROVE StoreInv
  OBVIOUS
<1>1. cli.pc = "idle"
  BY DEF LoginInit, Idle
<1> QED
  BY <1>1 DEF LoginInit, StoreInv, Stored, Held, InUse, StoreIsWhatWasMeant

\* A command that is not between its two writes, before or after the step.
LEMMA StoreStays ==
  ASSUME StoreInv, UNCHANGED profile, cli.pc \notin {"naming", "forgetting"},
         cli'.pc \notin {"naming", "forgetting"}, cli'.pc = "storing" => cli'.login \in Logins
  PROVE  StoreInv'
<1>1. InUse' = InUse
  BY DEF InUse
<1> QED
  BY <1>1 DEF StoreInv, StoreIsWhatWasMeant

LEMMA StoreStoreToken == ASSUME StoreInv, cli \in CommandState, StoreToken PROVE StoreInv'
<1>1. PICK login \in Logins : cli.login = login /\ cli.pc = "storing"
  BY DEF StoreToken, StoreInv
<1>2. ASSUME NEW insecure \in BOOLEAN,
             profile' = [profile EXCEPT ![StoreOf(insecure)] = cli.login],
             cli' = [cli EXCEPT !.pc = "naming"]
      PROVE  StoreInv'
  <2>1. cli'.pc = "naming" /\ cli'.login = login
    BY <1>1, <1>2 DEF CommandState
  <2>2. \/ profile' = [profile EXCEPT !.file = login]
        \/ profile.file = NoLogin /\ profile' = [profile EXCEPT !.keyring = login]
    BY <1>1, <1>2 DEF StoreOf
  <2>3. profile' \in Stored /\ InUse' = login
    BY <2>2, LoginsAssumption DEF StoreInv, Stored, Held, InUse
  <2> QED
    BY <2>1, <2>3 DEF StoreInv, StoreIsWhatWasMeant
<1>3. ASSUME Ended, UNCHANGED profile PROVE StoreInv'
  BY <1>1, <1>3, StoreStays DEF Ended, Idle
<1> QED
  BY <1>2, <1>3 DEF StoreToken

LEMMA StoreNameInstance == ASSUME StoreInv, NameInstance PROVE StoreInv'
<1>1. PICK login \in Logins : cli.login = login /\ InUse = login
  BY DEF NameInstance, StoreInv
<1>2. profile' = [profile EXCEPT !.instance = login, !.meant = login, !.torn = FALSE]
  BY <1>1 DEF NameInstance
<1>3. /\ profile' \in Stored /\ profile'.instance = login /\ profile'.meant = login
      /\ InUse' = login
  BY <1>1, <1>2 DEF StoreInv, Stored, Held, InUse
<1>4. cli'.pc = "idle"
  BY DEF NameInstance, Ended, Idle
<1> QED
  BY <1>3, <1>4 DEF StoreInv, StoreIsWhatWasMeant

LEMMA StoreLogoutKeyring == ASSUME StoreInv, LogoutKeyring PROVE StoreInv'
<1>1. profile' \in Stored /\ profile'.keyring = NoLogin
  BY DEF LogoutKeyring, StoreInv, Stored, Held
<1>2. cli'.pc = "forgetting"
  BY DEF LogoutKeyring, StoreInv
<1> QED
  BY <1>1, <1>2 DEF StoreInv, StoreIsWhatWasMeant

LEMMA StoreLogoutFile == ASSUME StoreInv, LogoutFile PROVE StoreInv'
<1>1. /\ profile' \in Stored /\ profile'.keyring = NoLogin /\ profile'.file = NoLogin
      /\ profile'.meant = NoLogin
  BY DEF LogoutFile, StoreInv, Stored, Held
<1>2. cli'.pc = "idle"
  BY DEF LogoutFile, Ended, Idle
<1> QED
  BY <1>1, <1>2 DEF StoreInv, StoreIsWhatWasMeant, InUse

LEMMA StoreInterrupt == ASSUME StoreInv, Interrupt PROVE StoreInv'
<1>1. profile' \in Stored /\ profile'.torn
  BY DEF Interrupt, StoreInv, Stored
<1>2. cli'.pc = "idle"
  BY DEF Interrupt, Ended, Idle
<1> QED
  BY <1>1, <1>2 DEF StoreInv, StoreIsWhatWasMeant

\* The steps of the command that leave the store alone.
LEMMA StoreWaits ==
  ASSUME StoreInv, cli \in CommandState, NEW c \in Logins,
         \/ StartLogin(c) \/ CheckDeadline(c) \/ SendPoll(c) \/ ClientTimeout(c)
         \/ ReceiveAnswer(c)
  PROVE  StoreInv'
<1>1. \/ UNCHANGED cli /\ UNCHANGED profile
      \/ /\ cli.pc \notin {"naming", "forgetting"} /\ cli'.pc \notin {"naming", "forgetting"}
         /\ cli'.pc = "storing" => cli'.login \in Logins
         /\ UNCHANGED profile
  <2>1. CASE StartLogin(c) \/ CheckDeadline(c) \/ SendPoll(c) \/ ClientTimeout(c)
    BY <2>1 DEF StartLogin, CheckDeadline, SendPoll, ClientTimeout, Ended, Idle, CommandState
  <2>2. CASE ReceiveAnswer(c) /\ cli # [pc |-> "asking", login |-> c]
    BY <2>2 DEF ReceiveAnswer
  <2>3. CASE ReceiveAnswer(c) /\ cli = [pc |-> "asking", login |-> c]
    <3>1. \/ cli' = [cli EXCEPT !.pc = "waiting"] \/ cli' = [cli EXCEPT !.pc = "storing"]
          \/ cli' = Idle
      BY <2>3 DEF ReceiveAnswer, AfterAnswer, Ended
    <3>2. cli'.pc \in {"waiting", "storing", "idle"} /\ (cli'.pc = "storing" => cli'.login = c)
      BY <2>3, <3>1 DEF Idle, CommandState
    <3> QED
      BY <2>3, <3>2 DEF ReceiveAnswer
  <2> QED
    BY <2>1, <2>2, <2>3
<1> QED
  BY <1>1, StoreStays DEF StoreInv, StoreIsWhatWasMeant, InUse

LEMMA StoreStep == ASSUME StoreInv, LoginInv, LoginNext PROVE StoreInv'
<1>1. cli \in CommandState
  BY DEF LoginInv, LoginTypeOK
<1>2. ASSUME UNCHANGED cli /\ UNCHANGED profile PROVE StoreInv'
  BY <1>2 DEF StoreInv, StoreIsWhatWasMeant, InUse
<1>3. ASSUME \/ \E c \in Logins : Deadline(c) \/ HandlerStep(c) \/ PollError(c) \/ PollDies(c)
             \/ \E b \in Browsers : Decide(b) \/ \E r \in Requests : OpenDecision(b, r)
      PROVE  StoreInv'
  <2>1. UNCHANGED cli /\ UNCHANGED profile
    BY <1>3 DEF Deadline, HandlerStep, HandlePoll, MintForLogin, ConsumeSession, PollError,
                PollDies, OpenDecision, Decide
  <2> QED
    BY <1>2, <2>1
<1>4. ASSUME NEW c \in Logins,
             \/ StartLogin(c) \/ CheckDeadline(c) \/ SendPoll(c) \/ ClientTimeout(c)
             \/ ReceiveAnswer(c)
      PROVE  StoreInv'
  BY <1>1, <1>4, StoreWaits
<1>5. ASSUME StoreToken \/ NameInstance \/ LogoutKeyring \/ LogoutFile \/ Interrupt
      PROVE  StoreInv'
  BY <1>1, <1>5, StoreStoreToken, StoreNameInstance, StoreLogoutKeyring, StoreLogoutFile,
     StoreInterrupt
<1> QED
  BY <1>3, <1>4, <1>5 DEF LoginNext, CommandStep

-----------------------------------------------------------------------------
(* Decisions and refusals                                                  *)

\* What no statement on the session of a login may do.
KeepsDecision(c) ==
  /\ session[c].status \in {"denied", "expired"} => session'[c].status = session[c].status
  /\ session[c].status = "approved" => session'[c].status \in {"approved", "expired"}

\* The status in the WHERE clause is what keeps two browsers apart.
LEMMA MovedDecides ==
  ASSUME LoginInv, NEW c, NEW from, NEW to, Moved(c, from, to),
         from = "pending" \/ (from = "approved" /\ to = "expired")
  PROVE  \A d \in Logins : KeepsDecision(d)
<1>1. CASE session[c].status # from \/ c \notin Logins
  BY <1>1 DEF Moved, KeepsDecision, LoginInv, LoginTypeOK
<1>2. CASE session[c].status = from /\ c \in Logins
  <2>1. PICK approved : session' = [session EXCEPT ![c].status = to, ![c].approvedAt = approved]
    BY <1>2 DEF Moved
  <2>2. /\ session'[c].status = to
        /\ \A d \in Logins \ {c} : session'[d] = session[d]
    BY <1>2, <2>1 DEF LoginInv, LoginTypeOK, SessionRow
  <2> QED
    BY <1>2, <2>2 DEF KeepsDecision
<1> QED
  BY <1>1, <1>2

LEMMA DecisionStep == ASSUME LoginInv, LoginNext PROVE \A d \in Logins : KeepsDecision(d)
<1>1. ASSUME UNCHANGED session PROVE \A d \in Logins : KeepsDecision(d)
  BY <1>1 DEF KeepsDecision
<1>2. ASSUME NEW c \in Logins, Deadline(c) PROVE \A d \in Logins : KeepsDecision(d)
  BY <1>2 DEF Deadline, KeepsDecision, LoginInv, LoginTypeOK, SessionRow
<1>3. ASSUME NEW c \in Logins, StartLogin(c) PROVE \A d \in Logins : KeepsDecision(d)
  <2>1. /\ session[c].status = "none"
        /\ \A d \in Logins \ {c} : session'[d] = session[d]
    BY <1>3 DEF StartLogin, Known, LoginInv, LoginTypeOK
  <2> QED
    BY <2>1 DEF KeepsDecision
<1>4. ASSUME NEW b \in Browsers, Decide(b) PROVE \A d \in Logins : KeepsDecision(d)
  BY <1>1, <1>4, MovedDecides DEF Decide, Decided, Expired
<1>5. ASSUME NEW c \in Logins, HandlerStep(c) PROVE \A d \in Logins : KeepsDecision(d)
  <2>1. \/ Moved(c, "pending", "expired") \/ Moved(c, "approved", "expired")
        \/ UNCHANGED session
    BY <1>5 DEF HandlerStep, HandlePoll, MintForLogin, ConsumeSession, Expired
  <2> QED
    BY <1>1, <2>1, MovedDecides
<1>6. ASSUME \/ \E c \in Logins : \/ PollError(c) \/ PollDies(c) \/ CheckDeadline(c)
                                  \/ SendPoll(c) \/ ReceiveAnswer(c) \/ ClientTimeout(c)
             \/ \E b \in Browsers, r \in Requests : OpenDecision(b, r)
             \/ StoreToken \/ NameInstance \/ LogoutKeyring \/ LogoutFile \/ Interrupt
      PROVE  UNCHANGED session
  BY <1>6 DEF PollError, PollDies, CheckDeadline, SendPoll, ReceiveAnswer, ClientTimeout,
              OpenDecision, StoreToken, NameInstance, LogoutKeyring, LogoutFile, Interrupt
<1> QED
  BY <1>1, <1>2, <1>3, <1>4, <1>5, <1>6 DEF LoginNext, CommandStep

-----------------------------------------------------------------------------
(* The three ways to a token, together                                      *)

HolderInv == TokensInv /\ LoginInv /\ StoreInv /\ CodesInv

\* What a step may never do to a token or to the decision on a login.
HolderKeeps ==
  /\ \A t \in Tokens : KeepsRefusals(t)
  /\ \A c \in Logins : KeepsDecision(c)

LEMMA InitHolder == HoldersInit => HolderInv
  BY InitTokens, InitLogin, InitStore, InitCodes DEF HoldersInit, HolderInv

LEMMA SameSessionsKeep == UNCHANGED session => \A c \in Logins : KeepsDecision(c)
  BY DEF KeepsDecision

LEMMA SameStore == ASSUME StoreInv, UNCHANGED loginVars PROVE StoreInv'
  BY DEF loginVars, StoreInv, StoreIsWhatWasMeant, InUse

\* A step of the requests leaves the logins and the codes to themselves.
LEMMA RequestsStep ==
  ASSUME HolderInv, TokensNext, UNCHANGED <<loginVars, codeVars>>
  PROVE  /\ HolderInv' /\ HolderKeeps /\ LoginOneShotStep
         /\ UNCHANGED <<GrantedCodes, SpentCodes>>
<1>1. TokensInv' /\ TokensKeep
  BY TokensStep DEF HolderInv
<1>2. /\ apiToken' \in [Tokens -> TokenRow(TokenOrigins)]
      /\ \A c \in Logins : KeepsMinted(c)
      /\ \A k \in Codes : KeepsMinted(k)
      /\ \A t \in Tokens : KeepsRefusals(t)
  BY <1>1 DEF TokensInv, TokensTypeOK, TokensKeep
<1>3. UNCHANGED loginVars /\ UNCHANGED codeVars /\ UNCHANGED session /\ UNCHANGED mcpCode
  BY DEF loginVars, codeVars
<1> QED
  BY <1>1, <1>2, <1>3, LoginElsewhere, CodesMintNothing, CodesElsewhere, SameStore,
     SameSessionsKeep DEF HolderInv, HolderKeeps

\* A step of the logins is no step of a token, or it mints one.
LEMMA LoginTokens ==
  ASSUME HolderInv, LoginNext
  PROVE  /\ TokensInv' /\ \A t \in Tokens : KeepsRefusals(t)
         /\ \A k \in Codes : KeepsMinted(k)
<1>1. ASSUME NEW b \in Browsers, NEW r \in Requests, OpenDecision(b, r)
      PROVE  TokensInv' /\ TokensKeep
  BY <1>1, ServedTokens DEF OpenDecision, HolderInv
<1>2. ASSUME NEW c \in Logins, MintForLogin(c), UNCHANGED bearer
      PROVE  /\ TokensInv' /\ \A t \in Tokens : KeepsRefusals(t)
             /\ \A k \in Codes : KeepsMinted(k)
  <2>1. /\ Generated(NoSpace, c) /\ NoSpace \in Spaces \cup {NoSpace} /\ c \in TokenOrigins
        /\ MayMint(NoSpace, c)
    BY <1>2, LoginsAssumption DEF MintForLogin, TokenOrigins, MayMint
  <2>2. NoneLearns
    BY <1>2 DEF NoneLearns, HolderInv, TokensInv, TokensTypeOK
  <2>3. TokensInv' /\ \A t \in Tokens : KeepsRefusals(t)
    BY <2>1, <2>2, MintTokens DEF HolderInv
  <2>4. \A k \in Codes : KeepsMinted(k)
    BY <1>2, MintLogin, OriginsAssumption DEF HolderInv
  <2> QED
    BY <2>3, <2>4
<1>3. ASSUME UNCHANGED apiToken, UNCHANGED bearer PROVE TokensInv' /\ TokensKeep
  BY <1>3, IdleTokens DEF tokenVars, HolderInv
<1>4. ASSUME \/ \E c \in Logins : \/ Deadline(c) \/ HandlePoll(c) \/ ConsumeSession(c)
                                  \/ PollError(c) \/ PollDies(c) \/ StartLogin(c)
                                  \/ ReceiveAnswer(c) \/ ClientTimeout(c) \/ CheckDeadline(c)
                                  \/ SendPoll(c)
             \/ \E b \in Browsers : Decide(b)
             \/ StoreToken \/ NameInstance \/ LogoutKeyring \/ LogoutFile \/ Interrupt
      PROVE  UNCHANGED apiToken
  BY <1>4 DEF Deadline, HandlePoll, ConsumeSession, PollError, PollDies, StartLogin,
              ReceiveAnswer, ClientTimeout, CheckDeadline, SendPoll, Decide,
              StoreToken, NameInstance, LogoutKeyring, LogoutFile, Interrupt
<1> QED
  BY <1>1, <1>2, <1>3, <1>4 DEF LoginNext, HandlerStep, CommandStep, TokensKeep

LEMMA LoginsStep ==
  ASSUME HolderInv, LoginNext, UNCHANGED codeVars
  PROVE  /\ HolderInv' /\ HolderKeeps /\ LoginOneShotStep
         /\ UNCHANGED <<GrantedCodes, SpentCodes>>
<1>1. /\ TokensInv' /\ \A t \in Tokens : KeepsRefusals(t)
      /\ \A k \in Codes : KeepsMinted(k)
  BY LoginTokens
<1>2. LoginInv' /\ StoreInv' /\ LoginOneShotStep /\ \A c \in Logins : KeepsDecision(c)
  BY LoginNextStep, StoreStep, DecisionStep DEF HolderInv
<1>3. apiToken' \in [Tokens -> TokenRow(TokenOrigins)] /\ UNCHANGED mcpCode
  BY <1>1 DEF TokensInv, TokensTypeOK, codeVars
<1> QED
  BY <1>1, <1>2, <1>3, CodesMintNothing, CodesElsewhere DEF HolderInv, HolderKeeps

\* A step of the codes is no step of a token, or it mints one.
LEMMA CodeTokens ==
  ASSUME HolderInv, CodesNext
  PROVE  /\ TokensInv' /\ \A t \in Tokens : KeepsRefusals(t)
         /\ \A c \in Logins : KeepsMinted(c)
<1>1. ASSUME NEW k \in Codes, NEW r \in Requests, Authorize(k, r)
      PROVE  TokensInv' /\ TokensKeep
  BY <1>1, ServedTokens DEF Authorize, HolderInv
<1>2. ASSUME NEW e \in Exchanges, MintForCode(e), UNCHANGED bearer
      PROVE  /\ TokensInv' /\ \A t \in Tokens : KeepsRefusals(t)
             /\ \A c \in Logins : KeepsMinted(c)
  <2>1. PICK k, workspace : k = exchange[e].code /\ workspace = exchange[e].workspace
    OBVIOUS
  <2>2. k \in Codes /\ \A c : c # k => KeepsMinted(c)
    BY <1>2, <2>1, MintCodes DEF HolderInv
  <2>3. Generated(workspace, k) /\ workspace \in Spaces \cup {NoSpace}
    BY <1>2, <2>1 DEF MintForCode, HolderInv, CodesInv, CodesTypeOK, ExchangeState
  <2>4. k \in TokenOrigins /\ MayMint(workspace, k)
    BY <2>2, CodesAssumption DEF TokenOrigins, MayMint
  <2>5. NoneLearns
    BY <1>2 DEF NoneLearns, HolderInv, TokensInv, TokensTypeOK
  <2>6. TokensInv' /\ \A t \in Tokens : KeepsRefusals(t)
    BY <2>3, <2>4, <2>5, MintTokens DEF HolderInv
  <2>7. \A c \in Logins : KeepsMinted(c)
    BY <2>2, OriginsAssumption
  <2> QED
    BY <2>6, <2>7
<1>3. ASSUME UNCHANGED apiToken, UNCHANGED bearer PROVE TokensInv' /\ TokensKeep
  BY <1>3, IdleTokens DEF tokenVars, HolderInv
<1>4. ASSUME \/ \E k \in Codes : CodeDue(k)
             \/ \E e \in Exchanges : ReadCode(e) \/ ConsumeCode(e) \/ ExchangeFails(e)
      PROVE  UNCHANGED apiToken
  BY <1>4 DEF CodeDue, ReadCode, ConsumeCode, ExchangeFails
<1> QED
  BY <1>1, <1>2, <1>3, <1>4 DEF CodesNext, TokensKeep

LEMMA McpStep ==
  ASSUME HolderInv, CodesNext, UNCHANGED loginVars
  PROVE  /\ HolderInv' /\ HolderKeeps /\ LoginOneShotStep
         /\ [CodeIsOneShot!OneShotNext]_<<GrantedCodes, SpentCodes>>
<1>1. /\ TokensInv' /\ \A t \in Tokens : KeepsRefusals(t)
      /\ \A c \in Logins : KeepsMinted(c)
  BY CodeTokens
<1>2. CodesInv' /\ [CodeIsOneShot!OneShotNext]_<<GrantedCodes, SpentCodes>>
  BY CodesStep, CodesOneShot DEF HolderInv
<1>3. apiToken' \in [Tokens -> TokenRow(TokenOrigins)] /\ UNCHANGED session
  BY <1>1 DEF TokensInv, TokensTypeOK, loginVars
<1> QED
  BY <1>1, <1>2, <1>3, LoginElsewhere, SameStore, SameSessionsKeep DEF HolderInv, HolderKeeps

\* Everything a step does, whoever takes it.
LEMMA HolderStep ==
  ASSUME HolderInv, [HoldersNext]_holderVars
  PROVE  /\ HolderInv' /\ HolderKeeps /\ LoginOneShotStep
         /\ [CodeIsOneShot!OneShotNext]_<<GrantedCodes, SpentCodes>>
<1>1. CASE TokensNext /\ UNCHANGED <<loginVars, codeVars>>
  BY <1>1, RequestsStep
<1>2. CASE LoginNext /\ UNCHANGED codeVars
  BY <1>2, LoginsStep
<1>3. CASE CodesNext /\ UNCHANGED loginVars
  BY <1>3, McpStep
<1>4. CASE UNCHANGED holderVars
  <2>1. /\ UNCHANGED tokenVars /\ UNCHANGED loginVars /\ UNCHANGED codeVars
        /\ UNCHANGED session /\ UNCHANGED mcpCode
    BY <1>4 DEF holderVars, loginVars, codeVars
  <2>2. TokensInv' /\ TokensKeep
    BY <2>1, IdleTokens DEF HolderInv
  <2>3. /\ apiToken' \in [Tokens -> TokenRow(TokenOrigins)]
        /\ \A c \in Logins : KeepsMinted(c)
        /\ \A k \in Codes : KeepsMinted(k)
        /\ \A t \in Tokens : KeepsRefusals(t)
    BY <2>2 DEF TokensInv, TokensTypeOK, TokensKeep
  <2> QED
    BY <2>1, <2>2, <2>3, LoginElsewhere, CodesMintNothing, CodesElsewhere, SameStore,
       SameSessionsKeep DEF HolderInv, HolderKeeps
<1> QED
  BY <1>1, <1>2, <1>3, <1>4 DEF HoldersNext

\* The inductive invariant holds in every behaviour of the three together.
THEOREM HolderInvariant == HoldersSpec => []HolderInv
<1>1. HolderInv /\ [HoldersNext]_holderVars => HolderInv'
  BY HolderStep
<1> QED
  BY <1>1, InitHolder, PTL DEF HoldersSpec

\* What a token creates stays in its workspace, what a code buys in the one that
\* was allowed, the command line uses the token it was last given, and a code is
\* exchanged by one request: for any number of requests, logins and exchanges
\* that run together, whichever bearer approves them.
THEOREM HolderSafetyHolds == HoldersSpec => []HolderSafety
<1>1. HolderInv => HolderSafety
  BY DEF HolderInv, HolderSafety, TokensInv, StoreInv, CodesInv
<1> QED
  BY <1>1, HolderInvariant, PTL

\* A code is granted once and buys at most one token (ExchangeCode), beside
\* tokens and logins.
THEOREM CodesImplementOneShotHolds == HoldersSpec => CodesImplementOneShot
<1>1. HolderInv /\ [HoldersNext]_holderVars
        => [CodeIsOneShot!OneShotNext]_<<GrantedCodes, SpentCodes>>
  BY HolderStep
<1>2. HoldersInit => CodeIsOneShot!OneShotInit
  BY InitCodesOneShot DEF HoldersInit
<1> QED
  BY <1>1, <1>2, HolderInvariant, PTL
  DEF HoldersSpec, CodesImplementOneShot, CodeIsOneShot!OneShotSpec, GrantedCodes, SpentCodes

\* A login buys one token at most, and only after it was approved, although
\* consumeApprovedSession mints first and consumes afterwards.
THEOREM LoginImplementsOneShotHolds == HoldersSpec => LoginImplementsOneShot
<1>1. HolderInv /\ [HoldersNext]_holderVars
        => [LoginIsOneShot!OneShotNext]_<<ApprovedLogins, SpentLogins>>
  BY HolderStep DEF LoginOneShotStep
<1>2. HoldersInit => LoginIsOneShot!OneShotInit
  BY InitLoginOneShot DEF HoldersInit
<1> QED
  BY <1>1, <1>2, HolderInvariant, PTL
  DEF HoldersSpec, LoginImplementsOneShot, LoginIsOneShot!OneShotSpec, ApprovedLogins, SpentLogins

-----------------------------------------------------------------------------
(* Registration, second factors and web sessions                           *)

ChallengeRow == [type : {"none", "gone", "login", "passkeyLogin", "totpSetup", "passkeySetup"},
                 due  : BOOLEAN]

WebRow == [state  : {"none", "active", "revoked"},
           lapsed : BOOLEAN,
           used   : BOOLEAN,
           by     : Challenges \cup {NoChallenge}]

\* The writes a handler may still have to make.
Todos == {<<>>, <<"issue">>, <<"login">>, <<"passkeyLogin">>, <<"totpSetup">>, <<"totpOff">>,
          <<"passkeySetup">>, <<"consume">>, <<"consume", "issue">>, <<"totp", "consume">>,
          <<"passkey", "consume">>}

Seen == (SUBSET Emails) \cup Challenges \cup {NoChallenge} \cup WebSessions
Sights == {<<>>} \cup {<<x>> : x \in Seen}

CallState ==
  [op    : {"idle", "registering", "methods", "writing", "verifyTOTP", "beginPasskeyLogin",
            "finishPasskeyLogin", "confirmTOTP", "finishPasskey", "validated", "signedIn"},
   about : Challenges \cup {NoChallenge},
   row   : WebRow,
   email : Emails \cup {""},
   saw   : Sights,
   todo  : Todos]

SignInTypeOK ==
  /\ user \in [Emails -> {"none", "member", "admin"}]
  /\ totp \in Challenges \cup {NoChallenge} /\ scanned \subseteq Challenges
  /\ challenge \in [Challenges -> ChallengeRow]
  /\ web \in [WebSessions -> WebRow]
  /\ call \in [Calls -> CallState]

\* What a request may rely on when its next statement runs.
CallOK(c) ==
  /\ c.op # "writing" => c.todo = <<>>
  /\ c.op \in {"verifyTOTP", "finishPasskeyLogin"} => c.about \in Challenges
  /\ c.todo = <<"consume", "issue">> => c.about \in Challenges
  /\ c.todo = <<"issue">> => c.about = NoChallenge \/ challenge[c.about].type = "gone"
  /\ c.todo = <<"totp", "consume">> => c.about \in scanned
  /\ c.op = "registering" => /\ c.email \in Emails
                             /\ registrationsDisabled => c.saw = <<{}>>

CallsOK == \A r \in Calls : CallOK(call[r])

\* A session that was not issued is not refused either.
UnissuedSessionsAreBlank == \A s \in WebSessions : web[s].state = "none" => ~web[s].lapsed

Admins == {e \in Emails : user[e] = "admin"}

\* With transactions that are serialized, the first account is the admin.
FirstIsAdmin == Serializable =>
  /\ Registered = {} \/ \E e \in Emails : Admins = {e}
  /\ registrationsDisabled => Registered = {} \/ \E e \in Emails : Registered = {e}

SignInInv ==
  /\ SignInTypeOK /\ CallsOK
  /\ UnissuedSessionsAreBlank
  /\ FirstIsAdmin
  /\ SecretWasScanned
  /\ ChallengeIsSpent

LEMMA AdminIsOne == Serializable /\ FirstIsAdmin => OneAdmin
<1> SUFFICES ASSUME Serializable, FirstIsAdmin PROVE OneAdmin
  OBVIOUS
<1>1. \A x : Cardinality({x}) = 1
  BY FS_Singleton
<1>2. Cardinality({}) = 0
  BY FS_EmptySet
<1>3. Registered # {} => Cardinality(Admins) = 1
  BY <1>1 DEF FirstIsAdmin
<1>4. registrationsDisabled => Cardinality(Registered) <= 1
  BY <1>1, <1>2 DEF FirstIsAdmin
<1> QED
  BY <1>3, <1>4 DEF OneAdmin, Admins

LEMMA IdleCall == NoCall \in CallState /\ CallOK(NoCall) /\ CallOK(NoCall)'
<1>1. NoWeb \in WebRow
  BY DEF NoWeb, WebRow
<1>2. <<>> \in Todos /\ <<>> \in Sights
  BY DEF Todos, Sights
<1>3. NoCall \in CallState
  BY <1>1, <1>2 DEF NoCall, CallState
<1>4. /\ NoCall.op = "idle" /\ NoCall.todo = <<>>
  BY DEF NoCall
<1> QED
  BY <1>3, <1>4 DEF CallOK

LEMMA InitSignIn == SignInInit => SignInInv
<1> SUFFICES ASSUME SignInInit PROVE SignInInv
  OBVIOUS
<1>1. NoRow \in ChallengeRow /\ NoWeb \in WebRow
  BY DEF NoRow, NoWeb, ChallengeRow, WebRow
<1>2. SignInTypeOK
  BY <1>1, IdleCall DEF SignInInit, SignInTypeOK
<1>3. CallsOK
  BY IdleCall DEF SignInInit, CallsOK
<1>4. Registered = {}
  BY DEF SignInInit, Registered
<1>5. /\ UnissuedSessionsAreBlank /\ ChallengeIsSpent /\ SecretWasScanned
  BY DEF SignInInit, NoWeb, UnissuedSessionsAreBlank, ChallengeIsSpent, SecretWasScanned
<1> QED
  BY <1>2, <1>3, <1>4, <1>5 DEF SignInInv, FirstIsAdmin

\* What no statement on a web session may take back.
KeepsWeb ==
  \A s \in WebSessions : /\ web[s].state = "revoked" => web'[s].state = "revoked"
                         /\ web[s].lapsed => web'[s].lapsed

\* Secrets stay in the app, and a challenge that was deleted stays deleted.
KeepsFacts ==
  /\ scanned \subseteq scanned'
  /\ \A k \in Challenges : challenge[k].type = "gone" => challenge'[k].type = "gone"
  /\ UNCHANGED registrationsDisabled

LEMMA CallsMove ==
  ASSUME SignInInv, KeepsFacts, NEW r \in Calls, NEW p \in CallState, CallOK(p)',
         call' = [call EXCEPT ![r] = p]
  PROVE  call' \in [Calls -> CallState] /\ CallsOK'
<1>1. /\ call' \in [Calls -> CallState] /\ call'[r] = p
      /\ \A q \in Calls \ {r} : call'[q] = call[q] /\ call[q] \in CallState
  BY DEF SignInInv, SignInTypeOK
<1>2. ASSUME NEW c \in CallState, CallOK(c) PROVE CallOK(c)'
  BY <1>2 DEF CallOK, KeepsFacts, CallState
<1>3. \A q \in Calls \ {r} : CallOK(call[q])'
  BY <1>1, <1>2 DEF SignInInv, CallsOK
<1> QED
  BY <1>1, <1>3 DEF CallsOK

\* Requests that stay where they are.
LEMMA CallsStay ==
  ASSUME SignInInv, KeepsFacts, UNCHANGED call
  PROVE  call' \in [Calls -> CallState] /\ CallsOK'
<1>1. ASSUME NEW c \in CallState, CallOK(c) PROVE CallOK(c)'
  BY <1>1 DEF CallOK, KeepsFacts, CallState
<1> QED
  BY <1>1 DEF SignInInv, SignInTypeOK, CallsOK

\* A step that reads: only the request moves.
LEMMA ReadMoves ==
  ASSUME SignInInv, UNCHANGED registrationsDisabled, Reads,
         NEW r \in Calls, NEW p \in CallState, CallOK(p), call' = [call EXCEPT ![r] = p]
  PROVE  SignInInv' /\ KeepsWeb
<1>1. UNCHANGED <<user, totp, passkeys, scanned, challenge, web>>
  BY DEF Reads, accountVars
<1>2. KeepsFacts /\ KeepsWeb
  BY <1>1 DEF KeepsFacts, KeepsWeb
<1>3. CallOK(p)'
  BY <1>1 DEF CallOK
<1>4. call' \in [Calls -> CallState] /\ CallsOK'
  BY <1>2, <1>3, CallsMove
<1> QED
  BY <1>1, <1>2, <1>4
  DEF SignInInv, SignInTypeOK, UnissuedSessionsAreBlank, FirstIsAdmin, Registered, Admins,
      SecretWasScanned, ChallengeIsSpent

\* What Writes leaves in the request.
LEMMA WritesCall ==
  ASSUME NEW about \in Challenges \cup {NoChallenge}, NEW todo \in Todos
  PROVE  /\ Writes(about, todo) \in CallState
         /\ Writes(about, todo).about = about /\ Writes(about, todo).todo = todo
         /\ Writes(about, todo).op = IF todo = <<>> THEN "idle" ELSE "writing"
<1>1. PICK op \in {"idle", "writing"} : op = IF todo = <<>> THEN "idle" ELSE "writing"
  OBVIOUS
<1>2. Writes(about, todo) = [NoCall EXCEPT !.op = op, !.about = about, !.todo = todo]
  BY <1>1 DEF Writes
<1> QED
  BY <1>1, <1>2, IdleCall DEF CallState

LEMMA WritesOK ==
  ASSUME NEW about \in Challenges \cup {NoChallenge}, NEW todo \in Todos,
         todo = <<"consume", "issue">> => about \in Challenges,
         todo = <<"issue">> => about = NoChallenge \/ challenge[about].type = "gone",
         todo = <<"totp", "consume">> => about \in scanned
  PROVE  CallOK(Writes(about, todo))
<1>1. PICK c : c = Writes(about, todo)
  OBVIOUS
<1>2. /\ c.about = about /\ c.todo = todo /\ c.op = IF todo = <<>> THEN "idle" ELSE "writing"
  BY <1>1, WritesCall
<1> QED
  BY <1>1, <1>2 DEF CallOK

\* What is left when a statement was made.
LEMMA TodoTails ==
  ASSUME NEW todo \in Todos, todo # <<>>
  PROVE  /\ Tail(todo) \in Todos
         /\ Tail(todo) = <<"issue">> => todo = <<"consume", "issue">>
         /\ Tail(todo) # <<"consume", "issue">> /\ Tail(todo) # <<"totp", "consume">>
         /\ Head(todo) = "totp" => todo = <<"totp", "consume">>
         /\ Head(todo) = "issue" => todo = <<"issue">>
         /\ Head(todo) = "consume" => todo \in {<<"consume">>, <<"consume", "issue">>}
<1>1. \A x, y : Head(<<x>>) = x /\ Tail(<<x>>) = <<>> /\ Head(<<x, y>>) = x /\ Tail(<<x, y>>) = <<y>>
  OBVIOUS
<1>2. CASE \E x : todo = <<x>>
  BY <1>1, <1>2 DEF Todos
<1>3. ASSUME NEW x, NEW y \in {"issue", "consume"}, todo = <<x, y>>,
             x \in {"consume", "totp", "passkey"},
             y = "issue" <=> x = "consume"
      PROVE  /\ Head(todo) = x /\ Tail(todo) = <<y>>
             /\ <<y>> \in Todos
             /\ <<y>> # <<"consume", "issue">> /\ <<y>> # <<"totp", "consume">>
             /\ <<y>> = <<"issue">> => x = "consume"
  BY <1>1, <1>3 DEF Todos
<1>4. CASE todo = <<"consume", "issue">>
  BY <1>3, <1>4
<1>5. CASE todo = <<"totp", "consume">>
  BY <1>3, <1>5
<1>6. CASE todo = <<"passkey", "consume">>
  BY <1>3, <1>6
<1> QED
  BY <1>2, <1>4, <1>5, <1>6 DEF Todos

-----------------------------------------------------------------------------
(* The statements of the web client's handlers                             *)

\* The request that runs.
LEMMA Running ==
  ASSUME SignInInv, NEW r \in Calls
  PROVE  call[r] \in CallState /\ CallOK(call[r])
  BY DEF SignInInv, SignInTypeOK, CallsOK

\* A request that begins knows what it was asked for.
LEMMA BegunCall ==
  ASSUME NEW op \in {"methods", "validated", "signedIn"}, NEW row \in WebRow, NEW saw \in Sights,
         NEW c, c = [op |-> op, about |-> NoChallenge, row |-> row, email |-> "", saw |-> saw,
                     todo |-> <<>>]
  PROVE  c \in CallState /\ CallOK(c)
<1>1. c \in CallState /\ c.op = op /\ c.todo = <<>>
  BY IdleCall DEF CallState, Todos
<1> QED
  BY <1>1 DEF CallOK

LEMMA SeenOne ==
  ASSUME NEW x, x \in Challenges \cup {NoChallenge} \/ x \in WebSessions \/ x \in SUBSET Emails
  PROVE  <<x>> \in Sights
<1>1. x \in Seen
  BY Zenon DEF Seen
<1> QED
  BY <1>1 DEF Sights

LEMMA LoginReads ==
  ASSUME SignInInv, UNCHANGED registrationsDisabled, NEW r \in Calls, Login(r)
  PROVE  SignInInv' /\ KeepsWeb
<1>1. PICK p : p = [NoCall EXCEPT !.op = "methods", !.saw = <<totp>>]
  OBVIOUS
<1>2. p = [op |-> "methods", about |-> NoChallenge, row |-> NoWeb, email |-> "",
           saw |-> <<totp>>, todo |-> <<>>]
  BY <1>1 DEF NoCall
<1>3. totp \in Challenges \cup {NoChallenge}
  BY DEF SignInInv, SignInTypeOK
<1>4. <<totp>> \in Sights /\ NoWeb \in WebRow
  BY <1>3, SeenOne DEF NoWeb, WebRow
<1>5. p \in CallState /\ CallOK(p)
  BY <1>2, <1>4, BegunCall
<1> QED
  BY <1>1, <1>5, ReadMoves DEF Login, Begin

LEMMA ValidateReads ==
  ASSUME SignInInv, UNCHANGED registrationsDisabled, NEW r \in Calls, ValidateSession(r)
  PROVE  SignInInv' /\ KeepsWeb
<1>1. PICK s \in WebSessions :
        Begin(r, [NoCall EXCEPT !.op = "validated", !.row = web[s], !.saw = <<s>>])
  BY DEF ValidateSession
<1>2. <<s>> \in Sights /\ web[s] \in WebRow
  BY SeenOne DEF SignInInv, SignInTypeOK
<1>3. PICK p : p = [NoCall EXCEPT !.op = "validated", !.row = web[s], !.saw = <<s>>]
  OBVIOUS
<1>4. p = [op |-> "validated", about |-> NoChallenge, row |-> web[s], email |-> "",
           saw |-> <<s>>, todo |-> <<>>]
  BY <1>3 DEF NoCall
<1>5. p \in CallState /\ CallOK(p)
  BY <1>2, <1>4, BegunCall
<1> QED
  BY <1>1, <1>3, <1>5, ReadMoves DEF ValidateSession, Begin

\* A handler has decided what it will write.
LEMMA DecidedWrites ==
  ASSUME SignInInv, UNCHANGED registrationsDisabled, NEW r \in Calls, Reads,
         NEW about \in Challenges \cup {NoChallenge}, NEW todo \in Todos,
         todo = <<"consume", "issue">> => about \in Challenges,
         todo = <<"issue">> => about = NoChallenge,
         todo = <<"totp", "consume">> => about \in scanned,
         call' = [call EXCEPT ![r] = Writes(about, todo)]
  PROVE  SignInInv' /\ KeepsWeb
<1>1. Writes(about, todo) \in CallState /\ CallOK(Writes(about, todo))
  BY WritesCall, WritesOK
<1> QED
  BY <1>1, ReadMoves

LEMMA HandlersDecide ==
  ASSUME SignInInv, UNCHANGED registrationsDisabled, NEW r \in Calls,
         \/ EnabledMFAMethods(r) \/ VerifyTOTPLogin(r) \/ BeginPasskeyLogin(r)
         \/ FinishPasskeyLogin(r) \/ BeginTOTPSetup(r) \/ ConfirmTOTPSetup(r)
         \/ DisableTOTP(r) \/ BeginPasskeyRegistration(r) \/ FinishPasskeyRegistration(r)
  PROVE  SignInInv' /\ KeepsWeb
<1>1. PICK about : about = call[r].about
  OBVIOUS
<1>2. /\ about \in Challenges \cup {NoChallenge}
      /\ call[r].op \in {"verifyTOTP", "finishPasskeyLogin"} => about \in Challenges
  BY <1>1, Running DEF CallState, CallOK
<1>3. /\ <<"issue">> \in Todos /\ <<"login">> \in Todos /\ <<"consume", "issue">> \in Todos
      /\ <<"passkeyLogin">> \in Todos /\ <<"totpSetup">> \in Todos
      /\ <<"totp", "consume">> \in Todos /\ <<"totpOff">> \in Todos
      /\ <<"passkeySetup">> \in Todos /\ <<"passkey", "consume">> \in Todos
  BY DEF Todos
<1>4. /\ Reads
      /\ \E c \in Challenges \cup {NoChallenge}, todo \in Todos :
           /\ todo = <<"consume", "issue">> => c \in Challenges
           /\ todo = <<"issue">> => c = NoChallenge
           /\ todo = <<"totp", "consume">> => c \in scanned
           /\ call' = [call EXCEPT ![r] = Writes(c, todo)]
  <2>1. CASE EnabledMFAMethods(r)
    BY <1>3, <2>1 DEF EnabledMFAMethods, Continue
  <2>2. CASE VerifyTOTPLogin(r)
    BY <1>1, <1>2, <1>3, <2>2 DEF VerifyTOTPLogin, Continue, ConsumeThenIssue
  <2>3. CASE BeginPasskeyLogin(r)
    BY <1>3, <2>3 DEF BeginPasskeyLogin, Continue
  <2>4. CASE FinishPasskeyLogin(r)
    BY <1>1, <1>2, <1>3, <2>4 DEF FinishPasskeyLogin, Continue, ConsumeThenIssue
  <2>5. CASE BeginTOTPSetup(r)
    <3>1. PICK c : c = FreshChallenge
      OBVIOUS
    <3>2. c \in Challenges
      BY <2>5, <3>1 DEF BeginTOTPSetup, FreshChallenge, NewChallenge
    <3> QED
      BY <1>3, <2>5, <3>1, <3>2 DEF BeginTOTPSetup, Begin, StoreInChallenge
  <2>6. CASE ConfirmTOTPSetup(r)
    BY <1>1, <1>2, <1>3, <2>6 DEF ConfirmTOTPSetup, Continue
  <2>7. CASE DisableTOTP(r)
    BY <1>3, <2>7 DEF DisableTOTP, Begin
  <2>8. CASE BeginPasskeyRegistration(r)
    BY <1>3, <2>8 DEF BeginPasskeyRegistration, Begin
  <2>9. CASE FinishPasskeyRegistration(r)
    BY <1>1, <1>2, <1>3, <2>9 DEF FinishPasskeyRegistration, Continue
  <2> QED
    BY <2>1, <2>2, <2>3, <2>4, <2>5, <2>6, <2>7, <2>8, <2>9
<1> QED
  BY <1>4, DecidedWrites

\* The handler ends.
LEMMA EndsRead ==
  ASSUME SignInInv, UNCHANGED registrationsDisabled, NEW r \in Calls,
         Refuse(r) \/ RegistrationFails(r)
  PROVE  SignInInv' /\ KeepsWeb
<1>1. Reads /\ call' = [call EXCEPT ![r] = NoCall]
  BY DEF Refuse, RegistrationFails, Reads, Continue
<1> QED
  BY <1>1, IdleCall, ReadMoves

\* Steps on challenges alone, which none of them brings back.
LEMMA ChallengesMove ==
  ASSUME SignInInv, KeepsFacts, challenge' \in [Challenges -> ChallengeRow],
         call' \in [Calls -> CallState], CallsOK', scanned' \subseteq Challenges,
         UNCHANGED <<user, totp, web>>
  PROVE  SignInInv' /\ KeepsWeb
<1>1. SignInTypeOK'
  BY DEF SignInInv, SignInTypeOK
<1>2. ChallengeIsSpent'
  BY DEF KeepsFacts, SignInInv, SignInTypeOK, WebRow, ChallengeIsSpent
<1> QED
  BY <1>1, <1>2
  DEF SignInInv, UnissuedSessionsAreBlank, FirstIsAdmin, Registered, Admins, SecretWasScanned,
      KeepsFacts, KeepsWeb

LEMMA GetChallengeMoves ==
  ASSUME SignInInv, UNCHANGED registrationsDisabled, NEW r \in Calls, GetChallenge(r)
  PROVE  SignInInv' /\ KeepsWeb
<1>1. PICK k \in Challenges :
        /\ challenge[k].type \in DOMAIN Answers
        /\ \/ ~challenge[k].due /\ UNCHANGED challenge
              /\ \E op \in {Answers[challenge[k].type]} \cup
                           (IF challenge[k].type = "login" THEN {"beginPasskeyLogin"} ELSE {}) :
                   Begin(r, [NoCall EXCEPT !.op = op, !.about = k])
           \/ challenge[k].due /\ Deleted(k) /\ Begin(r, NoCall)
  BY DEF GetChallenge
<1>2. ASSUME NEW op \in {"verifyTOTP", "beginPasskeyLogin", "finishPasskeyLogin", "confirmTOTP",
                         "finishPasskey"}
      PROVE  /\ [NoCall EXCEPT !.op = op, !.about = k] \in CallState
             /\ CallOK([NoCall EXCEPT !.op = op, !.about = k])
  <2>1. PICK c : c = [NoCall EXCEPT !.op = op, !.about = k]
    OBVIOUS
  <2>2. c \in CallState /\ c.op = op /\ c.about = k /\ c.todo = <<>>
    BY <2>1, IdleCall DEF CallState, NoCall
  <2> QED
    BY <2>1, <2>2 DEF CallOK
<1>3. ASSUME UNCHANGED challenge,
             NEW op \in {Answers[challenge[k].type]} \cup
                        (IF challenge[k].type = "login" THEN {"beginPasskeyLogin"} ELSE {}),
             Begin(r, [NoCall EXCEPT !.op = op, !.about = k])
      PROVE  SignInInv' /\ KeepsWeb
  <2>1. op \in {"verifyTOTP", "beginPasskeyLogin", "finishPasskeyLogin", "confirmTOTP",
                "finishPasskey"}
    <3>1. PICK type : type = challenge[k].type
      OBVIOUS
    <3>2. type \in {"login", "passkeyLogin", "totpSetup", "passkeySetup"}
      BY <1>1, <3>1 DEF Answers
    <3>3. Answers[type] \in {"verifyTOTP", "finishPasskeyLogin", "confirmTOTP", "finishPasskey"}
      BY <3>2 DEF Answers
    <3> QED
      BY <1>3, <3>1, <3>3
  <2>2. Reads
    BY <1>3 DEF GetChallenge, Reads, accountVars
  <2>3. call' = [call EXCEPT ![r] = [NoCall EXCEPT !.op = op, !.about = k]]
    BY <1>3 DEF Begin
  <2> QED
    BY <1>2, <2>1, <2>2, <2>3, ReadMoves
<1>4. ASSUME Deleted(k), Begin(r, NoCall) PROVE SignInInv' /\ KeepsWeb
  <2>1. /\ challenge' \in [Challenges -> ChallengeRow] /\ KeepsFacts
    <3>1. challenge' = [challenge EXCEPT ![k].type = "gone"]
      BY <1>4 DEF Deleted
    <3>2. /\ challenge' \in [Challenges -> ChallengeRow] /\ challenge'[k].type = "gone"
          /\ \A c \in Challenges \ {k} : challenge'[c] = challenge[c]
      BY <3>1 DEF SignInInv, SignInTypeOK, ChallengeRow
    <3>3. UNCHANGED scanned
      BY DEF GetChallenge
    <3> QED
      BY <3>2, <3>3 DEF KeepsFacts
  <2>2. call' = [call EXCEPT ![r] = NoCall]
    BY <1>4 DEF Begin
  <2>3. call' \in [Calls -> CallState] /\ CallsOK'
    BY <2>1, <2>2, CallsMove, IdleCall
  <2> QED
    BY <2>1, <2>3, ChallengesMove DEF GetChallenge, SignInInv, SignInTypeOK
<1> QED
  BY <1>1, <1>3, <1>4

LEMMA FallDueMoves ==
  ASSUME SignInInv, UNCHANGED registrationsDisabled, NEW k \in Challenges, FallDue(k)
  PROVE  SignInInv' /\ KeepsWeb
<1>1. challenge' \in [Challenges -> ChallengeRow] /\ KeepsFacts
  BY DEF FallDue, KeepsFacts, SignInInv, SignInTypeOK, ChallengeRow
<1> QED
  BY <1>1, CallsStay, ChallengesMove DEF FallDue, SignInInv, SignInTypeOK

LEMMA ScanMoves ==
  ASSUME SignInInv, UNCHANGED registrationsDisabled, NEW k \in Challenges, Scan(k)
  PROVE  SignInInv' /\ KeepsWeb
<1>1. KeepsFacts /\ scanned' \subseteq Challenges /\ challenge' \in [Challenges -> ChallengeRow]
  BY DEF Scan, KeepsFacts, SignInInv, SignInTypeOK
<1> QED
  BY <1>1, CallsStay, ChallengesMove DEF Scan

\* Passkeys say nothing of the rest.
LEMMA RemovePasskeyMoves ==
  ASSUME SignInInv, UNCHANGED registrationsDisabled, NEW r \in Calls, RemovePasskey(r)
  PROVE  SignInInv' /\ KeepsWeb
<1>1. KeepsFacts /\ scanned' \subseteq Challenges /\ challenge' \in [Challenges -> ChallengeRow]
  BY DEF RemovePasskey, KeepsFacts, SignInInv, SignInTypeOK
<1> QED
  BY <1>1, CallsStay, ChallengesMove DEF RemovePasskey

\* A statement is made, and the rest is still to do.
LEMMA WrittenMoves ==
  ASSUME SignInInv, NEW r \in Calls, NEW what, Written(r, what), KeepsFacts,
         what = "consume" /\ call[r].about \in Challenges => challenge'[call[r].about].type = "gone"
  PROVE  call' \in [Calls -> CallState] /\ CallsOK'
<1>1. PICK about, todo : about = call[r].about /\ todo = call[r].todo
  OBVIOUS
<1>2. /\ about \in Challenges \cup {NoChallenge} /\ todo \in Todos /\ todo # <<>>
      /\ Head(todo) = what
      /\ todo = <<"consume", "issue">> => about \in Challenges
  BY <1>1, Running DEF Written, CallState, CallOK
<1>3. PICK rest : rest = Tail(todo)
  OBVIOUS
<1>4. /\ rest \in Todos /\ rest # <<"consume", "issue">> /\ rest # <<"totp", "consume">>
      /\ rest = <<"issue">> => todo = <<"consume", "issue">>
  BY <1>2, <1>3, TodoTails
<1>5. rest = <<"issue">> => about \in Challenges /\ challenge'[about].type = "gone"
  <2>1. Head(<<"consume", "issue">>) = "consume"
    OBVIOUS
  <2> QED
    BY <1>1, <1>2, <1>4, <2>1
<1>6. PICK c : c = Writes(about, rest)
  OBVIOUS
<1>7. /\ c \in CallState /\ c.about = about /\ c.todo = rest
      /\ c.op = IF rest = <<>> THEN "idle" ELSE "writing"
  BY <1>2, <1>4, <1>6, WritesCall
<1>8. CallOK(c)'
  BY <1>4, <1>5, <1>7 DEF CallOK
<1>9. call' = [call EXCEPT ![r] = c]
  BY <1>1, <1>3, <1>6 DEF Written, SignInInv, SignInTypeOK
<1> QED
  BY <1>7, <1>8, <1>9, CallsMove

LEMMA InsertChallengeMoves ==
  ASSUME SignInInv, UNCHANGED registrationsDisabled, NEW r \in Calls, InsertChallenge(r)
  PROVE  SignInInv' /\ KeepsWeb
<1>1. PICK type \in DOMAIN Answers : Written(r, type) /\ Created(type)
  BY DEF InsertChallenge
<1>2. PICK k : k = FreshChallenge
  OBVIOUS
<1>3. k \in Challenges /\ challenge[k].type = "none"
  BY <1>1, <1>2 DEF Created, FreshChallenge, NewChallenge
<1>4. type \in {"login", "passkeyLogin", "totpSetup", "passkeySetup"}
  BY <1>1 DEF Answers
<1>5. challenge' = [challenge EXCEPT ![k].type = type]
  BY <1>1, <1>2 DEF Created
<1>6. challenge' \in [Challenges -> ChallengeRow] /\ KeepsFacts
  BY <1>3, <1>4, <1>5 DEF InsertChallenge, KeepsFacts, SignInInv, SignInTypeOK, ChallengeRow
<1>7. call' \in [Calls -> CallState] /\ CallsOK'
  BY <1>1, <1>4, <1>6, WrittenMoves
<1> QED
  BY <1>1, <1>6, <1>7, ChallengesMove DEF InsertChallenge, Written, SignInInv, SignInTypeOK

LEMMA DeleteChallengeMoves ==
  ASSUME SignInInv, UNCHANGED registrationsDisabled, NEW r \in Calls, DeleteChallenge(r)
  PROVE  SignInInv' /\ KeepsWeb
<1>1. PICK k : k = call[r].about /\ Written(r, "consume")
               /\ challenge' = [challenge EXCEPT ![k].type = "gone"]
  BY DEF DeleteChallenge, Deleted
<1>2. challenge' \in [Challenges -> ChallengeRow] /\ KeepsFacts
      /\ (k \in Challenges => challenge'[k].type = "gone")
  BY <1>1 DEF DeleteChallenge, KeepsFacts, SignInInv, SignInTypeOK, ChallengeRow
<1>3. call' \in [Calls -> CallState] /\ CallsOK'
  BY <1>1, <1>2, WrittenMoves
<1> QED
  BY <1>1, <1>2, <1>3, ChallengesMove DEF DeleteChallenge, Written, SignInInv, SignInTypeOK

LEMMA InsertPasskeyMoves ==
  ASSUME SignInInv, UNCHANGED registrationsDisabled, NEW r \in Calls, InsertPasskey(r)
  PROVE  SignInInv' /\ KeepsWeb
<1>1. KeepsFacts /\ scanned' \subseteq Challenges /\ challenge' \in [Challenges -> ChallengeRow]
  BY DEF InsertPasskey, KeepsFacts, SignInInv, SignInTypeOK
<1>2. call' \in [Calls -> CallState] /\ CallsOK'
  BY <1>1, WrittenMoves DEF InsertPasskey
<1> QED
  BY <1>1, <1>2, ChallengesMove DEF InsertPasskey, Written

\* The account's secret becomes one that was shown to be in the user's app.
LEMMA SaveTOTPMoves ==
  ASSUME SignInInv, UNCHANGED registrationsDisabled, NEW r \in Calls, SaveTOTP(r)
  PROVE  SignInInv' /\ KeepsWeb
<1>1. KeepsFacts /\ KeepsWeb /\ UNCHANGED <<user, scanned, challenge, web>>
  BY DEF SaveTOTP, Written, KeepsFacts, KeepsWeb
<1>2. call' \in [Calls -> CallState] /\ CallsOK'
  BY <1>1, WrittenMoves DEF SaveTOTP
<1>3. totp' = NoChallenge \/ (totp' \in Challenges /\ totp' \in scanned)
  <2>1. CASE Written(r, "totp") /\ totp' = call[r].about
    <3>1. call[r].todo \in Todos /\ call[r].todo # <<>> /\ Head(call[r].todo) = "totp"
      BY <2>1, Running DEF Written, CallState
    <3>2. call[r].todo = <<"totp", "consume">>
      BY <3>1, TodoTails
    <3> QED
      BY <2>1, <3>2, Running DEF CallOK, SignInInv, SignInTypeOK
  <2> QED
    BY <2>1 DEF SaveTOTP
<1>4. SignInTypeOK'
  BY <1>1, <1>2, <1>3 DEF SignInInv, SignInTypeOK
<1>5. SecretWasScanned'
  BY <1>1, <1>3 DEF SecretWasScanned
<1> QED
  BY <1>1, <1>2, <1>4, <1>5
  DEF SignInInv, UnissuedSessionsAreBlank, FirstIsAdmin, Registered, Admins, ChallengeIsSpent

\* Steps on the web sessions alone.
LEMMA SessionsMove ==
  ASSUME SignInInv, UNCHANGED <<registrationsDisabled, user, totp, scanned, challenge>>,
         web' \in [WebSessions -> WebRow], KeepsWeb,
         call' \in [Calls -> CallState], CallsOK', UnissuedSessionsAreBlank', ChallengeIsSpent'
  PROVE  SignInInv'
<1>1. SignInTypeOK'
  BY DEF SignInInv, SignInTypeOK
<1> QED
  BY <1>1 DEF SignInInv, FirstIsAdmin, Registered, Admins, SecretWasScanned

\* The session is issued when its challenge is gone.
LEMMA CreateSessionMoves ==
  ASSUME SignInInv, UNCHANGED registrationsDisabled, NEW r \in Calls, CreateSession(r)
  PROVE  SignInInv' /\ KeepsWeb
<1>1. PICK about, s : about = call[r].about /\ s = FreshWeb
  OBVIOUS
<1>2. s \in WebSessions /\ web[s].state = "none"
  BY <1>1 DEF CreateSession, FreshWeb
<1>3. /\ about \in Challenges \cup {NoChallenge}
      /\ about = NoChallenge \/ challenge[about].type = "gone"
  <2>1. call[r].todo \in Todos /\ call[r].todo # <<>> /\ Head(call[r].todo) = "issue"
    BY Running DEF CreateSession, Written, CallState
  <2>2. call[r].todo = <<"issue">>
    BY <2>1, TodoTails
  <2> QED
    BY <1>1, <2>2, Running DEF CallOK, CallState
<1>4. PICK row : row = [NoWeb EXCEPT !.state = "active", !.by = about]
  OBVIOUS
<1>5. row \in WebRow /\ row.state = "active" /\ row.by = about /\ ~row.lapsed
  BY <1>3, <1>4 DEF NoWeb, WebRow
<1>6. web' = [web EXCEPT ![s] = row]
  BY <1>1, <1>4 DEF CreateSession
<1>7. /\ web' \in [WebSessions -> WebRow] /\ web'[s] = row
      /\ \A q \in WebSessions \ {s} : web'[q] = web[q]
  BY <1>2, <1>5, <1>6 DEF SignInInv, SignInTypeOK
<1>8. KeepsWeb /\ KeepsFacts
  BY <1>2, <1>7 DEF KeepsWeb, KeepsFacts, CreateSession, SignInInv, UnissuedSessionsAreBlank
<1>9. call' \in [Calls -> CallState] /\ CallsOK'
  BY <1>8, WrittenMoves DEF CreateSession
<1>10. UnissuedSessionsAreBlank' /\ ChallengeIsSpent'
  BY <1>3, <1>5, <1>7
  DEF SignInInv, UnissuedSessionsAreBlank, ChallengeIsSpent, CreateSession
<1> QED
  BY <1>7, <1>8, <1>9, <1>10, SessionsMove DEF CreateSession, Written

\* What an UPDATE of some column of the sessions keeps.
LEMMA UpdatedSessions ==
  ASSUME SignInInv, UNCHANGED <<registrationsDisabled, user, totp, scanned, challenge>>,
         web' \in [WebSessions -> WebRow], KeepsWeb,
         \A s \in WebSessions : /\ web'[s].by = web[s].by
                                /\ web'[s].state = "none" <=> web[s].state = "none"
                                /\ web[s].state = "none" => web'[s].lapsed = web[s].lapsed,
         call' \in [Calls -> CallState], CallsOK'
  PROVE  SignInInv'
<1>1. UnissuedSessionsAreBlank' /\ ChallengeIsSpent'
  BY DEF SignInInv, UnissuedSessionsAreBlank, ChallengeIsSpent
<1> QED
  BY <1>1, SessionsMove

LEMMA TouchSessionMoves ==
  ASSUME SignInInv, UNCHANGED registrationsDisabled, NEW r \in Calls, TouchSession(r)
  PROVE  SignInInv' /\ KeepsWeb
<1>1. PICK p : p = [NoCall EXCEPT !.op = "signedIn"]
  OBVIOUS
<1>2. p = [op |-> "signedIn", about |-> NoChallenge, row |-> NoWeb, email |-> "", saw |-> <<>>,
           todo |-> <<>>]
  BY <1>1 DEF NoCall
<1>3. NoWeb \in WebRow /\ <<>> \in Sights
  BY DEF NoWeb, WebRow, Sights
<1>4. p \in CallState /\ CallOK(p) /\ p.op = "signedIn" /\ p.todo = <<>>
  BY <1>2, <1>3, BegunCall
<1>5. PICK s : s = call[r].saw[1]
  OBVIOUS
<1>6. web' = [web EXCEPT ![s].used = TRUE]
  BY <1>5 DEF TouchSession, Touched
<1>7. /\ web' \in [WebSessions -> WebRow]
      /\ \A q \in WebSessions : /\ web'[q].by = web[q].by /\ web'[q].state = web[q].state
                                /\ web'[q].lapsed = web[q].lapsed
  BY <1>6 DEF SignInInv, SignInTypeOK, WebRow
<1>8. KeepsFacts /\ KeepsWeb
  BY <1>7 DEF KeepsFacts, KeepsWeb, TouchSession
<1>9. CallOK(p)'
  BY <1>4 DEF CallOK
<1>10. call' \in [Calls -> CallState] /\ CallsOK'
  BY <1>1, <1>4, <1>8, <1>9, CallsMove DEF TouchSession, Continue
<1> QED
  BY <1>7, <1>8, <1>10, UpdatedSessions DEF TouchSession

LEMMA RevokeSessionMoves ==
  ASSUME SignInInv, UNCHANGED registrationsDisabled, NEW r \in Calls, RevokeSession(r)
  PROVE  SignInInv' /\ KeepsWeb
<1>1. /\ web' \in [WebSessions -> WebRow]
      /\ \A q \in WebSessions : /\ web'[q].by = web[q].by /\ web'[q].lapsed = web[q].lapsed
                                /\ web'[q].state = "none" <=> web[q].state = "none"
                                /\ web[q].state = "revoked" => web'[q].state = "revoked"
  BY DEF RevokeSession, SignInInv, SignInTypeOK, WebRow
<1>2. KeepsFacts /\ KeepsWeb
  BY <1>1 DEF KeepsFacts, KeepsWeb, RevokeSession
<1>3. call' \in [Calls -> CallState] /\ CallsOK'
  BY <1>2, IdleCall, CallsMove DEF RevokeSession, Continue
<1> QED
  BY <1>1, <1>2, <1>3, UpdatedSessions DEF RevokeSession

LEMMA LapseSessionMoves ==
  ASSUME SignInInv, UNCHANGED registrationsDisabled, NEW s \in WebSessions, LapseSession(s)
  PROVE  SignInInv' /\ KeepsWeb
<1>1. /\ web' \in [WebSessions -> WebRow]
      /\ \A q \in WebSessions : /\ web'[q].by = web[q].by /\ web'[q].state = web[q].state
                                /\ web[q].lapsed => web'[q].lapsed
                                /\ web[q].state = "none" => web'[q].lapsed = web[q].lapsed
  BY DEF LapseSession, SignInInv, SignInTypeOK, WebRow
<1>2. KeepsFacts /\ KeepsWeb
  BY <1>1 DEF KeepsFacts, KeepsWeb, LapseSession
<1> QED
  BY <1>1, <1>2, CallsStay, UpdatedSessions DEF LapseSession

LEMMA ReadUsersMoves ==
  ASSUME SignInInv, UNCHANGED registrationsDisabled, NEW r \in Calls, ReadUsers(r)
  PROVE  SignInInv' /\ KeepsWeb
<1>1. PICK e \in Emails :
        /\ ~(registrationsDisabled /\ Registered # {})
        /\ Begin(r, [NoCall EXCEPT !.op = "registering", !.email = e, !.saw = <<Registered>>])
  BY DEF ReadUsers
<1>2. PICK seen : seen = Registered
  OBVIOUS
<1>3. PICK p : p = [NoCall EXCEPT !.op = "registering", !.email = e, !.saw = <<seen>>]
  OBVIOUS
<1>4. p = [op |-> "registering", about |-> NoChallenge, row |-> NoWeb, email |-> e,
           saw |-> <<seen>>, todo |-> <<>>]
  BY <1>3 DEF NoCall
<1>5. /\ <<seen>> \in Sights /\ NoWeb \in WebRow /\ <<>> \in Todos
      /\ registrationsDisabled => seen = {}
  BY <1>1, <1>2, SeenOne DEF Registered, NoWeb, WebRow, Todos
<1>6. p \in CallState
  BY <1>4, <1>5 DEF CallState
<1>7. CallOK(p)
  BY <1>4, <1>5 DEF CallOK
<1>8. Reads /\ call' = [call EXCEPT ![r] = p]
  BY <1>1, <1>2, <1>3 DEF ReadUsers, Reads, Begin
<1> QED
  BY <1>6, <1>7, <1>8, ReadMoves

\* What the transaction has read is what it commits on, when serialized.
LEMMA InsertUserMoves ==
  ASSUME SignInInv, UNCHANGED registrationsDisabled, NEW r \in Calls, InsertUser(r)
  PROVE  SignInInv' /\ KeepsWeb
<1>1. PICK e, saw : e = call[r].email /\ saw = call[r].saw
  OBVIOUS
<1>2. /\ e \in Emails /\ user[e] = "none"
      /\ Serializable => saw = <<Registered>>
      /\ registrationsDisabled => saw = <<{}>>
  BY <1>1, Running DEF InsertUser, Continue, MayCommit, CallOK
<1>3. PICK role \in {"admin", "member"} : /\ role = IF saw = <<{}>> THEN "admin" ELSE "member"
                                          /\ user' = [user EXCEPT ![e] = role]
  BY <1>1 DEF InsertUser
<1>4. user' \in [Emails -> {"none", "member", "admin"}]
  BY <1>3 DEF SignInInv, SignInTypeOK
<1>5. UNCHANGED <<totp, passkeys, scanned, challenge, web>>
  BY DEF InsertUser, accountVars
<1>6. KeepsFacts /\ KeepsWeb
  BY <1>5 DEF KeepsFacts, KeepsWeb
<1>7. call' \in [Calls -> CallState] /\ CallsOK'
  BY <1>6, IdleCall, CallsMove DEF InsertUser, Continue
<1>8. Registered' = Registered \cup {e}
  BY <1>2, <1>3 DEF Registered, SignInInv, SignInTypeOK
<1>9. FirstIsAdmin'
  <2> SUFFICES ASSUME Serializable
               PROVE  /\ Registered' = {} \/ \E f \in Emails : Admins' = {f}
                      /\ registrationsDisabled => \E f \in Emails : Registered' = {f}
    BY DEF FirstIsAdmin
  <2>1. saw = <<{}>> <=> Registered = {}
    BY <1>2
  <2>2. CASE Registered = {}
    <3>1. Admins' = {e}
      BY <1>2, <1>3, <2>1, <2>2 DEF Admins, Registered, SignInInv, SignInTypeOK
    <3> QED
      BY <1>2, <1>8, <2>2, <3>1
  <2>3. CASE Registered # {}
    <3>1. Admins' = Admins
      BY <1>2, <1>3, <2>1, <2>3 DEF Admins, SignInInv, SignInTypeOK
    <3> QED
      BY <1>2, <2>1, <2>3, <3>1 DEF SignInInv, FirstIsAdmin
  <2> QED
    BY <2>2, <2>3
<1> QED
  BY <1>4, <1>5, <1>6, <1>7, <1>9
  DEF SignInInv, SignInTypeOK, UnissuedSessionsAreBlank, SecretWasScanned, ChallengeIsSpent

LEMMA SignInStep ==
  ASSUME SignInInv, RegisterNext \/ MFANext \/ WebNext
  PROVE  SignInInv' /\ KeepsWeb
<1>1. UNCHANGED registrationsDisabled
  BY DEF RegisterNext, MFANext, WebNext
<1>2. CASE RegisterNext
  BY <1>1, <1>2, ReadUsersMoves, InsertUserMoves, EndsRead DEF RegisterNext
<1>3. ASSUME NEW r \in Calls,
             \/ EnabledMFAMethods(r) \/ VerifyTOTPLogin(r) \/ BeginPasskeyLogin(r)
             \/ FinishPasskeyLogin(r) \/ BeginTOTPSetup(r) \/ ConfirmTOTPSetup(r)
             \/ DisableTOTP(r) \/ BeginPasskeyRegistration(r) \/ FinishPasskeyRegistration(r)
      PROVE  SignInInv' /\ KeepsWeb
  BY <1>1, <1>3, HandlersDecide
<1>4. ASSUME NEW r \in Calls, Login(r) \/ GetChallenge(r) \/ RemovePasskey(r) \/ Refuse(r)
      PROVE  SignInInv' /\ KeepsWeb
  BY <1>1, <1>4, LoginReads, GetChallengeMoves, RemovePasskeyMoves, EndsRead
<1>5. ASSUME NEW r \in Calls,
             \/ InsertChallenge(r) \/ SaveTOTP(r) \/ InsertPasskey(r) \/ DeleteChallenge(r)
             \/ CreateSession(r)
      PROVE  SignInInv' /\ KeepsWeb
  BY <1>1, <1>5, InsertChallengeMoves, SaveTOTPMoves, InsertPasskeyMoves, DeleteChallengeMoves,
     CreateSessionMoves
<1>6. ASSUME NEW r \in Calls, ValidateSession(r) \/ TouchSession(r) \/ RevokeSession(r)
      PROVE  SignInInv' /\ KeepsWeb
  BY <1>1, <1>6, ValidateReads, TouchSessionMoves, RevokeSessionMoves
<1>7. ASSUME NEW k \in Challenges, FallDue(k) \/ Scan(k) PROVE SignInInv' /\ KeepsWeb
  BY <1>1, <1>7, FallDueMoves, ScanMoves
<1>8. ASSUME NEW s \in WebSessions, LapseSession(s) PROVE SignInInv' /\ KeepsWeb
  BY <1>1, <1>8, LapseSessionMoves
<1>9. CASE MFANext
  BY <1>3, <1>4, <1>5, <1>7, <1>9 DEF MFANext
<1>10. CASE WebNext
  BY <1>3, <1>4, <1>5, <1>6, <1>8, <1>10 DEF WebNext
<1> QED
  BY <1>2, <1>9, <1>10

LEMMA SignInIdle == ASSUME SignInInv, UNCHANGED signInVars PROVE SignInInv' /\ KeepsWeb
<1>1. UNCHANGED <<registrationsDisabled, user, totp, passkeys, scanned, challenge, web, call>>
  BY DEF signInVars, accountVars
<1>2. CallsOK'
  BY <1>1 DEF SignInInv, CallsOK, CallOK
<1>3. FirstIsAdmin'
  BY <1>1 DEF SignInInv, FirstIsAdmin, Registered, Admins
<1>4. SignInTypeOK' /\ KeepsWeb
  BY <1>1 DEF SignInInv, SignInTypeOK, KeepsWeb
<1> QED
  BY <1>1, <1>2, <1>3, <1>4
  DEF SignInInv, UnissuedSessionsAreBlank, SecretWasScanned, ChallengeIsSpent

-----------------------------------------------------------------------------
(* The limiter                                                             *)

\* The bucket, the attempts it counted, and the stretch between two windows:
\* of as many attempts as a window takes, the first came a window before the
\* window that is open now.
LimiterInv ==
  /\ now \in Nat /\ accepted \in Seq(Nat)
  /\ \A i, j \in 1..Len(accepted) : i <= j => accepted[i] <= accepted[j]
  /\ \A i \in 1..Len(accepted) : accepted[i] <= now
  /\ bucket = {} => accepted = <<>>
  /\ \A b \in bucket :
       /\ b \in [windowStart : Nat, count : Nat] /\ bucket = {b}
       /\ b.count >= 1 /\ b.count <= Limit /\ b.count <= Len(accepted)
       /\ accepted[Len(accepted) - b.count + 1] = b.windowStart
       /\ \A i \in 1..Len(accepted) :
            i + Limit <= Len(accepted) - b.count + 1 => accepted[i] + Window <= b.windowStart
  /\ AttemptsBounded

LEMMA InitLimiter == LimiterInit => LimiterInv
  BY DEF LimiterInit, LimiterInv, AttemptsBounded

LEMMA LimiterIdle == ASSUME LimiterInv, UNCHANGED limiterVars PROVE LimiterInv'
  BY DEF limiterVars, LimiterInv, AttemptsBounded

LEMMA TickLimiter == ASSUME LimiterInv, Tick PROVE LimiterInv'
  BY DEF Tick, LimiterInv, AttemptsBounded

\* One more attempt is let through.
LEMMA Accepting ==
  ASSUME LimiterInv, accepted' = Append(accepted, now), UNCHANGED now
  PROVE  /\ accepted' \in Seq(Nat) /\ Len(accepted') = Len(accepted) + 1
         /\ accepted'[Len(accepted) + 1] = now
         /\ \A i \in 1..Len(accepted) : accepted'[i] = accepted[i]
         /\ \A i, j \in 1..Len(accepted') : i <= j => accepted'[i] <= accepted'[j]
         /\ \A i \in 1..Len(accepted') : accepted'[i] <= now'
<1>1. /\ accepted' \in Seq(Nat) /\ Len(accepted') = Len(accepted) + 1
      /\ accepted'[Len(accepted) + 1] = now
      /\ \A i \in 1..Len(accepted) : accepted'[i] = accepted[i]
  BY DEF LimiterInv
<1>2. Len(accepted) \in Nat /\ \A i \in 1..Len(accepted) : accepted[i] \in Nat
  BY DEF LimiterInv
<1>3. \A i \in 1..Len(accepted') : accepted'[i] <= now'
  BY <1>1, <1>2 DEF LimiterInv
<1>4. \A i, j \in 1..Len(accepted') : i <= j => accepted'[i] <= accepted'[j]
  BY <1>1, <1>2, <1>3 DEF LimiterInv
<1> QED
  BY <1>1, <1>3, <1>4


\* The window that is open was opened by one of the attempts it counted.
OpenedBy(b, c, ws, f, n) ==
  /\ b = [windowStart |-> ws, count |-> c]
  /\ 1 <= c /\ c <= Limit /\ c <= n /\ f = n - c + 1
  /\ accepted[f] = ws /\ ws <= now
  /\ \A i \in 1..n : i + Limit <= f => accepted[i] + Window <= ws
  /\ \A i \in 1..n : i <= f => accepted[i] <= ws

LEMMA OpenWindow ==
  ASSUME LimiterInv, NEW b \in bucket, NEW n, n = Len(accepted)
  PROVE  \E c \in Nat, ws \in Nat, f \in 1..n : OpenedBy(b, c, ws, f, n)
<1>1. PICK c, ws : c = b.count /\ ws = b.windowStart
  OBVIOUS
<1>2. /\ c \in Nat /\ ws \in Nat /\ b = [windowStart |-> ws, count |-> c]
      /\ 1 <= c /\ c <= Limit /\ c <= n
  BY <1>1 DEF LimiterInv
<1>3. PICK f : f = n - c + 1
  OBVIOUS
<1>4. n \in Nat
  BY DEF LimiterInv
<1>5. f \in 1..n
  BY <1>2, <1>3, <1>4
<1>6. /\ accepted[f] = ws
      /\ \A i \in 1..n : i + Limit <= f => accepted[i] + Window <= ws
  BY <1>1, <1>3 DEF LimiterInv
<1>7. /\ ws <= now
      /\ \A i \in 1..n : i <= f => accepted[i] <= ws
  BY <1>5, <1>6 DEF LimiterInv
<1>8. OpenedBy(b, c, ws, f, n)
  BY <1>2, <1>3, <1>6, <1>7 DEF OpenedBy
<1> QED
  BY <1>2, <1>5, <1>8

\* The new attempt comes a window after each that has twice the limit less one
\* between itself and the new one.
LEMMA StillBounded ==
  ASSUME LimiterInv, NEW n \in Nat, n = Len(accepted), now \in Nat,
         accepted' \in Seq(Nat), Len(accepted') = n + 1, accepted'[n + 1] = now,
         \A i \in 1..n : accepted'[i] = accepted[i],
         \A i \in 1..n : i + 2 * Limit <= n + 2 => accepted[i] + Window <= now
  PROVE  AttemptsBounded'
<1>1. DOMAIN accepted = 1..n /\ DOMAIN accepted' = 1..(n + 1)
  BY DEF LimiterInv
<1>2. PICK L \in Nat, W \in Nat : L = Limit /\ W = Window /\ L >= 1
  BY LimiterAssumption
<1> SUFFICES ASSUME NEW i \in 1..(n + 1), NEW j \in 1..(n + 1), j >= i + 2 * L - 1
             PROVE  accepted'[j] >= accepted'[i] + W
  BY <1>1, <1>2 DEF AttemptsBounded
<1>3. i \in 1..n
  BY <1>2
<1>4. CASE j \in 1..n
  BY <1>1, <1>2, <1>3, <1>4 DEF LimiterInv, AttemptsBounded
<1>5. CASE j = n + 1
  <2>1. i + 2 * L <= n + 2
    BY <1>5
  <2>2. accepted[i] + W <= now
    BY <1>2, <1>3, <2>1
  <2>3. accepted[i] \in Nat
    BY <1>3 DEF LimiterInv
  <2> QED
    BY <1>3, <1>5, <2>2, <2>3
<1> QED
  BY <1>4, <1>5

LEMMA AllowLimiter == ASSUME LimiterInv, Allow PROVE LimiterInv'
<1>1. PICK n \in Nat : n = Len(accepted)
  BY DEF LimiterInv
<1>2. /\ accepted' \in Seq(Nat) /\ Len(accepted') = n + 1
      /\ accepted'[n + 1] = now
      /\ \A i \in 1..n : accepted'[i] = accepted[i]
      /\ \A i, j \in 1..(n + 1) : i <= j => accepted'[i] <= accepted'[j]
      /\ \A i \in 1..(n + 1) : accepted'[i] <= now'
  BY <1>1, Accepting DEF Allow
<1>3. now \in Nat /\ now' = now /\ \A i \in 1..n : accepted[i] \in Nat
  BY <1>1 DEF LimiterInv, Allow
<1>4. PICK L \in Nat, W \in Nat : L = Limit /\ W = Window /\ L >= 1
  BY LimiterAssumption
<1>5. ASSUME NEW c \in Nat, NEW ws \in Nat, NEW f \in 1..(n + 1),
             bucket' = {[windowStart |-> ws, count |-> c]},
             1 <= c, c <= L, c <= n + 1, f = n + 1 - c + 1, accepted'[f] = ws,
             \A i \in 1..(n + 1) : i + L <= f => accepted'[i] + W <= ws,
             \A i \in 1..n : i + 2 * L <= n + 2 => accepted[i] + W <= now
      PROVE  LimiterInv'
  <2>1. AttemptsBounded'
    BY <1>1, <1>2, <1>3, <1>4, <1>5, StillBounded
  <2>2. PICK b : b = [windowStart |-> ws, count |-> c]
    OBVIOUS
  <2>3. b \in [windowStart : Nat, count : Nat] /\ b.count = c /\ b.windowStart = ws /\ bucket' = {b}
    BY <1>5, <2>2
  <2>4. /\ b.count >= 1 /\ b.count <= Limit /\ b.count <= Len(accepted')
        /\ accepted'[Len(accepted') - b.count + 1] = b.windowStart
        /\ \A i \in 1..Len(accepted') :
             i + Limit <= Len(accepted') - b.count + 1 => accepted'[i] + Window <= b.windowStart
    BY <1>2, <1>4, <1>5, <2>3
  <2>5. /\ now' \in Nat /\ accepted' \in Seq(Nat)
        /\ \A i, j \in 1..Len(accepted') : i <= j => accepted'[i] <= accepted'[j]
        /\ \A i \in 1..Len(accepted') : accepted'[i] <= now'
    BY <1>2, <1>3
  <2> QED
    BY <2>1, <2>3, <2>4, <2>5 DEF LimiterInv
<1>6. CASE bucket' = {[windowStart |-> now, count |-> 1]} /\ \A b \in bucket : WindowPassed(b)
  <2>1. \A i \in 1..n : i + L <= n + 1 => accepted[i] + W <= now
    <3>1. CASE bucket = {}
      BY <1>1, <3>1 DEF LimiterInv
    <3>2. ASSUME NEW b \in bucket PROVE \A i \in 1..n : i + L <= n + 1 => accepted[i] + W <= now
      <4>1. PICK c \in Nat, ws \in Nat, f \in 1..n : OpenedBy(b, c, ws, f, n)
        BY <1>1, OpenWindow
      <4>2. ws + W <= now
        BY <1>3, <1>4, <1>6, <4>1 DEF WindowPassed, OpenedBy
      <4>3. \A i \in 1..n : i + L <= n + 1 => i <= f
        BY <1>4, <4>1 DEF OpenedBy
      <4>4. \A i \in 1..n : i <= f => accepted[i] <= ws
        BY <4>1 DEF OpenedBy
      <4> QED
        BY <1>3, <4>2, <4>3, <4>4
    <3> QED
      BY <3>1, <3>2
  <2>2. \A i \in 1..n : i + 2 * L <= n + 2 => i + L <= n + 1
    BY <1>4
  <2>3. \A i \in 1..(n + 1) : i + L <= n + 1 => accepted'[i] + W <= now
    <3>1. \A i \in 1..(n + 1) : i + L <= n + 1 => i \in 1..n
      BY <1>4
    <3> QED
      BY <1>2, <2>1, <3>1
  <2> QED
    BY <1>2, <1>3, <1>4, <1>5, <1>6, <2>1, <2>2, <2>3
<1>7. ASSUME NEW b \in bucket, ~WindowPassed(b), ~Full(b),
             bucket' = {[b EXCEPT !.count = @ + 1]}
      PROVE  LimiterInv'
  <2>1. PICK c \in Nat, ws \in Nat, f \in 1..n : OpenedBy(b, c, ws, f, n)
    BY <1>1, <1>7, OpenWindow
  <2>2. /\ b = [windowStart |-> ws, count |-> c]
        /\ 1 <= c /\ c <= n /\ f = n - c + 1
        /\ accepted[f] = ws /\ ws <= now
        /\ \A i \in 1..n : i + Limit <= f => accepted[i] + Window <= ws
    BY <2>1 DEF OpenedBy
  <2>3. c + 1 <= L /\ bucket' = {[windowStart |-> ws, count |-> c + 1]}
    BY <1>4, <1>7, <2>2 DEF Full
  <2>4. /\ c + 1 \in Nat /\ 1 <= c + 1 /\ c + 1 <= n + 1 /\ f = n + 1 - (c + 1) + 1
        /\ f \in 1..(n + 1) /\ accepted'[f] = ws
    BY <1>2, <2>2
  <2>5. \A i \in 1..(n + 1) : i + L <= f => accepted'[i] + W <= ws
    <3>1. \A i \in 1..(n + 1) : i + L <= f => i \in 1..n
      BY <1>4
    <3> QED
      BY <1>2, <1>4, <2>2, <3>1
  <2>6. \A i \in 1..n : i + 2 * L <= n + 2 => accepted[i] + W <= now
    <3>1. \A i \in 1..n : i + 2 * L <= n + 2 => i + L <= f
      BY <1>4, <2>2, <2>3
    <3>2. \A i \in 1..n : i + L <= f => accepted[i] + W <= ws
      BY <1>4, <2>2
    <3>3. \A i \in 1..n : i + 2 * L <= n + 2 => accepted[i] + W <= ws
      BY <3>1, <3>2
    <3> QED
      BY <1>3, <1>4, <2>2, <3>3
  <2> QED
    BY <1>5, <2>3, <2>4, <2>5, <2>6
<1> QED
  BY <1>6, <1>7 DEF Allow

-----------------------------------------------------------------------------
(* Avatars                                                                 *)

UploadState == [pc  : {"idle", "read", "saved", "named", "removing"},
                old : Pictures \cup {NoPicture},
                new : Pictures \cup {NoPicture}]

\* An upload that has not named its object yet.
Fresh(u) == upload[u].pc \in {"read", "saved"}

\* What such an upload made is its own: no row names it, and no request has read
\* it there.
FreshIsUnseen ==
  \A u \in Uploads : Fresh(u) =>
    /\ upload[u].new \in everSaved \ {NoPicture} /\ upload[u].new # avatar
    /\ \A v \in Uploads : upload[v].pc # "idle" => upload[v].old # upload[u].new
    /\ \A v \in Uploads \ {u} : Fresh(v) => upload[v].new # upload[u].new

\* A request that is about to delete an object has replaced it in the row.
DeletersReplaced == \A u \in Uploads : upload[u].pc = "named" =>
                      upload[u].old # avatar \/ avatar = NoPicture

AvatarsInv ==
  /\ avatar \in Pictures \cup {NoPicture} /\ everSaved \subseteq Pictures
  /\ upload \in [Uploads -> UploadState]
  /\ \A u \in Uploads : upload[u].old \in everSaved \cup {NoPicture}
  /\ avatar \in everSaved \cup {NoPicture}
  /\ FreshIsUnseen
  /\ \A u \in Uploads : upload[u].pc = "saved" => upload[u].new \in objects
  /\ DeletersReplaced
  /\ AvatarExists

LEMMA InitAvatars == AvatarsInit => AvatarsInv
<1> SUFFICES ASSUME AvatarsInit PROVE AvatarsInv
  OBVIOUS
<1>1. NoUpload \in UploadState /\ NoUpload.pc = "idle" /\ NoUpload.old = NoPicture
  BY DEF NoUpload, UploadState
<1> QED
  BY <1>1 DEF AvatarsInit, AvatarsInv, FreshIsUnseen, Fresh, DeletersReplaced, AvatarExists

\* A request that ends, and may have deleted an object no row will name again.
LEMMA UploadEnds ==
  ASSUME AvatarsInv, NEW u \in Uploads, Over(u), UNCHANGED <<avatar, everSaved>>,
         NEW x, objects' \in {objects, objects \ {x}},
         x # avatar \/ avatar = NoPicture,
         \A v \in Uploads \ {u} : Fresh(v) => upload[v].new # x
  PROVE  AvatarsInv'
<1>1. NoUpload \in UploadState /\ NoUpload.pc = "idle" /\ NoUpload.old = NoPicture
  BY DEF NoUpload, UploadState
<1>2. /\ upload' \in [Uploads -> UploadState]
      /\ upload'[u].pc = "idle" /\ upload'[u].old = NoPicture
      /\ \A v \in Uploads \ {u} : upload'[v] = upload[v]
  BY <1>1 DEF Over, AvatarsInv
<1>3. FreshIsUnseen'
  BY <1>2 DEF AvatarsInv, FreshIsUnseen, Fresh
<1>4. DeletersReplaced'
  BY <1>2 DEF AvatarsInv, DeletersReplaced
<1>5. \A v \in Uploads : upload'[v].pc = "saved" => upload'[v].new \in objects'
  BY <1>2 DEF AvatarsInv, Fresh
<1>6. AvatarExists'
  BY DEF AvatarsInv, AvatarExists
<1> QED
  BY <1>2, <1>3, <1>4, <1>5, <1>6 DEF AvatarsInv

LEMMA ReadForUploadAvatars ==
  ASSUME AvatarsInv, NEW u \in Uploads, ReadForUpload(u) PROVE AvatarsInv'
<1>1. PICK p \in Pictures \ everSaved :
        /\ everSaved' = everSaved \cup {p}
        /\ upload' = [upload EXCEPT ![u] = [pc |-> "read", old |-> avatar, new |-> p]]
  BY DEF ReadForUpload
<1>2. UNCHANGED <<avatar, objects>>
  BY DEF ReadForUpload
<1>3. /\ upload' \in [Uploads -> UploadState]
      /\ upload'[u] = [pc |-> "read", old |-> avatar, new |-> p]
      /\ \A v \in Uploads \ {u} : upload'[v] = upload[v]
  BY <1>1 DEF AvatarsInv, UploadState
<1>4. p # NoPicture /\ p # avatar /\ \A v \in Uploads : upload[v].old # p
  BY AvatarsAssumption DEF AvatarsInv
<1>5. \A v \in Uploads : Fresh(v) => upload[v].new # p /\ upload[v].new # avatar
  BY DEF AvatarsInv, FreshIsUnseen
<1>6. FreshIsUnseen'
  BY <1>1, <1>2, <1>3, <1>4, <1>5 DEF AvatarsInv, FreshIsUnseen, Fresh
<1>7. DeletersReplaced' /\ AvatarExists'
  BY <1>2, <1>3 DEF AvatarsInv, DeletersReplaced, AvatarExists
<1> QED
  BY <1>1, <1>2, <1>3, <1>6, <1>7 DEF AvatarsInv

\* A step of a request that keeps what it has read and made.
LEMMA ToFacts ==
  ASSUME AvatarsInv, NEW u \in Uploads, NEW pc \in {"saved", "named"}, To(u, pc)
  PROVE  /\ upload' \in [Uploads -> UploadState]
         /\ upload'[u].pc = pc /\ upload'[u].old = upload[u].old /\ upload'[u].new = upload[u].new
         /\ \A v \in Uploads \ {u} : upload'[v] = upload[v]
  BY DEF To, AvatarsInv, UploadState

LEMMA SaveObjectAvatars == ASSUME AvatarsInv, NEW u \in Uploads, SaveObject(u) PROVE AvatarsInv'
<1>1. CASE objects' = objects \cup {upload[u].new} /\ To(u, "saved")
  <2>1. /\ upload' \in [Uploads -> UploadState]
        /\ upload'[u].pc = "saved" /\ upload'[u].old = upload[u].old
        /\ upload'[u].new = upload[u].new
        /\ \A v \in Uploads \ {u} : upload'[v] = upload[v]
    BY <1>1, ToFacts
  <2>2. FreshIsUnseen'
    BY <2>1 DEF SaveObject, AvatarsInv, FreshIsUnseen, Fresh
  <2>3. DeletersReplaced' /\ AvatarExists'
    BY <1>1, <2>1 DEF SaveObject, AvatarsInv, DeletersReplaced, AvatarExists
  <2> QED
    BY <1>1, <2>1, <2>2, <2>3 DEF SaveObject, AvatarsInv
<1>2. CASE UNCHANGED objects /\ Over(u)
  <2>1. \A v \in Uploads : Fresh(v) => upload[v].new # NoPicture
    BY DEF AvatarsInv, FreshIsUnseen
  <2>2. NoPicture # avatar \/ avatar = NoPicture
    OBVIOUS
  <2> QED
    BY <1>2, <2>1, <2>2, UploadEnds DEF SaveObject
<1> QED
  BY <1>1, <1>2 DEF SaveObject

LEMMA UpdateRowAvatars == ASSUME AvatarsInv, NEW u \in Uploads, UpdateRow(u) PROVE AvatarsInv'
<1>1. Fresh(u)
  BY DEF UpdateRow, Fresh
<1>2. CASE avatar' = upload[u].new /\ To(u, "named") /\ UNCHANGED objects
  <2>1. /\ upload' \in [Uploads -> UploadState]
        /\ upload'[u].pc = "named" /\ upload'[u].old = upload[u].old
        /\ upload'[u].new = upload[u].new
        /\ \A v \in Uploads \ {u} : upload'[v] = upload[v]
    BY <1>2, ToFacts
  <2>2. /\ avatar' = upload[u].new /\ avatar' \in everSaved /\ avatar' \in objects
        /\ \A v \in Uploads : upload[v].pc # "idle" => upload[v].old # avatar'
        /\ \A v \in Uploads \ {u} : Fresh(v) => upload[v].new # avatar'
    BY <1>1, <1>2 DEF UpdateRow, AvatarsInv, FreshIsUnseen
  <2>3. FreshIsUnseen'
    BY <2>1, <2>2 DEF UpdateRow, AvatarsInv, FreshIsUnseen, Fresh
  <2>4. DeletersReplaced'
    BY <2>1, <2>2 DEF UpdateRow, DeletersReplaced
  <2>5. AvatarExists'
    BY <1>2, <2>2 DEF AvatarExists
  <2> QED
    BY <1>2, <2>1, <2>2, <2>3, <2>4, <2>5 DEF UpdateRow, AvatarsInv
<1>3. CASE objects' = objects \ {upload[u].new} /\ Over(u) /\ UNCHANGED avatar
  <2>1. /\ upload[u].new # avatar
        /\ \A v \in Uploads \ {u} : Fresh(v) => upload[v].new # upload[u].new
    BY <1>1 DEF AvatarsInv, FreshIsUnseen
  <2>2. PICK x : x = upload[u].new
    OBVIOUS
  <2>3. objects' \in {objects, objects \ {x}} /\ x # avatar
        /\ \A v \in Uploads \ {u} : Fresh(v) => upload[v].new # x
    BY <1>3, <2>1, <2>2
  <2> QED
    BY <1>3, <2>3, UploadEnds DEF UpdateRow
<1> QED
  BY <1>2, <1>3 DEF UpdateRow

LEMMA ReadForRemovalAvatars ==
  ASSUME AvatarsInv, NEW u \in Uploads, ReadForRemoval(u) PROVE AvatarsInv'
<1>1. PICK c : c = [NoUpload EXCEPT !.pc = "removing", !.old = avatar]
  OBVIOUS
<1>2. c = [pc |-> "removing", old |-> avatar, new |-> NoPicture]
  BY <1>1 DEF NoUpload
<1>3. c \in UploadState
  BY <1>2 DEF UploadState, AvatarsInv
<1>4. /\ upload' \in [Uploads -> UploadState] /\ upload'[u] = c
      /\ \A v \in Uploads \ {u} : upload'[v] = upload[v]
  BY <1>1, <1>3 DEF ReadForRemoval, AvatarsInv
<1>5. FreshIsUnseen'
  BY <1>2, <1>4 DEF ReadForRemoval, AvatarsInv, FreshIsUnseen, Fresh
<1>6. DeletersReplaced' /\ AvatarExists'
  BY <1>2, <1>4 DEF ReadForRemoval, AvatarsInv, DeletersReplaced, AvatarExists
<1> QED
  BY <1>2, <1>4, <1>5, <1>6 DEF ReadForRemoval, AvatarsInv

LEMMA ClearRowAvatars == ASSUME AvatarsInv, NEW u \in Uploads, ClearRow(u) PROVE AvatarsInv'
<1>1. avatar' = NoPicture /\ To(u, "named") /\ UNCHANGED <<objects, everSaved>>
  BY DEF ClearRow
<1>2. /\ upload' \in [Uploads -> UploadState]
      /\ upload'[u].pc = "named" /\ upload'[u].old = upload[u].old
      /\ \A v \in Uploads \ {u} : upload'[v] = upload[v]
  BY <1>1, ToFacts
<1>3. upload[u].pc = "removing"
  BY DEF ClearRow
<1>4. FreshIsUnseen'
  BY <1>1, <1>2, <1>3 DEF AvatarsInv, FreshIsUnseen, Fresh
<1>5. DeletersReplaced' /\ AvatarExists'
  BY <1>1 DEF DeletersReplaced, AvatarExists
<1> QED
  BY <1>1, <1>2, <1>4, <1>5 DEF AvatarsInv

LEMMA DeleteOldAvatars == ASSUME AvatarsInv, NEW u \in Uploads, DeleteOldObject(u) PROVE AvatarsInv'
<1>1. PICK x : x = OldObject(u)
  OBVIOUS
<1>2. /\ x = upload[u].old /\ (x # avatar \/ avatar = NoPicture)
      /\ \A v \in Uploads : Fresh(v) => upload[v].new # x
  BY <1>1 DEF OldObject, DeleteOldObject, AvatarsInv, DeletersReplaced, FreshIsUnseen
<1>3. objects' \in {objects, objects \ {x}} /\ Over(u) /\ UNCHANGED <<avatar, everSaved>>
  BY <1>1 DEF DeleteOldObject
<1> QED
  BY <1>2, <1>3, UploadEnds

LEMMA DiesAvatars == ASSUME AvatarsInv, NEW u \in Uploads, RequestDies(u) PROVE AvatarsInv'
<1>1. \A v \in Uploads : Fresh(v) => upload[v].new # NoPicture
  BY DEF AvatarsInv, FreshIsUnseen
<1>2. NoPicture # avatar \/ avatar = NoPicture
  OBVIOUS
<1> QED
  BY <1>1, <1>2, UploadEnds DEF RequestDies

LEMMA AvatarsStep == ASSUME AvatarsInv, AvatarsNext PROVE AvatarsInv'
  BY ReadForUploadAvatars, SaveObjectAvatars, UpdateRowAvatars, ReadForRemovalAvatars,
     ClearRowAvatars, DeleteOldAvatars, DiesAvatars DEF AvatarsNext

LEMMA AvatarsIdle == ASSUME AvatarsInv, UNCHANGED avatarVars PROVE AvatarsInv'
  BY DEF avatarVars, AvatarsInv, FreshIsUnseen, Fresh, DeletersReplaced, AvatarExists

-----------------------------------------------------------------------------
(* The web client                                                          *)

WebInv == SignInInv /\ LimiterInv /\ AvatarsInv

LEMMA InitWeb == EntryInit => WebInv
  BY InitSignIn, InitLimiter, InitAvatars DEF EntryInit, WebInv

LEMMA EntryHolders == ASSUME HolderInv, [EntryNext]_entryVars PROVE HolderInv' /\ HolderKeeps
<1>1. [HoldersNext]_holderVars
  BY DEF EntryNext, Holders, WebUsers, entryVars
<1> QED
  BY <1>1, HolderStep

LEMMA WebStep == ASSUME WebInv, [EntryNext]_entryVars PROVE WebInv' /\ KeepsWeb
<1>1. ASSUME RegisterNext \/ MFANext \/ WebNext, UNCHANGED <<limiterVars, avatarVars>>
      PROVE  WebInv' /\ KeepsWeb
  BY <1>1, SignInStep, LimiterIdle, AvatarsIdle DEF WebInv
<1>2. ASSUME LimiterNext, UNCHANGED <<signInVars, avatarVars>> PROVE WebInv' /\ KeepsWeb
  BY <1>2, TickLimiter, AllowLimiter, SignInIdle, AvatarsIdle DEF WebInv, LimiterNext
<1>3. ASSUME AvatarsNext, UNCHANGED <<signInVars, limiterVars>> PROVE WebInv' /\ KeepsWeb
  BY <1>3, AvatarsStep, SignInIdle, LimiterIdle DEF WebInv
<1>4. ASSUME UNCHANGED <<signInVars, limiterVars, avatarVars>> PROVE WebInv' /\ KeepsWeb
  BY <1>4, SignInIdle, LimiterIdle, AvatarsIdle DEF WebInv
<1>5. CASE WebUsers
  BY <1>1, <1>2, <1>3, <1>5 DEF WebUsers
<1>6. CASE Holders \/ UNCHANGED entryVars
  BY <1>4, <1>6 DEF Holders, entryVars, webVars
<1> QED
  BY <1>5, <1>6 DEF EntryNext

\* One admin, no account locked out by a secret it never scanned, no challenge
\* left after its session, no more attempts than the limiter allows, and an
\* avatar that exists: for any number of requests that overlap, of limits and of
\* windows.  One admin needs transactions that are serialized, as SQLite's are.
THEOREM WebSafetyHolds == ASSUME Serializable PROVE EntrySpec => []WebSafety
<1>1. WebInv /\ [EntryNext]_entryVars => WebInv'
  BY WebStep
<1>2. WebInv => WebSafety
  BY AdminIsOne DEF WebInv, SignInInv, LimiterInv, AvatarsInv, WebSafety
<1> QED
  BY <1>1, <1>2, InitWeb, PTL DEF EntrySpec

-----------------------------------------------------------------------------
\* What was revoked, denied or has lapsed stays so, whichever requests read it
\* before: tokens, decisions on a login, and web sessions.
THEOREM RefusalsAreFinalHolds == EntrySpec => RefusalsAreFinal
<1>1. HolderInv /\ [EntryNext]_entryVars => HolderInv'
  BY EntryHolders
<1>2. WebInv /\ [EntryNext]_entryVars => WebInv'
  BY WebStep
<1>3. HolderInv /\ WebInv /\ [EntryNext]_entryVars
        => /\ [\A t \in Tokens :
                 /\ apiToken[t].state = "revoked" => apiToken'[t].state = "revoked"
                 /\ apiToken[t].lapsed => apiToken'[t].lapsed]_apiToken
           /\ [\A c \in Logins :
                 /\ session[c].status \in {"denied", "expired"}
                      => session'[c].status = session[c].status
                 /\ session[c].status = "approved"
                      => session'[c].status \in {"approved", "expired"}]_session
           /\ [\A s \in WebSessions :
                 /\ web[s].state = "revoked" => web'[s].state = "revoked"
                 /\ web[s].lapsed => web'[s].lapsed]_web
  BY EntryHolders, WebStep DEF HolderKeeps, KeepsRefusals, KeepsDecision, KeepsWeb
<1>4. EntryInit => HolderInv
  BY InitHolder DEF EntryInit
<1> QED
  BY <1>1, <1>2, <1>3, <1>4, InitWeb, PTL
  DEF EntrySpec, RefusalsAreFinal, RevocationIsFinal, DecisionIsFinal, SessionRevocationIsFinal
=============================================================================
