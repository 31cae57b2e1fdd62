------------------------------ MODULE McpCodes ------------------------------
(* The authorization codes of the MCP server's OAuth endpoint               *)
(* (services/mcpoauth, handlers/mcp_oauth.go).  A user allows a client, the *)
(* client gets a code and exchanges it for an API token.  The exchange      *)
(* reads the code, consumes it with a conditional UPDATE whose rows it      *)
(* counts, and mints the token last: several exchanges of one code may      *)
(* overlap, and the server may stop between the steps.                      *)
EXTENDS ApiTokens

CONSTANTS
  Codes,       \* authorization codes
  Clients,     \* a client id with its redirect URI and its PKCE pair
  Exchanges    \* token requests that may overlap

\* Codes and tokens are rows of two tables.
ASSUME CodesAssumption == Codes \cap Tokens = {}

VARIABLES
  mcpCode,     \* the row of each code
  exchange     \* what each token request is doing

codeVars == <<mcpCode, exchange>>

\* models.MCPOAuthCode.
NoCode == [state |-> "none", due |-> FALSE, client |-> "none", workspace |-> NoSpace]

NoExchange == [pc |-> "idle", code |-> "none", workspace |-> NoSpace]

CodesInit ==
  /\ mcpCode = [k \in Codes |-> NoCode]
  /\ exchange = [e \in Exchanges |-> NoExchange]

\* CreateAuthorizationCode, of a request that is valid and whose client
\* resolves.  A denial only redirects.  Any bearer AuthMiddleware lets through
\* may allow any workspace of the user's, or none: the service asks for the
\* membership of the user, not for the workspace of the bearer.
Authorize(k, r) ==
  /\ Served(r)
  /\ mcpCode[k].state = "none"
  /\ \E client \in Clients, workspace \in Spaces \cup {NoSpace} :
       mcpCode' = [mcpCode EXCEPT ![k] = [NoCode EXCEPT !.state = "fresh",
                                            !.client = client, !.workspace = workspace]]
  /\ UNCHANGED <<exchange, apiToken>>

CodeDue(k) ==
  /\ mcpCode[k].state # "none" /\ ~mcpCode[k].due
  /\ mcpCode' = [mcpCode EXCEPT ![k].due = TRUE]
  /\ UNCHANGED <<exchange, apiToken>>

\* validExchangeCode.
Exchangeable(k, client) ==
  mcpCode[k].state = "fresh" /\ ~mcpCode[k].due /\ mcpCode[k].client = client

\* A request that is refused here changes nothing.
ReadCode(e) ==
  /\ exchange[e].pc = "idle"
  /\ \E k \in Codes, client \in Clients :
       /\ Exchangeable(k, client)
       /\ exchange' = [exchange EXCEPT ![e] =
                         [pc |-> "read", code |-> k, workspace |-> mcpCode[k].workspace]]
  /\ UNCHANGED <<mcpCode, apiToken>>

\* Mutant: nobody counts the rows of the UPDATE.
ConsumeUncounted(e) ==
  /\ exchange[e].pc = "read"
  /\ mcpCode' = [mcpCode EXCEPT ![exchange[e].code].state = "consumed"]
  /\ exchange' = [exchange EXCEPT ![e].pc = "mint"]
  /\ UNCHANGED apiToken

\* consumeCode: WHERE consumed_at IS NULL, and no row means invalid_grant.
ConsumeCode(e) ==
  LET k == exchange[e].code
  IN  /\ exchange[e].pc = "read"
      /\ IF mcpCode[k].state = "fresh"
         THEN /\ mcpCode' = [mcpCode EXCEPT ![k].state = "consumed"]
              /\ exchange' = [exchange EXCEPT ![e].pc = "mint"]
         ELSE /\ UNCHANGED mcpCode
              /\ exchange' = [exchange EXCEPT ![e] = NoExchange]
      /\ UNCHANGED apiToken

\* The rest of ExchangeCode.
MintForCode(e) ==
  /\ exchange[e].pc = "mint"
  /\ Generated(exchange[e].workspace, exchange[e].code)
  /\ exchange' = [exchange EXCEPT ![e] = NoExchange]
  /\ UNCHANGED mcpCode

\* A statement fails or the server stops.  A consumed code is lost.
ExchangeFails(e) ==
  /\ exchange[e].pc # "idle"
  /\ exchange' = [exchange EXCEPT ![e] = NoExchange]
  /\ UNCHANGED <<mcpCode, apiToken>>

CodesNext ==
  \/ \E k \in Codes, r \in Requests : Authorize(k, r)
  \/ /\ UNCHANGED bearer
     /\ \/ \E k \in Codes : CodeDue(k)
        \/ \E e \in Exchanges : ReadCode(e) \/ ConsumeCode(e) \/ MintForCode(e) \/ ExchangeFails(e)

-----------------------------------------------------------------------------
(* Properties *)

\* A code buys at most one token, and only after it was granted, however many
\* exchanges of it overlap and whichever of them fails.
CodeIsOneShot ==
  INSTANCE OneShot WITH Tickets <- Codes,
    granted <- {k \in Codes : mcpCode[k].state # "none"},
    spent <- [k \in Codes |-> Cardinality(MintedFor(k))]

CodesImplementOneShot == CodeIsOneShot!OneShotSpec

\* No exchange is about to mint for a code that is still open to the others:
\* two of them are never past the consumption of the same code.
OneMinterPerCode ==
  \A e, f \in Exchanges :
    (exchange[e].pc = "mint" /\ exchange[f].pc = "mint" /\ exchange[e].code = exchange[f].code)
      => e = f

\* A token bought with a code has the workspace its user allowed the client,
\* although the exchange read the code before it consumed it.
CodeTokensStayInWorkspace ==
  \A k \in Codes : \A t \in MintedFor(k) : apiToken[t].workspace = mcpCode[k].workspace
=============================================================================
