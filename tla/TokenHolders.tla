---------------------------- MODULE TokenHolders ----------------------------
(* The three ways to an API token, together: tokens are created by the       *)
(* requests of those who hold one or are signed in, bought by the logins of  *)
(* the command line that such a request approved, and bought with the codes  *)
(* of the MCP server that such a request allowed.  All mint rows of the one  *)
(* table, and a token that came from any of them is a bearer like the rest.  *)
EXTENDS CliLogin, McpCodes

ASSUME OriginsAssumption == Logins \cap Codes = {} /\ NoToken \notin Logins \cup Codes

holderVars == <<tokenVars, loginVars, codeVars>>

HoldersInit == TokensInit /\ LoginInit /\ CodesInit

HoldersNext ==
  \/ TokensNext /\ UNCHANGED <<loginVars, codeVars>>
  \/ LoginNext /\ UNCHANGED codeVars
  \/ CodesNext /\ UNCHANGED loginVars

HoldersSpec == HoldersInit /\ [][HoldersNext]_holderVars

\* The safety of those who hold tokens: what a token creates stays in its
\* workspace, what a code buys in the workspace that was allowed, the command
\* line uses the token it was last given, and a code is exchanged by one request
\* (ApiTokens, McpCodes, CliLogin).
HolderSafety ==
  /\ CreationStaysInWorkspace
  /\ CodeTokensStayInWorkspace
  /\ StoreIsWhatWasMeant
  /\ OneMinterPerCode
=============================================================================
