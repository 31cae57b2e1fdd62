---------------------------- MODULE Connections -----------------------------
(* Connecting a social account (handlers/oauth.go): a state or request token*)
(* is stored, the user authorizes the app, the provider calls back, and the *)
(* account is saved, at once or after the user chose one of several.        *)
(* Requests overlap, and the server may restart in the middle.              *)
EXTENDS Naturals, FiniteSets

CONSTANTS
  Flows,        \* requests being served
  States,       \* states and request tokens; also name the selections
  Instances,    \* Mastodon instances
  Configured,   \* the instances that have a provider app, with a name
  NoInstance,   \* the platform has no instances
  SavedAccounts,\* identifiers of rows of social_accounts
  AccountLimit  \* social accounts the entitlement allows

ASSUME ConnectionsAssumption ==
  /\ Configured \subseteq Instances /\ NoInstance \notin Instances
  /\ AccountLimit \in Nat /\ States # {}
  /\ IsFiniteSet(Flows) /\ Flows # {} /\ "none" \notin Flows

VARIABLES
  state,     \* rows of auth_challenges and x_oauth_request_tokens
  xMeta,     \* XAdapter.requestMeta, in memory
  adapterOf, \* the handlers' adapters by the URL of an instance, in memory: their client
  app,       \* rows of mastodon_instances: the client registered there
  code,      \* external: codes a provider gave out, and for which client
  selection, \* rows of oauth_account_selections
  saved,     \* rows of social_accounts
  flow       \* what each request knows

connVars == <<state, xMeta, adapterOf, app, code, selection, saved, flow>>

-----------------------------------------------------------------------------
(* Rows *)

\* The ways to connect: a redirect, a redirect and a choice, OAuth 1.0a of X,
\* a Mastodon instance.  An app password (Bluesky) needs no redirect.
Kinds == {"redirect", "choice", "x", "mastodon"}

\* An instance is asked for by the name of its app, or by its URL: as the
\* server's name, or as the instance to register with.
WaysTo(at) ==
  IF at = NoInstance THEN {"none"}
  ELSE {"server", "instance"} \cup (IF at \in Configured THEN {"name"} ELSE {})

NoState == [row |-> "none", kind |-> "none", at |-> NoInstance, by |-> "none", due |-> FALSE]
NoClientYet == "none"
NoAccount == [kind |-> "none", at |-> NoInstance, from |-> "none"]
NoFlow == [pc |-> "idle", s |-> CHOOSE s \in States : TRUE, kind |-> "none",
           at |-> NoInstance, by |-> "none", for |-> "none", client |-> NoClientYet, count |-> 0]

\* Adapters of configured instances are built when the server starts.
AtStart == [i \in Instances |-> IF i \in Configured THEN "configured" ELSE NoClientYet]

ConnInit ==
  /\ state = [s \in States |-> NoState]
  /\ xMeta = {}
  /\ adapterOf = AtStart
  /\ app = [i \in Instances |-> NoClientYet]
  /\ code = [s \in States |-> NoClientYet]
  /\ selection = [s \in States |-> "none"]
  /\ saved = [a \in SavedAccounts |-> NoAccount]
  /\ flow = [f \in Flows |-> NoFlow]

Set(f, r) == flow' = [flow EXCEPT ![f] = r]
Goto(f, pc) == flow' = [flow EXCEPT ![f].pc = pc]
End(f) == Set(f, NoFlow)
In(f, pc) == flow[f].pc = pc

-----------------------------------------------------------------------------
(* The adapter of an instance *)

\* The adapter the handlers have: a registration is asked for whatever they
\* have, and no registration touches an adapter kept under a name.
Known(at, by) ==
  IF at = NoInstance \/ by = "name" THEN "configured"
  ELSE IF by = "instance" THEN NoClientYet ELSE adapterOf[at]

\* getMastodonProvider goes to the registered app without one.
FindAdapter(f, at, by, next) ==
  LET r == [flow[f] EXCEPT !.at = at, !.by = by]
  IN  IF Known(at, by) # NoClientYet THEN [r EXCEPT !.pc = next, !.client = Known(at, by)]
      ELSE [r EXCEPT !.pc = "loadApp", !.for = next]

\* loadOrRegister reads the row of the instance, or registers an app there; a
\* client is named after the request that registered it.
LoadApp(f) ==
  LET i == flow[f].at
  IN  /\ In(f, "loadApp")
      /\ IF app[i] # NoClientYet
         THEN Set(f, [flow[f] EXCEPT !.pc = "adapt", !.client = app[i]])
         ELSE Set(f, [flow[f] EXCEPT !.pc = "insertApp", !.client = f])
      /\ UNCHANGED <<state, xMeta, adapterOf, app, code, selection, saved>>

\* Mutant: the app it has just registered is used although another was stored.
OwnApp(f) == flow[f].client

\* The row is unique: when the insert fails, the row that is there is used.
StoredApp(f) == IF app[flow[f].at] = NoClientYet THEN flow[f].client ELSE app[flow[f].at]

InsertApp(f) ==
  LET i == flow[f].at
  IN  /\ In(f, "insertApp")
      /\ app' = [app EXCEPT ![i] = IF @ = NoClientYet THEN flow[f].client ELSE @]
      /\ Set(f, [flow[f] EXCEPT !.pc = "adapt", !.client = StoredApp(f)])
      /\ UNCHANGED <<state, xMeta, adapterOf, code, selection, saved>>

\* getDynamicMastodonProvider keeps the adapter under the URL, in the place of
\* the one that was there.
KeepAdapter(f) ==
  /\ In(f, "adapt")
  /\ adapterOf' = [adapterOf EXCEPT ![flow[f].at] = flow[f].client]
  /\ Goto(f, flow[f].for)
  /\ UNCHANGED <<state, xMeta, app, code, selection, saved>>

-----------------------------------------------------------------------------
(* The URL to authorize at *)

GetAuthURL(f) ==
  /\ In(f, "idle")
  /\ \E kind \in Kinds, at \in Instances \cup {NoInstance} :
       /\ (kind = "mastodon") = (at # NoInstance)
       /\ \E by \in WaysTo(at) :
            Set(f, [FindAdapter(f, at, by, "createState") EXCEPT !.kind = kind])
  /\ UNCHANGED <<state, xMeta, adapterOf, app, code, selection, saved>>

\* The state, or the request token of X, is stored before the URL is given
\* out; the user then authorizes that client and a code is handed out.
CreateState(f) ==
  /\ In(f, "createState")
  /\ \E s \in States :
       /\ state[s].row = "none"
       /\ state' = [state EXCEPT ![s] =
            [row |-> "open", kind |-> flow[f].kind,
             at |-> flow[f].at, by |-> flow[f].by, due |-> FALSE]]
       /\ code' = [code EXCEPT ![s] = flow[f].client]
  /\ End(f)
  /\ UNCHANGED <<xMeta, adapterOf, app, selection, saved>>

FallsDue(s) ==
  /\ state[s].row = "open" /\ ~state[s].due
  /\ state' = [state EXCEPT ![s].due = TRUE]
  /\ UNCHANGED <<xMeta, adapterOf, app, code, selection, saved, flow>>

-----------------------------------------------------------------------------
(* The callback *)

\* A state carries what the adapter was found by, the URL of a registered app.
CarriedBy(s) == IF state[s].by = "instance" THEN "server" ELSE state[s].by

\* Consume reads the row ...
ReadState(f) ==
  /\ In(f, "idle")
  /\ \E s \in States :
       /\ state[s].row = "open"
       /\ Set(f, [NoFlow EXCEPT !.pc = "consume", !.s = s,
                                !.kind = state[s].kind, !.at = state[s].at, !.by = CarriedBy(s)])
  /\ UNCHANGED <<state, xMeta, adapterOf, app, code, selection, saved>>

\* ... deletes it whatever the number of rows, and refuses one that is due.
\* For X the callback does so to learn the workspace, and keeps a copy.
ConsumeState(f) ==
  LET s == flow[f].s
  IN  /\ In(f, "consume")
      /\ state' = [state EXCEPT ![s].row = "gone"]
      /\ IF state[s].due THEN End(f) /\ UNCHANGED xMeta
         ELSE /\ Set(f, FindAdapter(f, flow[f].at, flow[f].by, "exchange"))
              /\ xMeta' = IF flow[f].kind = "x" THEN xMeta \cup {s} ELSE xMeta
      /\ UNCHANGED <<adapterOf, app, code, selection, saved>>

\* XAdapter.ExchangeCode looks in the store it was given, not at the copy.
XSecretFound(f) == state[flow[f].s].row = "open"

\* ExchangeCode: a code is good once, for the client it was given to.
Exchange(f) ==
  LET s == flow[f].s
  IN  /\ In(f, "exchange")
      /\ IF flow[f].kind = "x" /\ ~XSecretFound(f)
         THEN Goto(f, "noSecret") /\ UNCHANGED code
         ELSE IF code[s] = "used" THEN End(f) /\ UNCHANGED code
         ELSE IF code[s] # flow[f].client THEN Goto(f, "wrongClient") /\ UNCHANGED code
         ELSE /\ code' = [code EXCEPT ![s] = "used"]
              /\ Goto(f, IF flow[f].kind = "choice" THEN "choose" ELSE "quota")
      /\ UNCHANGED <<state, xMeta, adapterOf, app, selection, saved>>

\* exchange-mastodon-code: the user pastes the code of an instance, and the page
\* asks for the instance as it did before.
PasteCode(f) ==
  /\ In(f, "idle")
  /\ \E s \in States :
       /\ state[s].row = "open" /\ state[s].kind = "mastodon"
       /\ Set(f, [FindAdapter(f, state[s].at, state[s].by, "exchange") EXCEPT
                    !.s = s, !.kind = "mastodon"])
  /\ UNCHANGED <<state, xMeta, adapterOf, app, code, selection, saved>>

\* createPendingAccountSelection.
CreateSelection(f) ==
  /\ In(f, "choose")
  /\ selection' = [selection EXCEPT ![flow[f].s] = "pending"]
  /\ End(f)
  /\ UNCHANGED <<state, xMeta, adapterOf, app, code, saved>>

\* Mutant: the selection is consumed first.
ConsumesFirst(f) == "mark"

\* A loaded selection is saved and then consumed.
SavesFirst(f) == "quota"

\* CompleteAccountSelection reads a selection that is not consumed.
LoadSelection(f) ==
  /\ In(f, "idle")
  /\ \E s \in States :
       /\ selection[s] = "pending"
       /\ Set(f, [NoFlow EXCEPT !.pc = SavesFirst(f), !.s = s, !.kind = "choice"])
  /\ UNCHANGED <<state, xMeta, adapterOf, app, code, selection, saved>>

\* bluesky-login exchanges an app password and saves.
BlueskyLogin(f) ==
  /\ In(f, "idle")
  /\ Set(f, [NoFlow EXCEPT !.pc = "quota", !.kind = "bluesky"])
  /\ UNCHANGED <<state, xMeta, adapterOf, app, code, selection, saved>>

-----------------------------------------------------------------------------
(* Saving *)

Active == {a \in SavedAccounts : saved[a] # NoAccount}

\* Mutant: the limit itself is let through.
CheckQuotaLate(f) ==
  /\ In(f, "quota")
  /\ IF Cardinality(Active) <= AccountLimit THEN Goto(f, "insert") ELSE End(f)
  /\ UNCHANGED <<state, xMeta, adapterOf, app, code, selection, saved>>

\* checkSocialAccountQuota counts, ...
CheckQuota(f) ==
  /\ In(f, "quota")
  /\ IF Cardinality(Active) < AccountLimit THEN Goto(f, "insert") ELSE End(f)
  /\ UNCHANGED <<state, xMeta, adapterOf, app, code, selection, saved>>

\* ... and the row is inserted; a failure leaves a selection as it is.
InsertAccount(f) ==
  /\ In(f, "insert")
  /\ \/ \E a \in SavedAccounts \ Active :
          /\ saved' = [saved EXCEPT ![a] =
               [kind |-> flow[f].kind, at |-> flow[f].at, from |-> flow[f].s]]
          /\ IF flow[f].kind = "choice" THEN Goto(f, "mark") ELSE End(f)
     \/ End(f) /\ UNCHANGED saved
  /\ UNCHANGED <<state, xMeta, adapterOf, app, code, selection>>

\* consumed_at is set.
MarkSelection(f) ==
  /\ In(f, "mark")
  /\ selection' = [selection EXCEPT ![flow[f].s] = "consumed"]
  /\ End(f)
  /\ UNCHANGED <<state, xMeta, adapterOf, app, code, saved>>

\* A redirect to the page with the error, or a request that dies.
FlowEnds(f) ==
  /\ ~In(f, "idle") /\ End(f)
  /\ UNCHANGED <<state, xMeta, adapterOf, app, code, selection, saved>>

\* The server restarts: what was in memory is gone.
Restart ==
  /\ xMeta' = {} /\ adapterOf' = AtStart /\ flow' = [f \in Flows |-> NoFlow]
  /\ <<xMeta, adapterOf, flow>> # <<{}, AtStart, flow'>>
  /\ UNCHANGED <<state, app, code, selection, saved>>

ConnNext ==
  \/ \E f \in Flows :
       \/ LoadApp(f) \/ InsertApp(f) \/ KeepAdapter(f) \/ GetAuthURL(f) \/ CreateState(f)
       \/ ReadState(f) \/ ConsumeState(f) \/ Exchange(f) \/ PasteCode(f)
       \/ CreateSelection(f) \/ LoadSelection(f) \/ BlueskyLogin(f)
       \/ CheckQuota(f) \/ InsertAccount(f) \/ MarkSelection(f) \/ FlowEnds(f)
  \/ \E s \in States : FallsDue(s)
  \/ Restart

-----------------------------------------------------------------------------
(* Properties *)

\* The code a user got for an instance is exchanged with the app that asked
\* for it, although registrations of the instance overlapped and the server
\* restarted in between.  Excepted is the lookup of a configured instance under
\* its URL (oauth.go, getMastodonProvider and getDynamicMastodonProvider): the
\* adapter there is the configured one until the instance is registered with,
\* then that of the registered app, and the configured one after a restart.
ExchangeUsesTheAppThatAsked ==
  \A f \in Flows : In(f, "wrongClient") => flow[f].at \in Configured /\ flow[f].by = "server"

\* A selection is consumed only when its account was saved: a save that fails
\* can be tried again.
ConsumedSelectionHasAccount ==
  \A s \in States : selection[s] = "consumed" =>
    \E a \in Active : saved[a].kind = "choice" /\ saved[a].from = s

\* The limit of accounts is counted before the insert, so requests that
\* overlap may pass it, but by no more than there were of them.
AccountsNearLimit == Cardinality(Active) <= AccountLimit + Cardinality(Flows) - 1

\* "Re-store for subsequent token exchange call in same request path"
\* (platform/x.go): the exchange of an X callback finds the request token's
\* secret.
XExchangeFindsSecret == \A f \in Flows : ~In(f, "noSecret")

\* The safety of connections: the right app exchanges the code, a selection
\* that is used up has its account, and the limit is passed by overlapping
\* requests only.
ConnectionSafety == ExchangeUsesTheAppThatAsked /\ ConsumedSelectionHasAccount /\ AccountsNearLimit
=============================================================================
