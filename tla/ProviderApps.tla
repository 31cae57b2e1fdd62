---------------------------- MODULE ProviderApps ----------------------------
(* The registry of provider apps: a list from the environment, rows that an *)
(* instance admin saves (services/providerapps, handlers/provider_apps.go), *)
(* and the adapters a server builds from both when it starts                *)
(* (platform/registry.go, cmd/openpost/main.go).                            *)
EXTENDS Naturals, Sequences, SequencesExt

CONSTANTS
  Servers,       \* Mastodon instances; every other provider has one app
  OtherProvider, \* a provider without instances
  AppNames,      \* what Mastodon apps are called
  NoAppName,
  Clients,       \* OAuth client identifiers
  NoClient,
  MaxEnvApps     \* bound: entries in the environment

\* No app is called as an instance's URL, or as a provider.
ASSUME ProviderAppsAssumption ==
  /\ NoClient \notin Clients /\ OtherProvider \notin Servers /\ MaxEnvApps \in Nat
  /\ NoAppName \notin AppNames /\ AppNames \cap (Servers \cup {OtherProvider}) = {}

VARIABLES
  envApps,   \* cfg.ProviderApps, a list
  appRow,    \* rows of provider_apps, at most one per key
  booted,    \* history: the rows the server has read at its start
  adapters,  \* the client of the adapter under each instance, provider and name
  server     \* "up", "stopped", "failed"

appVars == <<envApps, appRow, booted, adapters, server>>

Keys == Servers \cup {OtherProvider}

App == {a \in [key : Keys, name : AppNames \cup {NoAppName}, client : Clients, secret : BOOLEAN] :
          a.key = OtherProvider => a.name = NoAppName}

NoAppRow == [key |-> OtherProvider, name |-> NoAppName, client |-> NoClient,
             secret |-> FALSE, active |-> FALSE]

-----------------------------------------------------------------------------
(* Start of the server *)

\* The positions of the entries with a key.
Places(list, key) == {i \in DOMAIN list : list[i].key = key}

\* Mutant: an override is put in front.
OverrideInFront(list, app) == <<app>> \o list

\* One override of MergeAppConfigs: it takes the place of the last entry with
\* its key, or comes last.
Override(list, app) ==
  IF Places(list, app.key) = {} THEN Append(list, app)
  ELSE [list EXCEPT ![Max(Places(list, app.key))] = app]

ActiveRows == {k \in Keys : appRow[k].active}

\* The second loop of MergeAppConfigs: the list after each of the overrides.
MergeAppConfigs(order) ==
  LET after[i \in 0 .. Len(order)] ==
        IF i = 0 THEN envApps ELSE Override(after[i - 1], appRow[order[i]])
  IN  after[Len(order)]

\* The overrides are the active rows, in the order they are read.
Merged == MergeAppConfigs(SetToSeq(ActiveRows))

\* The builders of BuildAdapterRegistry refuse a Mastodon app without a secret.
Builds(app) == app.key \in Servers => app.secret

\* A Mastodon app is found by its instance, and by its name if it has one.
AdapterKeys(app) == {app.key} \cup ({app.name} \ {NoAppName})

\* The positions of the apps that are found under k.
FoundAt(list, k) == {i \in DOMAIN list : k \in AdapterKeys(list[i])}

\* A later app takes the key over.
Adapters(list) ==
  [k \in Keys \cup AppNames |->
     IF FoundAt(list, k) = {} THEN NoClient ELSE list[Max(FoundAt(list, k))].client]

NoRows == [k \in Keys |-> NoAppRow]
NoAdapters == [k \in Keys \cup AppNames |-> NoClient]

\* MASTODON_SERVERS may list an instance twice; no other provider comes twice.
\* The secret of an app outside Mastodon makes no difference here.
AppsInit ==
  /\ envApps \in BoundedSeq({a \in App : a.secret}, MaxEnvApps)
  /\ \A i, j \in Places(envApps, OtherProvider) : i = j
  /\ appRow = NoRows /\ booted = NoRows
  /\ adapters = NoAdapters
  /\ server = "stopped"

StartServer ==
  /\ server = "stopped"
  /\ \/ /\ \A i \in DOMAIN Merged : Builds(Merged[i])
        /\ adapters' = Adapters(Merged) /\ server' = "up"
        /\ booted' = [k \in Keys |-> IF appRow[k].active THEN appRow[k] ELSE NoAppRow]
     \/ /\ \E i \in DOMAIN Merged : ~Builds(Merged[i])
        /\ server' = "failed" /\ UNCHANGED <<adapters, booted>>
  /\ UNCHANGED <<envApps, appRow>>

StopServer ==
  /\ server = "up" /\ server' = "stopped"
  /\ booted' = NoRows /\ adapters' = NoAdapters
  /\ UNCHANGED <<envApps, appRow>>

-----------------------------------------------------------------------------
(* The admin *)

\* UpsertProviderApp: a new row has the secret that is given, if one is; an
\* update that gives none keeps the one there is.
SaveApp ==
  /\ server = "up"
  /\ \E k \in Keys, n \in AppNames \cup {NoAppName}, c \in Clients, given, active \in BOOLEAN :
       /\ k = OtherProvider => given /\ n = NoAppName
       /\ appRow' = [appRow EXCEPT ![k] =
            [key |-> k, name |-> n, client |-> c,
             secret |-> given \/ appRow[k].secret, active |-> active]]
  /\ UNCHANGED <<envApps, booted, adapters, server>>

\* DeleteProviderApp.
DeleteApp ==
  /\ server = "up"
  /\ \E k \in Keys : appRow[k] # NoAppRow /\ appRow' = [appRow EXCEPT ![k] = NoAppRow]
  /\ UNCHANGED <<envApps, booted, adapters, server>>

AppsNext == StartServer \/ StopServer \/ SaveApp \/ DeleteApp

-----------------------------------------------------------------------------

\* The app in force for k: the active row the server found at its start, and
\* else the last entry of the environment.
HasApp(k) == booted[k].active \/ Places(envApps, k) # {}
InForce(k) == IF booted[k].active THEN booted[k] ELSE envApps[Max(Places(envApps, k))]

\* What the list of MergeAppConfigs still has of an instance that the
\* environment lists again: its earlier entries.
Superseded(i) == i # Max(Places(envApps, envApps[i].key))

\* A running server posts and connects with the app in force, whatever the
\* environment repeats and in whichever order the rows were read: under a
\* provider or an instance there is the client of its app in force, or none if
\* it has none; under a name, the client of an app in force with that name, and
\* none of a name that only an overridden app had.  Excepted are the earlier
\* entries of an instance listed twice, which stay under their own names.
OverrideWins ==
  server = "up" =>
    /\ \A k \in Keys : adapters[k] = IF HasApp(k) THEN InForce(k).client ELSE NoClient
    /\ \A k \in Keys : HasApp(k) => \A n \in AdapterKeys(InForce(k)) : adapters[n] # NoClient
    /\ \A n \in AppNames : adapters[n] # NoClient =>
         \/ \E k \in Keys : HasApp(k) /\ InForce(k).name = n /\ InForce(k).client = adapters[n]
         \/ \E i \in DOMAIN envApps :
              Superseded(i) /\ envApps[i].name = n /\ envApps[i].client = adapters[n]
=============================================================================
