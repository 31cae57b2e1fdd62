----------------------------- MODULE MCPlatforms -----------------------------
(* The ways out, on small instances: the registry of provider apps, the       *)
(* connection of accounts, the upkeep of their tokens, and the adapters that   *)
(* post to the platforms.  A behaviour runs one of them ("area").  Accounts    *)
(* are connected in four areas, by the way they take; the adapters run with    *)
(* a thread of posts without media, and with one post and each kind of media.  *)
EXTENDS ProviderApps, Connections, AccountTokens, PlatformPosts

CONSTANTS OneState, PostDeliveries   \* PostDeliveries bounds the deliveries of one post

VARIABLE area

\* Which ways to connect an area has, and which instances: the registrations of
\* two instances have nothing in common.
KindsOf == [registered |-> {"none", "mastodon"}, configured |-> {"none", "mastodon"},
            callbacks |-> {"none", "x", "redirect", "choice"},
            selections |-> {"none", "choice", "bluesky"}]
InstancesOf == [registered |-> Instances \ Configured, configured |-> Configured]

providerVars == <<appVars, connVars, tokenMgrVars>>
platformsVars == <<area, providerVars, adapterVars>>

PlatformsInit ==
  /\ area \in DOMAIN KindsOf \cup {"apps", "tokens", "thread", "media"}
  /\ AppsInit /\ ConnInit /\ AccountTokensInit /\ AdaptersInit
  /\ area # "apps" => envApps = <<>>
  /\ \A p \in ThreadPosts : (area # "media" \/ p > 1) => attached[p] = <<>>
  /\ area # "media" => https
  /\ area \notin {"thread", "media"} => kind = "x"

Connecting ==
  /\ UNCHANGED adapterVars
  /\ \/ area = "apps" /\ AppsNext /\ UNCHANGED <<connVars, tokenMgrVars>>
     \/ /\ area \in DOMAIN KindsOf /\ ConnNext /\ UNCHANGED <<appVars, tokenMgrVars>>
        /\ \A f \in Flows : flow'[f].kind \in KindsOf[area]
        /\ area \in DOMAIN InstancesOf =>
             UNCHANGED saved /\ \A f \in Flows : flow'[f].at \in InstancesOf[area] \cup {NoInstance}
        /\ area # "callbacks" => \A s \in States : ~state'[s].due
        /\ area = "selections" => \A s \in States \ {OneState} : state'[s].row = "none"
     \/ area = "tokens" /\ AccountTokensNext /\ UNCHANGED <<appVars, connVars>>

Posting ==
  /\ area \in {"thread", "media"} /\ AdaptersNext /\ UNCHANGED providerVars
  /\ area = "media" => delivery'.post = 1 /\ deliveries' <= PostDeliveries

PlatformsNext == UNCHANGED area /\ (Connecting \/ Posting)

PlatformsSafety == PlatformsInit /\ [][PlatformsNext]_platformsVars

PlatformsSpec == PlatformsSafety /\ WF_adapterVars(AdapterStep)
=============================================================================
