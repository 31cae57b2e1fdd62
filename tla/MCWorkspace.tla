----------------------------- MODULE MCWorkspace -----------------------------
(* What belongs to a workspace, on small instances: billing, members and      *)
(* invitations, the quota of scheduled posts, media, posting times and        *)
(* account sets.  A behaviour runs one of them ("area"); those of a team run  *)
(* beside the events that change the plan of their organization.  The area    *)
(* "billing" starts from nothing and the others from one subscription; the    *)
(* areas "uploads" and "sessions" start without media, and the areas of       *)
(* removal with some.                                                         *)
EXTENDS Organization, MediaUploads, PostingSchedules, AccountSets

CONSTANTS TheOrganization, Owner, FirstEvent, FirstWorkspace, SecondWorkspace,
          FirstMedia, OneRequest, OneSlotPost

ASSUME FoundingAssumption ==
  /\ TheOrganization \in Organizations /\ Owner \in Users /\ FirstEvent \in WebhookEvents
  /\ {FirstWorkspace, SecondWorkspace} \subseteq WorkspaceIds

\* The first files differ, and are as many as uploads could have stored.
ASSUME FilledAssumption ==
  /\ FirstMedia \subseteq MediaIds /\ IsFiniteSet(FirstMedia)
  /\ Cardinality(FirstMedia) <= StoredLimit + Cardinality(MediaRequests) - 1
  /\ \E f \in [FirstMedia -> Hashes] : \A m, n \in FirstMedia : f[m] = f[n] => m = n

VARIABLE area

\* No request differs from another, and none is chosen.
RequestSymmetry == Permutations(ScheduleRequests \cup TeamRequests)

\* The plans; the key of a limit is its name.
TeamPlans == [team |-> [workspaces |-> 2, team_members |-> 2, scheduled_posts_monthly |-> 3],
              solo |-> [workspaces |-> 1, scheduled_posts_monthly |-> 1]]

Downgrade == [type |-> "subscription", org |-> TheOrganization,
              content |-> [status |-> "active", limits |-> TeamPlans.solo]]

\* An organization whose first checkout was for a team.
FirstSubscription ==
  LET s == [status |-> "active", limits |-> TeamPlans.team] IN
  /\ subscription = [o \in Organizations |-> IF o = TheOrganization THEN s ELSE NoSubscription]
  /\ polar = subscription
  /\ event = [e \in WebhookEvents |-> IF e = FirstEvent
       THEN [type |-> "subscription", org |-> TheOrganization, content |-> s] ELSE NoEvent]
  /\ sent = <<FirstEvent>> /\ ledger = <<FirstEvent>> /\ dbErrors = 0

\* It has one workspace, or two that schedule.
Founding ==
  /\ workspace = [w \in WorkspaceIds |->
       IF w = FirstWorkspace \/ (area = "quota" /\ w = SecondWorkspace)
       THEN [org |-> TheOrganization, by |-> Owner] ELSE NoWorkspace]
  /\ orgMember = [o \in Organizations |-> IF o = TheOrganization THEN {Owner} ELSE {}]
  /\ member = [w \in WorkspaceIds |-> [u \in Users |->
       IF workspace[w] # NoWorkspace /\ u = Owner THEN "admin" ELSE "none"]]
  /\ invitation = [i \in InvitationIds |-> NoInvitation]
  /\ request = [q \in TeamRequests |-> NoRequest]

\* A library of files that no post uses.
Filled ==
  /\ LET files == CHOOSE f \in [FirstMedia -> Hashes] :
                      \A m, n \in FirstMedia : f[m] = f[n] => m = n
     IN  /\ object = [m \in MediaIds |-> IF m \in FirstMedia THEN files[m] ELSE "none"]
         /\ row = [m \in MediaIds |-> IF m \in FirstMedia THEN Medium("ready", files[m])
                                      ELSE NoMedium]
  /\ LibraryIdle
  /\ upload = [u \in MediaRequests |-> NoUpload]
  /\ counted = 0

mediaVars == <<libraryVars, uploadVars>>
workspaceVars == <<area, organizationVars, mediaVars, scheduleVars, setVars>>

WorkspaceInit ==
  /\ area \in {"billing", "workspaces", "invitations", "quota", "uploads", "sessions",
               "deleting", "cleaning", "schedules", "slots", "sets"}
  /\ IF area = "billing" THEN BillingInit /\ TeamInit ELSE FirstSubscription /\ Founding
  /\ IF area \in {"deleting", "cleaning"} THEN Filled ELSE UploadsInit
  /\ QuotaInit /\ SchedulesInit /\ SetsInit

Inviting == {"member", "pending", "countMembers", "countPending", "insert", "accept"}

\* Two workspaces schedule for the second month, in the first and when it has come.
Watched == {FirstWorkspace, SecondWorkspace} \X {2}

\* One side of the organization at a time ("billing", "invitations"), or the
\* plan beside the workspaces that are made ("workspaces"), or a smaller plan
\* beside what is scheduled ("quota").
Team ==
  /\ UNCHANGED <<mediaVars, scheduleVars, setVars>>
  /\ \/ area = "billing" /\ BillingNext /\ UNCHANGED <<teamVars, quotaVars>>
     \/ /\ area = "workspaces" /\ UNCHANGED quotaVars /\ OrganizationNext
        /\ dbErrors' = 0
        /\ \A q \in TeamRequests : request'[q].pc \notin Inviting
     \/ /\ area = "invitations" /\ TeamNext /\ UNCHANGED <<billingVars, quotaVars>>
        /\ \A q \in TeamRequests : request'[q].pc # "create"
     \/ /\ area = "quota" /\ UNCHANGED teamVars /\ OrganizationNext
        /\ dbErrors' = 0 /\ Len(sent') <= 2
        /\ \A e \in WebhookEvents \ {FirstEvent} : event'[e] \in {NoEvent, Downgrade}
        /\ \A q \in ScheduleRequests :
             scheduling'[q] = NoScheduling \/ scheduling'[q].period \in Watched

Cleanup == SelectUnused \/ SkipVariantMedia \/ DeleteUnusedFile \/ DeleteUnusedRow \/ EndCleanup

\* Sessions are what ages while uploads are under way; media do when they are cleaned up.
Pending == {m \in MediaIds : row[m].status = "processing"}

\* Two requests upload or complete at once ("uploads"), or one while the
\* cleanup runs ("sessions"); media are deleted, or cleaned up, under edits.
Media ==
  /\ UNCHANGED <<organizationVars, scheduleVars, setVars>>
  /\ \/ area = "uploads" /\ UploadsNext
     \/ /\ area = "sessions"
        /\ \/ UploadsNext /\ \A u \in MediaRequests \ {OneRequest} : UNCHANGED upload[u]
           \/ (Cleanup \/ \E m \in Pending : Ages(m)) /\ UNCHANGED uploadVars
     \/ /\ area \in {"deleting", "cleaning"} /\ LibraryNext /\ UNCHANGED uploadVars
        /\ area = "deleting" => cleanup'.pc = "idle" /\ \A m \in MediaIds : ~row'[m].old
        /\ area = "cleaning" => \A d \in Deleters : deleter'[d].pc = "idle"

\* Posting times that change while one post takes a slot ("schedules"), or that
\* only become more while two do ("slots"), and account sets.
Settings ==
  /\ UNCHANGED <<organizationVars, mediaVars>>
  /\ \/ /\ area = "schedules" /\ SchedulesNext /\ UNCHANGED setVars
        /\ \A p \in SlotPosts \ {OneSlotPost} : UNCHANGED slotPost[p]
     \/ /\ area = "slots" /\ SchedulesNext /\ UNCHANGED <<reader, setVars>>
        /\ \A s \in ScheduleIds \ Free : UNCHANGED schedule[s]
     \/ area = "sets" /\ SetsNext /\ UNCHANGED scheduleVars

WorkspaceNext == UNCHANGED area /\ (Team \/ Media \/ Settings)

WorkspaceSpec == WorkspaceInit /\ [][WorkspaceNext]_workspaceVars
=============================================================================
