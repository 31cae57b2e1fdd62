----------------------------- MODULE Workspaces ------------------------------
(* Workspaces, their members, and the invitations that fill their seats     *)
(* (handlers/workspaces.go).  Requests overlap at every statement, and the  *)
(* plan of an organization changes beside them.                             *)
EXTENDS Billing, TLC

CONSTANTS
  Users,
  WorkspaceIds,
  InvitationIds,
  TeamRequests   \* requests being served

ASSUME TeamAssumption ==
  /\ IsFiniteSet(TeamRequests) /\ TeamRequests # {}
  /\ \A S \in {Organizations, Users, WorkspaceIds, InvitationIds} : "none" \notin S

VARIABLES
  workspace,   \* rows of workspaces, with the user who made them
  orgMember,   \* rows of organization_members
  member,      \* rows of workspace_members: the role
  invitation,  \* rows of workspace_invitations
  request      \* what each request knows

teamVars == <<workspace, orgMember, member, invitation, request>>

-----------------------------------------------------------------------------
NoWorkspace == [org |-> "none", by |-> "none"]
NoInvitation == [status |-> "none", ws |-> "none", email |-> "none",
                 role |-> "none", expired |-> FALSE]
NoRequest == [pc |-> "idle", ws |-> "none", user |-> "none", org |-> "none",
              role |-> "none", i |-> "none", count |-> 0]

TeamInit ==
  /\ workspace = [w \in WorkspaceIds |-> NoWorkspace]
  /\ orgMember = [o \in Organizations |-> {}]
  /\ member = [w \in WorkspaceIds |-> [u \in Users |-> "none"]]
  /\ invitation = [i \in InvitationIds |-> NoInvitation]
  /\ request = [q \in TeamRequests |-> NoRequest]

OpenInvitations(w) ==
  {i \in InvitationIds : /\ invitation[i].status = "pending"
                         /\ invitation[i].ws = w /\ ~invitation[i].expired}
Members(w) == {u \in Users : member[w][u] # "none"}
WorkspacesOf(org) == {w \in WorkspaceIds : workspace[w].org = org}
MembershipsOf(u) == {w \in WorkspaceIds : member[w][u] # "none"}
OrganizationsOf(u) == {o \in Organizations : u \in orgMember[o]}
Founded == {o \in Organizations : orgMember[o] # {}}

InStep(q, pc) == request[q].pc = pc
SetRequest(q, r) == request' = [request EXCEPT ![q] = r]
NextStep(q, pc) == request' = [request EXCEPT ![q].pc = pc]
Answer(q) == SetRequest(q, NoRequest)

-----------------------------------------------------------------------------
(* CreateWorkspace *)

\* Only an administrator of an organization may name it; its workspaces are
\* counted, or else the user's memberships.
MayCreate(u, org) ==
  IF org # "none"
  THEN CheckLimit(org, "workspaces", Cardinality(WorkspacesOf(org)), 1)
  ELSE CheckUserWorkspaces(OrganizationsOf(u), Cardinality(MembershipsOf(u)))

StartCreate(q) ==
  /\ InStep(q, "idle")
  /\ \E u \in Users, org \in Founded \cup {"none"} :
       /\ org # "none" => u \in orgMember[org]
       /\ MayCreate(u, org)
       /\ SetRequest(q, [NoRequest EXCEPT !.pc = "create", !.user = u, !.org = org])
  /\ UNCHANGED <<workspace, orgMember, member, invitation>>

UnusedWorkspaces == {w \in WorkspaceIds : workspace[w] = NoWorkspace}
NewWorkspace == CHOOSE w \in UnusedWorkspaces : TRUE

\* One transaction: the organization if it is new, its owner, the workspace
\* and its administrator.
InsertWorkspace(q) ==
  /\ InStep(q, "create") /\ UnusedWorkspaces # {}
  /\ \E o \in Organizations :
       /\ \/ o = request[q].org
          \/ request[q].org = "none" /\ o \notin Founded
       /\ workspace' = [workspace EXCEPT ![NewWorkspace] = [org |-> o, by |-> request[q].user]]
       /\ orgMember' = [orgMember EXCEPT ![o] = @ \cup {request[q].user}]
       /\ member' = [member EXCEPT ![NewWorkspace][request[q].user] = "admin"]
  /\ Answer(q)
  /\ UNCHANGED invitation

-----------------------------------------------------------------------------
(* CreateWorkspaceInvitation: four queries, the check, and the insert *)

StartInvite(q) ==
  /\ InStep(q, "idle")
  /\ \E w \in WorkspaceIds, by \in Users, u \in Users, role \in {"admin", "editor"} :
       /\ member[w][by] = "admin"
       /\ SetRequest(q, [NoRequest EXCEPT !.pc = "member", !.ws = w, !.user = u, !.role = role])
  /\ UNCHANGED <<workspace, orgMember, member, invitation>>

CheckMember(q) ==
  /\ InStep(q, "member")
  /\ IF request[q].user \in Members(request[q].ws) THEN Answer(q) ELSE NextStep(q, "pending")
  /\ UNCHANGED <<workspace, orgMember, member, invitation>>

CheckPending(q) ==
  /\ InStep(q, "pending")
  /\ IF \E i \in OpenInvitations(request[q].ws) : invitation[i].email = request[q].user
     THEN Answer(q) ELSE NextStep(q, "countMembers")
  /\ UNCHANGED <<workspace, orgMember, member, invitation>>

CountMembers(q) ==
  /\ InStep(q, "countMembers")
  /\ SetRequest(q, [request[q] EXCEPT !.pc = "countPending",
                                      !.count = Cardinality(Members(request[q].ws))])
  /\ UNCHANGED <<workspace, orgMember, member, invitation>>

CountPending(q) ==
  LET w == request[q].ws
      seats == request[q].count + Cardinality(OpenInvitations(w))
  IN  /\ InStep(q, "countPending")
      /\ IF CheckLimit(workspace[w].org, "team_members", seats, 1)
         THEN NextStep(q, "insert") ELSE Answer(q)
      /\ UNCHANGED <<workspace, orgMember, member, invitation>>

InsertInvitation(q) ==
  /\ InStep(q, "insert")
  /\ LET unused == {i \in InvitationIds : invitation[i].status = "none"} IN
       /\ unused # {}
       /\ invitation' = [invitation EXCEPT ![CHOOSE i \in unused : TRUE] =
            [status |-> "pending", ws |-> request[q].ws, email |-> request[q].user,
             role |-> request[q].role, expired |-> FALSE]]
  /\ Answer(q)
  /\ UNCHANGED <<workspace, orgMember, member>>

RevokeInvitation(i) ==
  /\ invitation[i].status = "pending"
  /\ invitation' = [invitation EXCEPT ![i].status = "revoked"]
  /\ UNCHANGED <<workspace, orgMember, member, request>>

Expires(i) ==
  /\ invitation[i].status = "pending" /\ ~invitation[i].expired
  /\ invitation' = [invitation EXCEPT ![i].expired = TRUE]
  /\ UNCHANGED <<workspace, orgMember, member, request>>

-----------------------------------------------------------------------------
(* AcceptWorkspaceInvitation *)

\* What was read decides; the user's address must be the invited one.
ReadInvitation(q) ==
  /\ InStep(q, "idle")
  /\ \E i \in InvitationIds :
       /\ invitation[i].status = "pending" /\ ~invitation[i].expired
       /\ SetRequest(q, [NoRequest EXCEPT !.pc = "accept", !.i = i,
            !.ws = invitation[i].ws, !.user = invitation[i].email, !.role = invitation[i].role])
  /\ UNCHANGED <<workspace, orgMember, member, invitation>>

StillPending(q) == invitation[request[q].i].status = "pending"

\* ON CONFLICT DO NOTHING: a member keeps the role.
Joined(q) ==
  [member EXCEPT ![request[q].ws][request[q].user] = IF @ = "none" THEN request[q].role ELSE @]

\* Mutant: the member stays when no invitation was updated.
JoinedAnyway(q) == Joined(q)

\* The transaction is rolled back when the invitation is no longer pending.
JoinedOrRolledBack(q) == IF StillPending(q) THEN Joined(q) ELSE member

AcceptInvitation(q) ==
  /\ InStep(q, "accept")
  /\ member' = JoinedOrRolledBack(q)
  /\ invitation' = IF StillPending(q)
                   THEN [invitation EXCEPT ![request[q].i].status = "accepted"] ELSE invitation
  /\ Answer(q)
  /\ UNCHANGED <<workspace, orgMember>>

TeamNext ==
  \/ \E q \in TeamRequests :
       \/ StartCreate(q) \/ InsertWorkspace(q)
       \/ StartInvite(q) \/ CheckMember(q) \/ CheckPending(q)
       \/ CountMembers(q) \/ CountPending(q) \/ InsertInvitation(q)
       \/ ReadInvitation(q) \/ AcceptInvitation(q)
  \/ \E i \in InvitationIds : RevokeInvitation(i) \/ Expires(i)

-----------------------------------------------------------------------------
(* Properties *)

\* Everybody in a workspace made it, or accepted an invitation to it for that
\* address and that role: one that was revoked while it was being accepted
\* lets nobody in.
MembersWereInvited ==
  \A w \in WorkspaceIds : \A u \in Members(w) \ {workspace[w].by} :
    \E i \in InvitationIds :
      /\ invitation[i].status = "accepted"
      /\ invitation[i].ws = w /\ invitation[i].email = u
      /\ invitation[i].role = member[w][u]

\* A second workspace of an organization needs a plan that allowed it: its
\* workspaces are at most as many as one of the plans it has had allowed, and as
\* the requests that were checked beside another.  A smaller plan that comes
\* later takes none away.
WorkspacesNearLimit ==
  \A o \in Organizations :
    \/ Cardinality(WorkspacesOf(o)) <= 1
    \/ \E limits \in PlansHad(o) : "workspaces" \in DOMAIN limits =>
         Cardinality(WorkspacesOf(o)) <= limits["workspaces"] + Cardinality(TeamRequests) - 1

\* The safety of a team (CreateWorkspace, the handlers of invitations).
TeamSafety == MembersWereInvited /\ WorkspacesNearLimit
=============================================================================
