---------------------------- MODULE Organization -----------------------------
(* An organization from nothing: its workspaces and members, what they        *)
(* schedule, and the events that change its plan, all at any time.            *)
EXTENDS ScheduledPosts

organizationVars == <<billingVars, teamVars, quotaVars>>

OrganizationInit == BillingInit /\ TeamInit /\ QuotaInit

OrganizationNext ==
  \/ BillingNext /\ UNCHANGED <<teamVars, quotaVars>>
  \/ TeamNext /\ UNCHANGED <<billingVars, quotaVars>>
  \/ QuotaNext /\ UNCHANGED <<billingVars, teamVars>>

OrganizationSpec == OrganizationInit /\ [][OrganizationNext]_organizationVars
=============================================================================
