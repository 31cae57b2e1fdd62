---------------------------- MODULE Entitlements ----------------------------
(* What a plan allows (services/entitlements): the cloud service reads the  *)
(* subscription of the organization, and a user without an organization has *)
(* a bootstrap allowance.                                                   *)
EXTENDS Naturals, FiniteSets, FiniteSetsExt

CONSTANTS
  Organizations,
  BootstrapWorkspaces  \* workspaces a user may make before any checkout

ASSUME EntitlementsAssumption == BootstrapWorkspaces \in Nat

VARIABLE
  subscription  \* rows of billing_subscriptions

-----------------------------------------------------------------------------
\* The limits of a plan; one that is missing is no limit.
NoLimits == [key \in {} |-> 0]
NoSubscription == [status |-> "none", limits |-> NoLimits]

SubscriptionStatusAllowsUsage(s) == s.status \in {"active", "trialing"}

\* Mutant: one more than the limit is let through.
WithinLimitOffByOne(limits, key, current, amount) ==
  key \in DOMAIN limits => current + amount <= limits[key] + 1

\* StaticService.Check
WithinLimit(limits, key, current, amount) ==
  key \in DOMAIN limits => current + amount <= limits[key]

\* SubscriptionService.Check for a workspace or an organization.
CheckLimit(org, key, current, amount) ==
  /\ SubscriptionStatusAllowsUsage(subscription[org])
  /\ WithinLimit(subscription[org].limits, key, current, amount)

\* checkUnscoped: the largest limit among the user's organizations, or else
\* the bootstrap allowance.
CheckUserWorkspaces(orgs, current) ==
  LET found == {subscription[o].limits["workspaces"] : o \in
                  {o \in orgs : /\ SubscriptionStatusAllowsUsage(subscription[o])
                                /\ "workspaces" \in DOMAIN subscription[o].limits}}
  IN  current + 1 <= IF found = {} THEN BootstrapWorkspaces ELSE Max(found)
=============================================================================
