------------------------------- MODULE Billing -------------------------------
(* The subscription of an organization follows the events of the payment    *)
(* provider (services/billing): they are delivered at least once, in any    *)
(* order, and a delivery may fail in the middle.                            *)
EXTENDS Entitlements, Sequences, SequencesExt

CONSTANTS
  Plans,          \* the limits of each plan, by name
  WebhookEvents,  \* identifiers of events
  MaxDbErrors     \* bound: deliveries that end in a database error

ASSUME PlansAssumption ==
  \A plan \in DOMAIN Plans : \A key \in DOMAIN Plans[plan] : Plans[plan][key] \in Nat

VARIABLES
  polar,     \* external: the subscription as the provider has it
  event,     \* external: the content of each event
  sent,      \* external: the events in the order they were sent
  ledger,    \* rows of billing_webhook_events, in the order of their insertion
  dbErrors

billingVars == <<subscription, polar, event, sent, ledger, dbErrors>>

-----------------------------------------------------------------------------
Statuses == {"active", "past_due", "canceled"}

\* Metadata of a subscription names its organization; one that was made
\* outside a checkout may have none.
NoEvent == [type |-> "none", org |-> "none", content |-> NoSubscription]

BillingInit ==
  /\ subscription = [o \in Organizations |-> NoSubscription]
  /\ polar = [o \in Organizations |-> NoSubscription]
  /\ event = [e \in WebhookEvents |-> NoEvent]
  /\ sent = <<>> /\ ledger = <<>>
  /\ dbErrors = 0

Send(e, type, org, content) ==
  /\ event[e] = NoEvent
  /\ e = CHOOSE f \in WebhookEvents : event[f] = NoEvent
  /\ event' = [event EXCEPT ![e] = [type |-> type, org |-> org, content |-> content]]
  /\ sent' = Append(sent, e)

\* The limits of the plan travel as limit_<key> in the metadata of the
\* checkout, and come back with every event of its subscription.
CreateCheckout(org, plan, e) ==
  LET s == [status |-> "active", limits |-> Plans[plan]]
  IN  /\ Send(e, "subscription", org, s)
      /\ polar' = [polar EXCEPT ![org] = s]
      /\ UNCHANGED <<subscription, ledger, dbErrors>>

SubscriptionChanges(org, status, e) ==
  LET s == [polar[org] EXCEPT !.status = status]
  IN  /\ polar[org] # NoSubscription /\ polar[org].status # status
      /\ Send(e, "subscription", org, s)
      /\ polar' = [polar EXCEPT ![org] = s]
      /\ UNCHANGED <<subscription, ledger, dbErrors>>

\* An event of another type, or a subscription whose organization is unknown.
OtherEvent(type, e) ==
  /\ Send(e, type, "none", NoSubscription)
  /\ UNCHANGED <<subscription, polar, ledger, dbErrors>>

-----------------------------------------------------------------------------
(* ProcessPolarWebhook: one transaction *)

\* Mutant: the number of inserted rows is not looked at.
InsertedAlways(e) == TRUE
\* Mutant: the ledger keeps the event of a transaction that failed.
LedgerKeepsFailed(e) == Append(ledger, e)

Inserted(e) == ~Contains(ledger, e)
LedgerAfterError(e) == ledger

Recorded(e) == IF Contains(ledger, e) THEN ledger ELSE Append(ledger, e)

\* A repeated event, or one of another type, is acknowledged and changes nothing.
Acknowledge(e) ==
  /\ event[e] # NoEvent
  /\ ~Inserted(e) \/ event[e].type = "other"
  /\ ledger' = Recorded(e)
  /\ UNCHANGED <<subscription, polar, event, sent, dbErrors>>

UpsertSubscription(e) ==
  /\ event[e].type = "subscription" /\ Inserted(e)
  /\ ledger' = Recorded(e)
  /\ subscription' = [subscription EXCEPT ![event[e].org] = event[e].content]
  /\ UNCHANGED <<polar, event, sent, dbErrors>>

\* Without an organization the transaction is rolled back, and the provider is
\* answered with an error: it will deliver the event again.
RefuseEvent(e) ==
  /\ event[e].type = "foreign" /\ Inserted(e)
  /\ UNCHANGED billingVars

WebhookFails(e) ==
  /\ event[e].type = "subscription" /\ Inserted(e)
  /\ dbErrors < MaxDbErrors
  /\ dbErrors' = dbErrors + 1
  /\ ledger' = LedgerAfterError(e)
  /\ UNCHANGED <<subscription, polar, event, sent>>

BillingNext ==
  \E e \in WebhookEvents :
    \/ \E org \in Organizations :
         \/ \E plan \in DOMAIN Plans : CreateCheckout(org, plan, e)
         \/ \E status \in Statuses : SubscriptionChanges(org, status, e)
    \/ \E type \in {"other", "foreign"} : OtherEvent(type, e)
    \/ Acknowledge(e) \/ UpsertSubscription(e) \/ RefuseEvent(e) \/ WebhookFails(e)

-----------------------------------------------------------------------------
(* Properties *)

SubscriptionEvents == {e \in WebhookEvents : event[e].type = "subscription"}

\* The limits an organization has had: those of every event that was recorded.
PlansHad(org) ==
  {event[e].content.limits : e \in
     {e \in SubscriptionEvents : event[e].org = org /\ Contains(ledger, e)}}

Before(s, e, f) == \E i, j \in 1..Len(s) : i < j /\ s[i] = e /\ s[j] = f

\* Every event of a subscription was recorded, in the order they were sent.
RecordedInOrder ==
  /\ \A e \in SubscriptionEvents : Contains(ledger, e)
  /\ \A e, f \in SubscriptionEvents : Before(sent, e, f) => Before(ledger, e, f)

\* Then the organization has what the provider has, whatever was delivered
\* again in between and however often a delivery failed.
InOrderIsCaughtUp == RecordedInOrder => subscription = polar
=============================================================================
