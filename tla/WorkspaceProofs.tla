-------------------------- MODULE WorkspaceProofs ---------------------------
(***************************************************************************)
(* What belongs to a workspace: billing and members, the quota of          *)
(* scheduled posts, media, posting times and account sets, for any         *)
(* organizations, users, plans, files, posts and requests that overlap.    *)
(*                                                                         *)
(* OrganizationSpec runs billing, members and the quota at any time, and   *)
(* their invariants are proved together: a plan that was recorded is never *)
(* forgotten, and that is the room the other two need.  The other areas of *)
(* WorkspaceSpec leave each other's variables alone, so each invariant is  *)
(* proved of one component's steps and lifted.                             *)
(***************************************************************************)
EXTENDS MCWorkspace, FiniteSetTheorems, WellFoundedInduction, TLAPS

(* Account sets *)

SetRow == [exists : BOOLEAN, default : BOOLEAN]

SetsRequest == [pc       : {"idle", "create", "update", "add"},
               id       : SetIds \cup {"none"},
               default  : BOOLEAN,
               accounts : SUBSET SetAccounts]

SetsTypeOK ==
  /\ set \in [SetIds -> SetRow]
  /\ inSet \in [SetIds -> SUBSET SetAccounts]
  /\ connected \subseteq SetAccounts
  /\ setRequest \in [SetRequests -> SetsRequest]
  /\ \A r \in SetRequests : setRequest[r].pc \in {"update", "add"} => setRequest[r].id \in SetIds

\* OneDefaultSet without counting.
DefaultsAgree ==
  \A s, t \in SetIds \ carried : set[s].default /\ set[t].default => s = t

SetsInv == SetsTypeOK /\ DefaultsAgree /\ SetsHoldConnectedAccounts

-----------------------------------------------------------------------------
LEMMA InitSets == SetsInit => SetsInv
  BY DEF SetsInit, NoSet, NoSetRequest, SetsInv, SetsTypeOK, SetRow, SetsRequest,
     DefaultsAgree, SetsHoldConnectedAccounts

LEMMA IdleRequest == NoSetRequest \in SetsRequest /\ NoSetRequest.pc = "idle"
  BY DEF NoSetRequest, SetsRequest

LEMMA ClearedRows ==
  ASSUME NEW rows \in [SetIds -> SetRow]
  PROVE  /\ Cleared(rows) \in [SetIds -> SetRow]
         /\ \A s \in SetIds : /\ ~Cleared(rows)[s].default
                              /\ Cleared(rows)[s].exists = rows[s].exists
  BY DEF Cleared, SetRow

\* A request begins: rows and members stay as they are.
LEMMA BeginKeeps ==
  ASSUME SetsInv, NEW r \in SetRequests, NEW pc \in {"create", "update", "add"},
         NEW s \in SetIds \cup {"none"}, NEW default \in BOOLEAN,
         NEW accounts \in SUBSET SetAccounts,
         pc # "create" => s \in SetIds,
         Begin(r, pc, s, default, accounts)
  PROVE  SetsInv'
<1>1. [pc |-> pc, id |-> s, default |-> default, accounts |-> accounts] \in SetsRequest
  BY DEF SetsRequest
<1>2. SetsTypeOK'
  BY <1>1 DEF SetsInv, SetsTypeOK, Begin
<1> QED
  BY <1>2 DEF SetsInv, Begin, DefaultsAgree, SetsHoldConnectedAccounts

LEMMA FinishTypes ==
  ASSUME SetsTypeOK, NEW r \in SetRequests, Finish(r)
  PROVE  /\ setRequest' \in [SetRequests -> SetsRequest]
         /\ \A q \in SetRequests :
              setRequest'[q].pc \in {"update", "add"} => setRequest'[q].id \in SetIds
  BY IdleRequest DEF SetsTypeOK, Finish

LEMMA CreateKeeps ==
  ASSUME SetsInv, NEW r \in SetRequests, CreateSet(r)
  PROVE  SetsInv'
<1> DEFINE q == setRequest[r]
           rows == IF q.default THEN Cleared(set) ELSE set
<1>1. q \in SetsRequest
  BY DEF SetsInv, SetsTypeOK
<1>2. PICK s \in SetIds :
        /\ ~set[s].exists
        /\ set' = [rows EXCEPT ![s] = [exists |-> TRUE, default |-> q.default]]
        /\ inSet' = [inSet EXCEPT ![s] = q.accounts]
        /\ lateIn' = lateIn \cup Late(s, q.accounts)
        /\ carried' = IF q.default THEN {} ELSE carried
  <2> DEFINE s == CHOOSE x \in UnusedSets : TRUE
  <2>1. s \in UnusedSets
    BY DEF CreateSet
  <2> QED
    BY <2>1 DEF CreateSet, UnusedSets
<1>3. UNCHANGED connected /\ Finish(r)
  BY DEF CreateSet
<1>4. rows \in [SetIds -> SetRow]
  BY ClearedRows DEF SetsInv, SetsTypeOK
<1>5. SetsTypeOK'
  BY <1>1, <1>2, <1>3, <1>4, FinishTypes DEF SetsInv, SetsTypeOK, SetRow, SetsRequest
<1>6. DefaultsAgree'
  <2>1. CASE q.default
    BY <2>1, <1>2, <1>4, ClearedRows DEF SetsInv, SetsTypeOK, DefaultsAgree
  <2>2. CASE ~q.default
    <3>1. \A t \in SetIds : set'[t].default => set[t].default
      BY <2>2, <1>2 DEF SetsInv, SetsTypeOK
    <3> QED
      BY <2>2, <3>1, <1>2 DEF SetsInv, DefaultsAgree
  <2> QED
    BY <2>1, <2>2
<1>7. SetsHoldConnectedAccounts'
  BY <1>1, <1>2, <1>3 DEF SetsInv, SetsTypeOK, SetsHoldConnectedAccounts, Late, SetsRequest
<1> QED
  BY <1>5, <1>6, <1>7 DEF SetsInv

LEMMA UpdateKeeps ==
  ASSUME SetsInv, NEW r \in SetRequests, UpdateSet(r)
  PROVE  SetsInv'
<1>1. PICK s \in SetIds, default \in BOOLEAN : s = setRequest[r].id /\ default = setRequest[r].default
  BY DEF SetsInv, SetsTypeOK, UpdateSet, SetsRequest
<1>2. UNCHANGED <<inSet, connected, lateIn>> /\ Finish(r)
  BY DEF UpdateSet
<1>3. SetsHoldConnectedAccounts'
  BY <1>2 DEF SetsInv, SetsHoldConnectedAccounts
<1>4. set \in [SetIds -> SetRow]
  BY DEF SetsInv, SetsTypeOK
<1>5. CASE /\ set' = [Cleared(set) EXCEPT ![s].default = Cleared(set)[s].exists /\ TRUE]
           /\ carried' = {}
  <2>1. set' \in [SetIds -> SetRow] /\ \A t \in SetIds : set'[t].default => t = s
    BY <1>4, <1>5, ClearedRows DEF SetRow
  <2> QED
    BY <2>1, <1>2, <1>3, FinishTypes DEF SetsInv, SetsTypeOK, DefaultsAgree
<1>6. CASE /\ set' = [set EXCEPT ![s].default = set[s].exists /\ FALSE]
           /\ carried' = carried \ {s}
  <2>1. /\ set' \in [SetIds -> SetRow] /\ ~set'[s].default
        /\ \A t \in SetIds : set'[t].default => set[t].default
    BY <1>4, <1>6 DEF SetRow
  <2>2. \A t \in SetIds \ carried' : set'[t].default => t \notin carried
    BY <2>1, <1>6
  <2> QED
    BY <2>1, <2>2, <1>2, <1>3, FinishTypes DEF SetsInv, SetsTypeOK, DefaultsAgree
<1>7. CASE /\ set' = [set EXCEPT ![s].default = set[s].exists /\ default]
           /\ carried' = IF default /\ set[s].exists /\ ~set[s].default
                         THEN carried \cup {s} ELSE carried
  <2>1. /\ set' \in [SetIds -> SetRow]
        /\ \A t \in SetIds : t # s => set'[t] = set[t]
        /\ set'[s].default => default /\ set[s].exists
    BY <1>4, <1>7 DEF SetRow
  <2>2. \A t \in SetIds \ carried' : set'[t].default => set[t].default /\ t \notin carried
    BY <2>1, <1>7
  <2> QED
    BY <2>1, <2>2, <1>2, <1>3, FinishTypes DEF SetsInv, SetsTypeOK, DefaultsAgree
<1> QED
  BY <1>1, <1>5, <1>6, <1>7 DEF UpdateSet

LEMMA StepSets ==
  ASSUME SetsInv, [SetsNext]_setVars
  PROVE  SetsInv'
<1>1. ASSUME NEW r \in SetRequests, StartCreateSet(r) PROVE SetsInv'
  <2>1. PICK default \in BOOLEAN, accounts \in SUBSET connected :
          Begin(r, "create", "none", default, accounts)
    BY <1>1 DEF StartCreateSet
  <2>2. accounts \in SUBSET SetAccounts
    BY DEF SetsInv, SetsTypeOK
  <2> QED
    BY <2>1, <2>2, BeginKeeps
<1>2. ASSUME NEW r \in SetRequests, StartUpdateSet(r) PROVE SetsInv'
  <2>1. PICK s \in SetIds : Begin(r, "update", s, set[s].default, {})
    BY <1>2 DEF StartUpdateSet
  <2>2. set[s].default \in BOOLEAN /\ {} \in SUBSET SetAccounts
    BY DEF SetsInv, SetsTypeOK, SetRow
  <2> QED
    BY <2>1, <2>2, BeginKeeps
<1>3. ASSUME NEW r \in SetRequests, StartAddAccounts(r) PROVE SetsInv'
  <2>1. PICK s \in SetIds, accounts \in SUBSET connected : Begin(r, "add", s, FALSE, accounts)
    BY <1>3 DEF StartAddAccounts
  <2>2. accounts \in SUBSET SetAccounts
    BY DEF SetsInv, SetsTypeOK
  <2> QED
    BY <2>1, <2>2, BeginKeeps
<1>4. ASSUME NEW r \in SetRequests, AddSetAccounts(r) PROVE SetsInv'
  <2>1. PICK s \in SetIds : s = setRequest[r].id
    BY <1>4 DEF SetsInv, SetsTypeOK, AddSetAccounts
  <2>2. PICK accounts \in SUBSET SetAccounts : accounts = setRequest[r].accounts
    BY DEF SetsInv, SetsTypeOK, SetsRequest
  <2>3. /\ inSet' = [inSet EXCEPT ![s] = @ \cup accounts]
        /\ lateIn' = lateIn \cup Late(s, accounts \ inSet[s])
        /\ UNCHANGED <<set, connected, carried>> /\ Finish(r)
    BY <1>4, <2>1, <2>2 DEF AddSetAccounts
  <2>4. SetsTypeOK' /\ DefaultsAgree'
    BY <2>3, FinishTypes DEF SetsInv, SetsTypeOK, DefaultsAgree
  <2>5. SetsHoldConnectedAccounts'
    BY <2>3 DEF SetsInv, SetsTypeOK, SetsHoldConnectedAccounts, Late
  <2> QED
    BY <2>4, <2>5 DEF SetsInv
<1>5. ASSUME NEW s \in SetIds, DeleteSet(s) PROVE SetsInv'
  <2>1. SetsTypeOK'
    BY <1>5 DEF DeleteSet, NoSet, SetsInv, SetsTypeOK, SetRow
  <2>2. \A t \in SetIds \ carried' : set'[t].default => set[t].default /\ t \notin carried
    BY <1>5 DEF DeleteSet, NoSet, SetsInv, SetsTypeOK
  <2>3. SetsHoldConnectedAccounts'
    BY <1>5 DEF DeleteSet, SetsInv, SetsTypeOK, SetsHoldConnectedAccounts
  <2> QED
    BY <2>1, <2>2, <2>3 DEF SetsInv, DefaultsAgree
<1>6. ASSUME NEW s \in SetIds, NEW a \in SetAccounts, RemoveSetAccount(s, a) PROVE SetsInv'
  BY <1>6 DEF RemoveSetAccount, SetsInv, SetsTypeOK, DefaultsAgree, SetsHoldConnectedAccounts
<1>7. ASSUME NEW a \in SetAccounts, DisconnectAccount(a) PROVE SetsInv'
  <2>1. SetsTypeOK' /\ DefaultsAgree'
    BY <1>7 DEF DisconnectAccount, SetsInv, SetsTypeOK, DefaultsAgree
  <2>2. SetsHoldConnectedAccounts'
    BY <1>7 DEF DisconnectAccount, SetsInv, SetsTypeOK, SetsHoldConnectedAccounts
  <2> QED
    BY <2>1, <2>2 DEF SetsInv
<1>8. CASE UNCHANGED setVars
  BY <1>8 DEF setVars, SetsInv, SetsTypeOK, DefaultsAgree, SetsHoldConnectedAccounts
<1> QED
  BY <1>1, <1>2, <1>3, <1>4, <1>5, <1>6, <1>7, <1>8, CreateKeeps, UpdateKeeps DEF SetsNext

-----------------------------------------------------------------------------
\* A set any two of whose elements are equal has one at most.
LEMMA AtMostOne ==
  ASSUME NEW S, \A x, y \in S : x = y
  PROVE  Cardinality(S) <= 1
<1>1. CASE S = {}
  BY <1>1, FS_EmptySet
<1>2. ASSUME NEW x \in S PROVE Cardinality(S) <= 1
  <2>1. S = {x}
    OBVIOUS
  <2> QED
    BY <2>1, FS_Singleton
<1> QED
  BY <1>1, <1>2

LEMMA SafeSets == SetsInv => SetSafety
<1> SUFFICES ASSUME SetsInv PROVE OneDefaultSet
  BY DEF SetSafety, SetsInv
<1>1. \A s, t \in InDefault \ carried : s = t
  BY DEF SetsInv, DefaultsAgree, InDefault
<1> QED
  BY <1>1, AtMostOne DEF OneDefaultSet

\* However requests and disconnections overlap, a workspace has one default set
\* but for flags that were carried over, and its sets hold connected accounts
\* but for those that were disconnected while a request put them there.
THEOREM SetSafetyHolds == SetsSpec => []SetSafety
<1>1. SetsInv /\ [SetsNext]_setVars => SetsInv'
  BY StepSets
<1> QED
  BY InitSets, <1>1, SafeSets, PTL DEF SetsSpec

\* The same of the workspace as a whole.
THEOREM WorkspaceSetSafetyHolds == WorkspaceSpec => []SetSafety
<1>1. WorkspaceInit => SetsInv
  BY InitSets DEF WorkspaceInit
<1>2. SetsInv /\ [WorkspaceNext]_workspaceVars => SetsInv'
  <2> SUFFICES ASSUME SetsInv, [WorkspaceNext]_workspaceVars PROVE SetsInv'
    OBVIOUS
  <2>1. CASE Team
    BY <2>1, StepSets DEF Team
  <2>2. CASE Media
    BY <2>2, StepSets DEF Media
  <2>3. CASE Settings
    BY <2>3, StepSets DEF Settings
  <2>4. CASE UNCHANGED workspaceVars
    BY <2>4, StepSets DEF workspaceVars
  <2> QED
    BY <2>1, <2>2, <2>3, <2>4 DEF WorkspaceNext
<1> QED
  BY <1>1, <1>2, SafeSets, PTL DEF WorkspaceSpec

(* Billing *)

PlanLimits == {NoLimits} \cup {Plans[plan] : plan \in DOMAIN Plans}
SubscriptionRow == [status : Statuses \cup {"none"}, limits : PlanLimits]
EventRow == [type    : {"none", "subscription", "other", "foreign"},
             org     : Organizations \cup {"none"},
             content : SubscriptionRow]

BillingTypeOK ==
  /\ subscription \in [Organizations -> SubscriptionRow]
  /\ polar \in [Organizations -> SubscriptionRow]
  /\ event \in [WebhookEvents -> EventRow]
  /\ sent \in Seq(WebhookEvents) /\ ledger \in Seq(WebhookEvents)

\* Identifiers are used once, and only events that were sent are recorded.
EventsAreSent ==
  \A e \in WebhookEvents :
    /\ Contains(sent, e) <=> event[e] # NoEvent
    /\ Contains(ledger, e) => Contains(sent, e)

RecordedOnce == \A i, j \in 1..Len(ledger) : ledger[i] = ledger[j] => i = j

EventsOf(o) == {e \in SubscriptionEvents : event[e].org = o}

\* A table holds what the last event of each organization in s says.
LastOf(s, o, e) ==
  /\ e \in EventsOf(o) /\ Contains(s, e)
  /\ \A f \in EventsOf(o) : Contains(s, f) /\ f # e => Before(s, f, e)

Follows(table, s) ==
  \A o \in Organizations :
    \/ table[o] = NoSubscription /\ \A e \in EventsOf(o) : ~Contains(s, e)
    \/ \E e \in WebhookEvents : LastOf(s, o, e) /\ table[o] = event[e].content

BillingInv ==
  /\ BillingTypeOK /\ EventsAreSent /\ RecordedOnce
  /\ Follows(polar, sent) /\ Follows(subscription, ledger)

-----------------------------------------------------------------------------
LEMMA InitBilling == BillingInit => BillingInv
<1> SUFFICES ASSUME BillingInit PROVE BillingInv
  OBVIOUS
<1>1. NoSubscription \in SubscriptionRow
  BY DEF NoSubscription, SubscriptionRow, PlanLimits
<1>2. NoEvent \in EventRow /\ NoEvent.type = "none"
  BY <1>1 DEF NoEvent, EventRow
<1>3. BillingTypeOK
  BY <1>1, <1>2 DEF BillingInit, BillingTypeOK
<1>5. \A e : ~Contains(<<>>, e)
  BY DEF Contains
<1>6. EventsAreSent /\ RecordedOnce
  BY <1>2, <1>5, <1>3 DEF BillingInit, EventsAreSent, RecordedOnce
<1>7. Follows(polar, sent) /\ Follows(subscription, ledger)
  BY <1>5 DEF BillingInit, Follows
<1> QED
  BY <1>3, <1>6, <1>7 DEF BillingInv

LEMMA ContainsAppended ==
  ASSUME NEW S, NEW s \in Seq(S), NEW x \in S, NEW y
  PROVE  Contains(Append(s, x), y) <=> Contains(s, y) \/ y = x
<1>1. /\ Len(Append(s, x)) = Len(s) + 1 /\ Len(s) \in Nat
      /\ Append(s, x)[Len(s) + 1] = x
      /\ \A i \in 1..Len(s) : Append(s, x)[i] = s[i]
  OBVIOUS
<1>2. 1..Len(s) + 1 = 1..Len(s) \cup {Len(s) + 1}
  BY <1>1
<1> QED
  BY <1>1, <1>2 DEF Contains

LEMMA BeforeAppended ==
  ASSUME NEW S, NEW s \in Seq(S), NEW x \in S
  PROVE  /\ \A a, b : Before(s, a, b) => Before(Append(s, x), a, b)
         /\ \A a : Contains(s, a) => Before(Append(s, x), a, x)
<1>1. /\ Len(Append(s, x)) = Len(s) + 1 /\ Len(s) \in Nat
      /\ Append(s, x)[Len(s) + 1] = x
      /\ \A i \in 1..Len(s) : Append(s, x)[i] = s[i]
  OBVIOUS
<1>2. /\ \A i \in 1..Len(s) : i \in 1..Len(s) + 1 /\ i < Len(s) + 1
      /\ Len(s) + 1 \in 1..Len(s) + 1
  BY <1>1
<1>3. ASSUME NEW a, NEW b, Before(s, a, b) PROVE Before(Append(s, x), a, b)
  <2>1. PICK i, j \in 1..Len(s) : i < j /\ s[i] = a /\ s[j] = b
    BY <1>3 DEF Before
  <2> QED
    BY <2>1, <1>1, <1>2 DEF Before
<1>4. ASSUME NEW a, Contains(s, a) PROVE Before(Append(s, x), a, x)
  <2>1. PICK i \in 1..Len(s) : s[i] = a
    BY <1>4 DEF Contains
  <2> QED
    BY <2>1, <1>1, <1>2 DEF Before
<1> QED
  BY <1>3, <1>4

\* An event that no sequence has yet changes nothing for those in it.
LEMMA FollowsStill ==
  ASSUME BillingInv, NEW table, NEW s, Follows(table, s),
         NEW n \in WebhookEvents, ~Contains(s, n), n \notin SubscriptionEvents,
         \A f \in WebhookEvents : f # n => event'[f] = event[f]
  PROVE  \A o \in Organizations :
           \/ table[o] = NoSubscription /\ \A e \in EventsOf(o)' : ~Contains(s, e)
           \/ \E e \in WebhookEvents :
                /\ e \in EventsOf(o)' /\ Contains(s, e)
                /\ \A f \in EventsOf(o)' : Contains(s, f) /\ f # e => Before(s, f, e)
                /\ table[o] = event'[e].content
<1> TAKE o \in Organizations
<1>1. \A f \in WebhookEvents : f # n => (f \in EventsOf(o)' <=> f \in EventsOf(o))
  BY DEF EventsOf, SubscriptionEvents
<1>2. EventsOf(o)' \subseteq WebhookEvents /\ EventsOf(o) \subseteq WebhookEvents
  BY DEF EventsOf, SubscriptionEvents
<1>3. CASE table[o] = NoSubscription /\ \A e \in EventsOf(o) : ~Contains(s, e)
  BY <1>1, <1>2, <1>3
<1>4. ASSUME NEW e \in WebhookEvents, LastOf(s, o, e), table[o] = event[e].content
      PROVE  /\ e \in EventsOf(o)' /\ Contains(s, e)
             /\ \A f \in EventsOf(o)' : Contains(s, f) /\ f # e => Before(s, f, e)
             /\ table[o] = event'[e].content
  BY <1>1, <1>2, <1>4 DEF LastOf
<1> QED
  BY <1>3, <1>4 DEF Follows

LEMMA SendKeeps ==
  ASSUME BillingInv, NEW n \in WebhookEvents, NEW type \in {"subscription", "other", "foreign"},
         NEW org \in Organizations \cup {"none"}, NEW content \in SubscriptionRow,
         Send(n, type, org, content), UNCHANGED <<subscription, ledger>>,
         \/ type # "subscription" /\ UNCHANGED polar
         \/ /\ type = "subscription" /\ org \in Organizations
            /\ polar' = [polar EXCEPT ![org] = content]
  PROVE  BillingInv'
<1>1. /\ event[n] = NoEvent /\ sent' = Append(sent, n)
      /\ event' = [event EXCEPT ![n] = [type |-> type, org |-> org, content |-> content]]
  BY DEF Send
<1>2. /\ sent \in Seq(WebhookEvents) /\ ledger \in Seq(WebhookEvents)
      /\ event \in [WebhookEvents -> EventRow]
  BY DEF BillingInv, BillingTypeOK
<1>3. /\ event'[n].type = type /\ event'[n].org = org /\ event'[n].content = content
      /\ \A f \in WebhookEvents : f # n => event'[f] = event[f]
      /\ event' \in [WebhookEvents -> EventRow]
  BY <1>1, <1>2 DEF EventRow
<1>4. ~Contains(sent, n) /\ ~Contains(ledger, n)
  BY <1>1 DEF BillingInv, EventsAreSent
<1>5. n \notin SubscriptionEvents
  BY <1>1 DEF NoEvent, SubscriptionEvents
<1>6. polar' \in [Organizations -> SubscriptionRow] /\ sent' \in Seq(WebhookEvents)
  BY <1>1, <1>2 DEF BillingInv, BillingTypeOK
<1>7. BillingTypeOK'
  BY <1>3, <1>6 DEF BillingInv, BillingTypeOK
<1>8. \A y : Contains(sent', y) <=> Contains(sent, y) \/ y = n
  BY <1>1, <1>2, ContainsAppended
<1>9. event'[n] # NoEvent
  BY <1>3 DEF NoEvent
<1>10. EventsAreSent'
  <2> SUFFICES ASSUME NEW e \in WebhookEvents
               PROVE  /\ Contains(sent', e) <=> event'[e] # NoEvent
                      /\ Contains(ledger, e) => Contains(sent', e)
    BY DEF EventsAreSent
  <2> QED
    BY <1>3, <1>8, <1>9 DEF BillingInv, EventsAreSent
<1>11. RecordedOnce'
  BY DEF BillingInv, RecordedOnce
<1>12. Follows(subscription, ledger)'
  <2>1. Follows(subscription, ledger)
    BY DEF BillingInv
  <2>2. \A o \in Organizations :
          \/ subscription[o] = NoSubscription /\ \A e \in EventsOf(o)' : ~Contains(ledger, e)
          \/ \E e \in WebhookEvents :
               /\ e \in EventsOf(o)' /\ Contains(ledger, e)
               /\ \A f \in EventsOf(o)' : Contains(ledger, f) /\ f # e => Before(ledger, f, e)
               /\ subscription[o] = event'[e].content
    BY <2>1, <1>3, <1>4, <1>5, FollowsStill
  <2> QED
    BY <2>2 DEF Follows, LastOf
<1>13. \A o \in Organizations : \A f \in WebhookEvents :
         f # n => (f \in EventsOf(o)' <=> f \in EventsOf(o))
  BY <1>3 DEF EventsOf, SubscriptionEvents
<1>14. \A o \in Organizations : EventsOf(o)' \subseteq WebhookEvents
  BY DEF EventsOf, SubscriptionEvents
<1>15. /\ \A a, b : Before(sent, a, b) => Before(sent', a, b)
       /\ \A a : Contains(sent, a) => Before(sent', a, n)
  BY <1>1, <1>2, BeforeAppended
<1>16. Follows(polar, sent)'
  <2> SUFFICES ASSUME NEW o \in Organizations
               PROVE  \/ /\ polar'[o] = NoSubscription
                         /\ \A e \in EventsOf(o)' : ~Contains(sent', e)
                      \/ \E e \in WebhookEvents :
                           /\ e \in EventsOf(o)' /\ Contains(sent', e)
                           /\ \A f \in EventsOf(o)' :
                                Contains(sent', f) /\ f # e => Before(sent', f, e)
                           /\ polar'[o] = event'[e].content
    BY DEF Follows, LastOf
  <2>1. CASE type = "subscription" /\ o = org
    <3>1. n \in EventsOf(o)' /\ Contains(sent', n) /\ polar'[o] = event'[n].content
      BY <2>1, <1>3, <1>8 DEF EventsOf, SubscriptionEvents, BillingInv, BillingTypeOK
    <3>2. \A f \in EventsOf(o)' : Contains(sent', f) /\ f # n => Before(sent', f, n)
      BY <1>8, <1>15
    <3> QED
      BY <3>1, <3>2
  <2>2. CASE ~(type = "subscription" /\ o = org)
    <3>1. polar'[o] = polar[o] /\ n \notin EventsOf(o)'
      BY <2>2, <1>3 DEF EventsOf, SubscriptionEvents, BillingInv, BillingTypeOK
    <3>2. CASE polar[o] = NoSubscription /\ \A e \in EventsOf(o) : ~Contains(sent, e)
      BY <3>1, <3>2, <1>8, <1>13, <1>14
    <3>3. ASSUME NEW e \in WebhookEvents, LastOf(sent, o, e), polar[o] = event[e].content
          PROVE  /\ e \in EventsOf(o)' /\ Contains(sent', e)
                 /\ \A f \in EventsOf(o)' : Contains(sent', f) /\ f # e => Before(sent', f, e)
                 /\ polar'[o] = event'[e].content
      <4>1. e # n
        BY <3>3, <1>4 DEF LastOf
      <4> QED
        BY <3>1, <3>3, <4>1, <1>3, <1>8, <1>13, <1>14, <1>15 DEF LastOf
    <3> QED
      BY <3>2, <3>3 DEF BillingInv, Follows
  <2> QED
    BY <2>1, <2>2
<1> QED
  BY <1>7, <1>10, <1>11, <1>12, <1>16 DEF BillingInv

\* A row of the ledger is added, and the subscription follows it.
LEMMA RecordKeeps ==
  ASSUME BillingInv, NEW n \in WebhookEvents, Contains(sent, n), ~Contains(ledger, n),
         ledger' = Append(ledger, n), UNCHANGED <<polar, event, sent>>,
         subscription' = IF event[n].type = "subscription"
                         THEN [subscription EXCEPT ![event[n].org] = event[n].content]
                         ELSE subscription
  PROVE  BillingInv'
<1>1. /\ ledger \in Seq(WebhookEvents) /\ event[n] \in EventRow
      /\ subscription \in [Organizations -> SubscriptionRow]
  BY DEF BillingInv, BillingTypeOK
<1>2. BillingTypeOK'
  <2>1. event[n].content \in SubscriptionRow
    BY <1>1 DEF EventRow
  <2>2. subscription' \in [Organizations -> SubscriptionRow]
    BY <1>1, <2>1
  <2>3. ledger' \in Seq(WebhookEvents)
    BY <1>1
  <2> QED
    BY <2>2, <2>3 DEF BillingInv, BillingTypeOK
<1>3. \A y : Contains(ledger', y) <=> Contains(ledger, y) \/ y = n
  BY <1>1, ContainsAppended
<1>4. /\ \A a, b : Before(ledger, a, b) => Before(ledger', a, b)
      /\ \A a : Contains(ledger, a) => Before(ledger', a, n)
  BY <1>1, BeforeAppended
<1>5. EventsAreSent'
  BY <1>3 DEF BillingInv, EventsAreSent
<1>6. RecordedOnce'
  <2>1. /\ Len(ledger') = Len(ledger) + 1 /\ Len(ledger) \in Nat
        /\ ledger'[Len(ledger) + 1] = n
        /\ \A i \in 1..Len(ledger) : ledger'[i] = ledger[i] /\ ledger[i] # n
    BY <1>1 DEF Contains
  <2> QED
    BY <2>1 DEF BillingInv, RecordedOnce
<1>7. \A o \in Organizations : EventsOf(o)' = EventsOf(o)
  BY DEF EventsOf, SubscriptionEvents
<1>8. Follows(polar, sent)'
  BY <1>7 DEF BillingInv, Follows, LastOf
<1>9. Follows(subscription, ledger)'
  <2> SUFFICES ASSUME NEW o \in Organizations
               PROVE  \/ /\ subscription'[o] = NoSubscription
                         /\ \A e \in EventsOf(o) : ~Contains(ledger', e)
                      \/ \E e \in WebhookEvents :
                           /\ e \in EventsOf(o) /\ Contains(ledger', e)
                           /\ \A f \in EventsOf(o) :
                                Contains(ledger', f) /\ f # e => Before(ledger', f, e)
                           /\ subscription'[o] = event[e].content
    BY <1>7 DEF Follows, LastOf
  <2>1. CASE n \in EventsOf(o)
    <3>1. Contains(ledger', n) /\ subscription'[o] = event[n].content
      BY <2>1, <1>1, <1>3 DEF EventsOf, SubscriptionEvents
    <3>2. \A f \in EventsOf(o) : Contains(ledger', f) /\ f # n => Before(ledger', f, n)
      BY <1>3, <1>4
    <3> QED
      BY <2>1, <3>1, <3>2
  <2>2. CASE n \notin EventsOf(o)
    <3>1. subscription'[o] = subscription[o]
      BY <2>2, <1>1 DEF EventsOf, SubscriptionEvents
    <3>2. CASE subscription[o] = NoSubscription /\ \A e \in EventsOf(o) : ~Contains(ledger, e)
      BY <2>2, <3>1, <3>2, <1>3
    <3>3. ASSUME NEW e \in WebhookEvents, LastOf(ledger, o, e), subscription[o] = event[e].content
          PROVE  /\ e \in EventsOf(o) /\ Contains(ledger', e)
                 /\ \A f \in EventsOf(o) : Contains(ledger', f) /\ f # e => Before(ledger', f, e)
                 /\ subscription'[o] = event[e].content
      BY <2>2, <3>1, <3>3, <1>3, <1>4 DEF LastOf
    <3> QED
      BY <3>2, <3>3 DEF BillingInv, Follows
  <2> QED
    BY <2>1, <2>2
<1> QED
  BY <1>2, <1>5, <1>6, <1>8, <1>9 DEF BillingInv

LEMMA BillingUnchanged ==
  ASSUME BillingInv, UNCHANGED <<subscription, polar, event, sent, ledger>>
  PROVE  BillingInv'
  BY DEF BillingInv, BillingTypeOK, EventsAreSent, RecordedOnce, Follows, LastOf, EventsOf,
     SubscriptionEvents

LEMMA StepBilling ==
  ASSUME BillingInv, BillingNext
  PROVE  BillingInv'
<1>1. PICK e \in WebhookEvents :
        \/ \E org \in Organizations :
             \/ \E plan \in DOMAIN Plans : CreateCheckout(org, plan, e)
             \/ \E status \in Statuses : SubscriptionChanges(org, status, e)
        \/ \E type \in {"other", "foreign"} : OtherEvent(type, e)
        \/ Acknowledge(e) \/ UpsertSubscription(e) \/ RefuseEvent(e) \/ WebhookFails(e)
  BY DEF BillingNext
<1>2. ASSUME NEW org \in Organizations, NEW plan \in DOMAIN Plans, CreateCheckout(org, plan, e)
      PROVE  BillingInv'
  <2>1. [status |-> "active", limits |-> Plans[plan]] \in SubscriptionRow
    BY DEF SubscriptionRow, Statuses, PlanLimits
  <2> QED
    BY <1>2, <2>1, SendKeeps DEF CreateCheckout
<1>3. ASSUME NEW org \in Organizations, NEW status \in Statuses, SubscriptionChanges(org, status, e)
      PROVE  BillingInv'
  <2>1. [polar[org] EXCEPT !.status = status] \in SubscriptionRow
    BY DEF BillingInv, BillingTypeOK, SubscriptionRow
  <2> QED
    BY <1>3, <2>1, SendKeeps DEF SubscriptionChanges
<1>4. ASSUME NEW type \in {"other", "foreign"}, OtherEvent(type, e)
      PROVE  BillingInv'
  <2>1. NoSubscription \in SubscriptionRow
    BY DEF NoSubscription, SubscriptionRow, PlanLimits
  <2> QED
    BY <1>4, <2>1, SendKeeps DEF OtherEvent
<1>5. CASE Acknowledge(e)
  <2>1. CASE Contains(ledger, e)
    BY <1>5, <2>1, BillingUnchanged DEF Acknowledge, Recorded
  <2>2. CASE ~Contains(ledger, e)
    <3>1. event[e].type = "other"
      BY <1>5, <2>2 DEF Acknowledge, Inserted
    <3>2. Contains(sent, e)
      BY <1>5 DEF Acknowledge, BillingInv, EventsAreSent
    <3> QED
      BY <1>5, <2>2, <3>1, <3>2, RecordKeeps DEF Acknowledge, Recorded
  <2> QED
    BY <2>1, <2>2
<1>6. CASE UpsertSubscription(e)
  <2>1. Contains(sent, e)
    BY <1>6 DEF UpsertSubscription, NoEvent, BillingInv, EventsAreSent
  <2> QED
    BY <1>6, <2>1, RecordKeeps DEF UpsertSubscription, Inserted, Recorded
<1>7. CASE RefuseEvent(e)
  BY <1>7, BillingUnchanged DEF RefuseEvent, billingVars
<1>8. CASE WebhookFails(e)
  BY <1>8, BillingUnchanged DEF WebhookFails, LedgerAfterError
<1> QED
  BY <1>1, <1>2, <1>3, <1>4, <1>5, <1>6, <1>7, <1>8

LEMMA CaughtUp == BillingInv => InOrderIsCaughtUp
<1> SUFFICES ASSUME BillingInv, RecordedInOrder, NEW o \in Organizations
             PROVE  subscription[o] = polar[o]
  BY DEF InOrderIsCaughtUp, BillingInv, BillingTypeOK
<1>1. EventsOf(o) \subseteq SubscriptionEvents /\ SubscriptionEvents \subseteq WebhookEvents
  BY DEF EventsOf, SubscriptionEvents
<1>2. \A e \in EventsOf(o) : Contains(ledger, e) /\ Contains(sent, e)
  BY <1>1 DEF RecordedInOrder, BillingInv, EventsAreSent
<1>3. CASE EventsOf(o) = {}
  BY <1>3 DEF BillingInv, Follows, LastOf
<1>4. CASE EventsOf(o) # {}
  <2>1. PICK e \in EventsOf(o) : LastOf(sent, o, e) /\ polar[o] = event[e].content
    BY <1>2, <1>4 DEF BillingInv, Follows, LastOf
  <2>2. PICK f \in EventsOf(o) : LastOf(ledger, o, f) /\ subscription[o] = event[f].content
    BY <1>2, <1>4 DEF BillingInv, Follows, LastOf
  <2>3. ASSUME f # e PROVE FALSE
    <3>1. Before(ledger, e, f)
      BY <1>2, <2>2, <2>3 DEF LastOf
    <3>2. Before(sent, f, e)
      BY <1>2, <2>1, <2>3 DEF LastOf
    <3>3. Before(ledger, f, e)
      BY <1>1, <3>2 DEF RecordedInOrder
    <3>4. PICK i, j \in 1..Len(ledger) : i < j /\ ledger[i] = e /\ ledger[j] = f
      BY <3>1 DEF Before
    <3>5. PICK k, l \in 1..Len(ledger) : k < l /\ ledger[k] = f /\ ledger[l] = e
      BY <3>3 DEF Before
    <3>6. k = j /\ l = i
      BY <3>4, <3>5 DEF BillingInv, RecordedOnce
    <3>7. ledger \in Seq(WebhookEvents)
      BY DEF BillingInv, BillingTypeOK
    <3> QED
      BY <3>4, <3>5, <3>6, <3>7
  <2> QED
    BY <2>1, <2>2, <2>3
<1> QED
  BY <1>3, <1>4

\* A subscription that allows anything has one of the plans that were recorded.
LEMMA SubscribersHavePlans ==
  ASSUME BillingInv, NEW o \in Organizations, SubscriptionStatusAllowsUsage(subscription[o])
  PROVE  subscription[o].limits \in PlansHad(o)
<1>1. subscription[o] # NoSubscription
  BY DEF SubscriptionStatusAllowsUsage, NoSubscription
<1>2. PICK e \in WebhookEvents : LastOf(ledger, o, e) /\ subscription[o] = event[e].content
  BY <1>1 DEF BillingInv, Follows
<1> QED
  BY <1>2 DEF LastOf, EventsOf, PlansHad

\* The plans an organization has had are never forgotten.
LEMMA PlansGrow ==
  ASSUME BillingInv, BillingNext, NEW o \in Organizations
  PROVE  PlansHad(o) \subseteq PlansHad(o)'
<1>1. ledger \in Seq(WebhookEvents) /\ event \in [WebhookEvents -> EventRow]
  BY DEF BillingInv, BillingTypeOK
<1>2. ASSUME NEW e \in SubscriptionEvents, Contains(ledger, e)
      PROVE  event'[e] = event[e] /\ Contains(ledger', e)
  <2>1. e \in WebhookEvents /\ event[e] # NoEvent
    BY <1>2 DEF SubscriptionEvents, NoEvent
  <2>2. ASSUME NEW f \in WebhookEvents, NEW type, NEW org, NEW content, Send(f, type, org, content)
        PROVE  event'[e] = event[e]
    BY <1>1, <2>1, <2>2 DEF Send
  <2>3. ASSUME NEW f \in WebhookEvents, ledger' = Recorded(f) PROVE Contains(ledger', e)
    BY <1>1, <1>2, <2>3, ContainsAppended DEF Recorded
  <2>4. PICK f \in WebhookEvents :
          \/ \E org \in Organizations :
               \/ \E plan \in DOMAIN Plans : CreateCheckout(org, plan, f)
               \/ \E status \in Statuses : SubscriptionChanges(org, status, f)
          \/ \E type \in {"other", "foreign"} : OtherEvent(type, f)
          \/ Acknowledge(f) \/ UpsertSubscription(f) \/ RefuseEvent(f) \/ WebhookFails(f)
    BY DEF BillingNext
  <2>5. CASE \/ \E org \in Organizations :
                  \/ \E plan \in DOMAIN Plans : CreateCheckout(org, plan, f)
                  \/ \E status \in Statuses : SubscriptionChanges(org, status, f)
             \/ \E type \in {"other", "foreign"} : OtherEvent(type, f)
    BY <1>2, <2>2, <2>5 DEF CreateCheckout, SubscriptionChanges, OtherEvent
  <2>6. CASE Acknowledge(f) \/ UpsertSubscription(f)
    BY <2>3, <2>6 DEF Acknowledge, UpsertSubscription
  <2>7. CASE RefuseEvent(f) \/ WebhookFails(f)
    BY <1>2, <2>7 DEF RefuseEvent, WebhookFails, billingVars, LedgerAfterError
  <2> QED
    BY <2>4, <2>5, <2>6, <2>7
<1> QED
  BY <1>2 DEF PlansHad, SubscriptionEvents

(* Members, invitations and the limit on workspaces *)

Pcs == {"idle", "create", "member", "pending", "countMembers", "countPending",
        "insert", "accept"}
Answering == {"member", "pending", "countMembers", "countPending", "insert"}
InvitedRoles == {"admin", "editor"}

TeamRow == [org : Organizations \cup {"none"}, by : Users \cup {"none"}]
InvitationRow == [status  : {"none", "pending", "revoked", "accepted"},
                  ws      : WorkspaceIds \cup {"none"},
                  email   : Users \cup {"none"},
                  role    : InvitedRoles \cup {"none"},
                  expired : BOOLEAN]
RequestRow == [pc    : Pcs,
               ws    : WorkspaceIds \cup {"none"},
               user  : Users \cup {"none"},
               org   : Organizations \cup {"none"},
               role  : InvitedRoles \cup {"none"},
               i     : InvitationIds \cup {"none"},
               count : {Cardinality(S) : S \in SUBSET Users}]

TeamTypeOK ==
  /\ workspace \in [WorkspaceIds -> TeamRow]
  /\ orgMember \in [Organizations -> SUBSET Users]
  /\ member \in [WorkspaceIds -> [Users -> InvitedRoles \cup {"none"}]]
  /\ invitation \in [InvitationIds -> InvitationRow]
  /\ request \in [TeamRequests -> RequestRow]

\* An id that no workspace has yet has no members.
NoneBefore ==
  \A w \in WorkspaceIds : workspace[w] = NoWorkspace => \A u \in Users : member[w][u] = "none"

\* An invitation is to a workspace that is there, for an address and a role.
InvitationsAreWhole ==
  \A i \in InvitationIds : invitation[i].status # "none" =>
    /\ invitation[i].ws \in WorkspaceIds /\ workspace[invitation[i].ws] # NoWorkspace
    /\ invitation[i].email \in Users /\ invitation[i].role \in InvitedRoles

\* What a request read is still so: rows are not deleted, and what an
\* invitation says of workspace, address and role is never changed.
RequestsKnow ==
  \A q \in TeamRequests :
    /\ request[q].pc \in Answering =>
         /\ request[q].ws \in WorkspaceIds /\ workspace[request[q].ws] # NoWorkspace
         /\ request[q].user \in Users /\ request[q].role \in InvitedRoles
    /\ request[q].pc = "accept" =>
         /\ request[q].i \in InvitationIds /\ invitation[request[q].i].status # "none"
         /\ request[q].ws = invitation[request[q].i].ws
         /\ request[q].user = invitation[request[q].i].email
         /\ request[q].role = invitation[request[q].i].role
    /\ request[q].pc = "create" =>
         /\ request[q].user \in Users
         /\ request[q].org # "none" => request[q].org \in Founded

\* A workspace belongs to an organization that was founded.
OwnersAreFounded ==
  \A w \in WorkspaceIds : workspace[w] # NoWorkspace =>
    workspace[w].org \in Founded

Creating(o) == {q \in TeamRequests : request[q].pc = "create" /\ request[q].org = o}

\* n workspaces, or requests that may make one, are near what a plan allowed.
HasRoom(o, n) ==
  \E limits \in PlansHad(o) : "workspaces" \in DOMAIN limits =>
    n <= limits["workspaces"] + Cardinality(TeamRequests) - 1

\* WorkspacesNearLimit with the requests that were allowed one more.
RoomIsKept ==
  \A o \in Organizations :
    /\ IsFiniteSet(WorkspacesOf(o))
    /\ \/ Creating(o) = {} /\ Cardinality(WorkspacesOf(o)) <= 1
       \/ HasRoom(o, Cardinality(WorkspacesOf(o)) + Cardinality(Creating(o)))

TeamInv ==
  /\ TeamTypeOK /\ NoneBefore /\ InvitationsAreWhole /\ RequestsKnow
  /\ OwnersAreFounded /\ RoomIsKept /\ MembersWereInvited

-----------------------------------------------------------------------------
LEMMA CreatingIsFinite ==
  ASSUME NEW o
  PROVE  /\ IsFiniteSet(Creating(o)) /\ Cardinality(Creating(o)) \in Nat
         /\ Cardinality(TeamRequests) \in Nat /\ Cardinality(TeamRequests) >= 1
         /\ Cardinality(Creating(o)) <= Cardinality(TeamRequests)
<1>1. Creating(o) \in SUBSET TeamRequests /\ IsFiniteSet(TeamRequests) /\ TeamRequests # {}
  BY TeamAssumption DEF Creating
<1>2. IsFiniteSet(Creating(o)) /\ Cardinality(Creating(o)) <= Cardinality(TeamRequests)
  BY <1>1, FS_Subset
<1>3. Cardinality(Creating(o)) \in Nat /\ Cardinality(TeamRequests) \in Nat
  BY <1>1, <1>2, FS_CardinalityType
<1>4. Cardinality(TeamRequests) # 0
  BY <1>1, FS_EmptySet
<1> QED
  BY <1>1, <1>2, <1>3, <1>4

LEMMA LimitsAreNat ==
  ASSUME BillingInv, NEW o \in Organizations, NEW limits \in PlansHad(o), NEW key \in DOMAIN limits
  PROVE  limits[key] \in Nat
<1>1. PICK e \in WebhookEvents : limits = event[e].content.limits
  BY DEF PlansHad, SubscriptionEvents
<1>2. limits \in PlanLimits
  BY <1>1 DEF BillingInv, BillingTypeOK, EventRow, SubscriptionRow
<1>3. limits # NoLimits
  BY DEF NoLimits
<1> QED
  BY <1>2, <1>3, PlansAssumption DEF PlanLimits

LEMMA LessRoom ==
  ASSUME BillingInv, NEW o \in Organizations, NEW n \in Nat, NEW k \in Nat, k <= n, HasRoom(o, n)
  PROVE  HasRoom(o, k)
<1>1. PICK limits \in PlansHad(o) :
        "workspaces" \in DOMAIN limits => n <= limits["workspaces"] + Cardinality(TeamRequests) - 1
  BY DEF HasRoom
<1>2. "workspaces" \in DOMAIN limits => limits["workspaces"] \in Nat
  BY LimitsAreNat
<1>3. Cardinality(TeamRequests) \in Nat
  BY TeamAssumption, FS_CardinalityType
<1>4. "workspaces" \in DOMAIN limits => k <= limits["workspaces"] + Cardinality(TeamRequests) - 1
  BY <1>1, <1>2, <1>3
<1> QED
  BY <1>4 DEF HasRoom

LEMMA RoomMeansNear == BillingInv /\ RoomIsKept => WorkspacesNearLimit
<1> SUFFICES ASSUME BillingInv, RoomIsKept, NEW o \in Organizations,
                    ~(Cardinality(WorkspacesOf(o)) <= 1)
             PROVE  HasRoom(o, Cardinality(WorkspacesOf(o)))
  BY DEF WorkspacesNearLimit, HasRoom
<1>1. /\ Cardinality(WorkspacesOf(o)) \in Nat /\ Cardinality(Creating(o)) \in Nat
      /\ HasRoom(o, Cardinality(WorkspacesOf(o)) + Cardinality(Creating(o)))
  BY CreatingIsFinite, FS_CardinalityType DEF RoomIsKept
<1> QED
  BY <1>1, LessRoom

LEMMA IdleTeamRequest == NoRequest \in RequestRow /\ NoRequest.pc = "idle"
<1>1. 0 \in {Cardinality(S) : S \in SUBSET Users}
  BY FS_EmptySet
<1> QED
  BY <1>1 DEF NoRequest, RequestRow, Pcs

LEMMA FewerCreating ==
  ASSUME BillingInv, TeamInv, UNCHANGED <<event, ledger, workspace>>,
         \A p \in TeamRequests : request'[p].pc = "create" => request'[p] = request[p]
  PROVE  RoomIsKept'
<1> SUFFICES ASSUME NEW o \in Organizations
             PROVE  \/ Creating(o)' = {} /\ Cardinality(WorkspacesOf(o)) <= 1
                    \/ HasRoom(o, Cardinality(WorkspacesOf(o)) + Cardinality(Creating(o)'))
  BY DEF TeamInv, RoomIsKept, WorkspacesOf, HasRoom, PlansHad, SubscriptionEvents
<1>1. Creating(o)' \in SUBSET Creating(o)
  BY DEF Creating
<1>2. /\ Cardinality(Creating(o)') \in Nat /\ Cardinality(Creating(o)) \in Nat
      /\ Cardinality(Creating(o)') <= Cardinality(Creating(o))
  BY <1>1, CreatingIsFinite, FS_Subset, FS_CardinalityType
<1>3. /\ Cardinality(WorkspacesOf(o)) \in Nat
      /\ \/ Creating(o) = {} /\ Cardinality(WorkspacesOf(o)) <= 1
         \/ HasRoom(o, Cardinality(WorkspacesOf(o)) + Cardinality(Creating(o)))
  BY FS_CardinalityType DEF TeamInv, RoomIsKept
<1>4. /\ Cardinality(WorkspacesOf(o)) + Cardinality(Creating(o)') \in Nat
      /\ Cardinality(WorkspacesOf(o)) + Cardinality(Creating(o)) \in Nat
      /\ Cardinality(WorkspacesOf(o)) + Cardinality(Creating(o)')
           <= Cardinality(WorkspacesOf(o)) + Cardinality(Creating(o))
  BY <1>2, <1>3
<1> QED
  BY <1>1, <1>3, <1>4, LessRoom

\* The rows stay as they are, and a request goes on to something it may do.
LEMMA OnlyRequest ==
  ASSUME BillingInv, TeamInv, NEW q \in TeamRequests, NEW r \in RequestRow, SetRequest(q, r),
         UNCHANGED <<event, ledger, workspace, orgMember, member, invitation>>,
         r.pc # "create",
         r.pc \in Answering =>
           /\ r.ws \in WorkspaceIds /\ workspace[r.ws] # NoWorkspace
           /\ r.user \in Users /\ r.role \in InvitedRoles,
         r.pc = "accept" =>
           /\ r.i \in InvitationIds /\ invitation[r.i].status # "none"
           /\ r.ws = invitation[r.i].ws /\ r.user = invitation[r.i].email
           /\ r.role = invitation[r.i].role
  PROVE  TeamInv'
<1>1. /\ request' \in [TeamRequests -> RequestRow] /\ request'[q] = r
      /\ \A p \in TeamRequests : p # q => request'[p] = request[p]
  BY DEF TeamInv, TeamTypeOK, SetRequest
<1>2. TeamTypeOK'
  BY <1>1 DEF TeamInv, TeamTypeOK
<1>3. RequestsKnow'
  BY <1>1 DEF TeamInv, RequestsKnow, Founded
<1>4. RoomIsKept'
  BY <1>1, FewerCreating
<1>5. NoneBefore' /\ InvitationsAreWhole' /\ OwnersAreFounded' /\ MembersWereInvited'
  BY DEF TeamInv, NoneBefore, InvitationsAreWhole, OwnersAreFounded, Founded,
     MembersWereInvited, Members
<1> QED
  BY <1>2, <1>3, <1>4, <1>5 DEF TeamInv

LEMMA StartCreateKeeps ==
  ASSUME BillingInv, TeamInv, NEW q \in TeamRequests, StartCreate(q), UNCHANGED billingVars
  PROVE  TeamInv'
<1>1. PICK u \in Users, org \in Founded \cup {"none"} :
        /\ MayCreate(u, org)
        /\ SetRequest(q, [NoRequest EXCEPT !.pc = "create", !.user = u, !.org = org])
  BY DEF StartCreate
<1>2. UNCHANGED <<event, ledger, workspace, orgMember, member, invitation>> /\ request[q].pc = "idle"
  BY DEF StartCreate, InStep, billingVars
<1> DEFINE r == [NoRequest EXCEPT !.pc = "create", !.user = u, !.org = org]
<1>3. r \in RequestRow /\ r.pc = "create" /\ r.user = u /\ r.org = org
  <2>1. org \in Organizations \cup {"none"}
    BY DEF Founded
  <2> QED
    BY <2>1, IdleTeamRequest DEF RequestRow, Pcs
<1> HIDE DEF r
<1>4. /\ request' \in [TeamRequests -> RequestRow] /\ request'[q] = r
      /\ \A p \in TeamRequests : p # q => request'[p] = request[p]
  BY <1>1, <1>3 DEF TeamInv, TeamTypeOK, SetRequest, r
<1>5. TeamTypeOK'
  BY <1>2, <1>4 DEF TeamInv, TeamTypeOK
<1>6. RequestsKnow'
  <2>1. Founded' = Founded
    BY <1>2 DEF Founded
  <2> QED
    BY <1>1, <1>2, <1>3, <1>4, <2>1 DEF TeamInv, RequestsKnow, Answering
<1>7. ASSUME NEW o \in Organizations
      PROVE  \/ Creating(o)' = {} /\ Cardinality(WorkspacesOf(o)) <= 1
             \/ HasRoom(o, Cardinality(WorkspacesOf(o)) + Cardinality(Creating(o)'))
  <2>1. /\ Cardinality(WorkspacesOf(o)) \in Nat
        /\ \/ Creating(o) = {} /\ Cardinality(WorkspacesOf(o)) <= 1
           \/ HasRoom(o, Cardinality(WorkspacesOf(o)) + Cardinality(Creating(o)))
    BY FS_CardinalityType DEF TeamInv, RoomIsKept
  <2>2. Creating(o)' \in SUBSET TeamRequests
    BY DEF Creating
  <2>3. /\ Cardinality(Creating(o)') \in Nat
        /\ Cardinality(Creating(o)') <= Cardinality(TeamRequests)
    BY <2>2, TeamAssumption, FS_Subset, FS_CardinalityType
  <2>4. CASE o = org
    <3>1. /\ SubscriptionStatusAllowsUsage(subscription[o])
          /\ "workspaces" \in DOMAIN subscription[o].limits =>
               Cardinality(WorkspacesOf(o)) + 1 <= subscription[o].limits["workspaces"]
      <4>1. org # "none"
        BY <2>4, TeamAssumption
      <4>2. CheckLimit(o, "workspaces", Cardinality(WorkspacesOf(o)), 1)
        BY <1>1, <2>4, <4>1 DEF MayCreate
      <4> QED
        BY <4>2 DEF CheckLimit, WithinLimit
    <3>2. subscription[o].limits \in PlansHad(o)
      BY <3>1, SubscribersHavePlans
    <3>3. ASSUME "workspaces" \in DOMAIN subscription[o].limits
          PROVE  Cardinality(WorkspacesOf(o)) + Cardinality(Creating(o)')
                   <= subscription[o].limits["workspaces"] + Cardinality(TeamRequests) - 1
      <4>1. subscription[o].limits["workspaces"] \in Nat
        BY <3>2, <3>3, LimitsAreNat
      <4> QED
        BY <2>1, <2>3, <3>1, <3>3, <4>1, CreatingIsFinite
    <3> QED
      BY <3>2, <3>3 DEF HasRoom
  <2>5. CASE o # org
    <3>1. Creating(o)' = Creating(o)
      BY <1>2, <1>3, <1>4, <2>5 DEF Creating
    <3> QED
      BY <2>1, <3>1
  <2> QED
    BY <2>4, <2>5
<1>8. RoomIsKept'
  <2>1. \A o : PlansHad(o)' = PlansHad(o) /\ WorkspacesOf(o)' = WorkspacesOf(o)
    BY <1>2 DEF PlansHad, SubscriptionEvents, WorkspacesOf
  <2>2. \A o, n : HasRoom(o, n)' <=> HasRoom(o, n)
    BY <2>1 DEF HasRoom
  <2>3. ASSUME NEW o \in Organizations
        PROVE  /\ IsFiniteSet(WorkspacesOf(o)')
               /\ \/ Creating(o)' = {} /\ Cardinality(WorkspacesOf(o)') <= 1
                  \/ HasRoom(o, Cardinality(WorkspacesOf(o)) + Cardinality(Creating(o)))'
    <3>1. IsFiniteSet(WorkspacesOf(o))
      BY DEF TeamInv, RoomIsKept
    <3>2. CASE Creating(o)' = {} /\ Cardinality(WorkspacesOf(o)) <= 1
      BY <2>1, <3>1, <3>2
    <3>3. CASE HasRoom(o, Cardinality(WorkspacesOf(o)) + Cardinality(Creating(o)'))
      BY <2>1, <3>1, <3>3 DEF HasRoom
    <3> QED
      BY <1>7, <3>2, <3>3
  <2> QED
    BY <2>3 DEF RoomIsKept
<1>9. NoneBefore' /\ InvitationsAreWhole' /\ OwnersAreFounded' /\ MembersWereInvited'
  BY <1>2 DEF TeamInv, NoneBefore, InvitationsAreWhole, OwnersAreFounded, Founded,
     MembersWereInvited, Members
<1> QED
  BY <1>5, <1>6, <1>8, <1>9 DEF TeamInv

LEMMA InsertWorkspaceKeeps ==
  ASSUME BillingInv, TeamInv, NEW q \in TeamRequests, InsertWorkspace(q), UNCHANGED billingVars
  PROVE  TeamInv'
<1>1. PICK w \in WorkspaceIds, o \in Organizations, u \in Users :
        /\ workspace[w] = NoWorkspace /\ u = request[q].user
        /\ o = request[q].org \/ (request[q].org = "none" /\ o \notin Founded)
        /\ workspace' = [workspace EXCEPT ![w] = [org |-> o, by |-> u]]
        /\ orgMember' = [orgMember EXCEPT ![o] = @ \cup {u}]
        /\ member' = [member EXCEPT ![w][u] = "admin"]
  <2>1. NewWorkspace \in WorkspaceIds /\ workspace[NewWorkspace] = NoWorkspace
    BY DEF InsertWorkspace, NewWorkspace, UnusedWorkspaces
  <2>2. request[q].user \in Users
    BY DEF InsertWorkspace, InStep, TeamInv, RequestsKnow
  <2> QED
    BY <2>1, <2>2 DEF InsertWorkspace
<1>2. /\ UNCHANGED <<event, ledger, invitation>> /\ request[q].pc = "create"
      /\ request' = [request EXCEPT ![q] = NoRequest]
  BY DEF InsertWorkspace, InStep, Answer, SetRequest, billingVars
<1>3. /\ request' \in [TeamRequests -> RequestRow] /\ request'[q].pc = "idle"
      /\ \A p \in TeamRequests : p # q => request'[p] = request[p]
  BY <1>2, IdleTeamRequest DEF TeamInv, TeamTypeOK
<1>4. /\ workspace'[w] = [org |-> o, by |-> u]
      /\ \A v \in WorkspaceIds : v # w => workspace'[v] = workspace[v]
      /\ workspace' \in [WorkspaceIds -> TeamRow]
  BY <1>1 DEF TeamInv, TeamTypeOK, TeamRow
<1>5. /\ member' \in [WorkspaceIds -> [Users -> InvitedRoles \cup {"none"}]]
      /\ member'[w][u] = "admin"
      /\ \A v \in Users : v # u => member'[w][v] = member[w][v]
      /\ \A v \in WorkspaceIds : v # w => member'[v] = member[v]
  BY <1>1 DEF TeamInv, TeamTypeOK, InvitedRoles
<1>6. /\ orgMember' \in [Organizations -> SUBSET Users]
      /\ u \in orgMember'[o]
      /\ \A p \in Organizations : p # o => orgMember'[p] = orgMember[p]
  BY <1>1 DEF TeamInv, TeamTypeOK
<1>7. TeamTypeOK'
  BY <1>2, <1>3, <1>4, <1>5, <1>6 DEF TeamInv, TeamTypeOK
<1>8. workspace'[w] # NoWorkspace
  BY <1>4, TeamAssumption DEF NoWorkspace
<1>9. Founded' = Founded \cup {o}
  BY <1>6 DEF Founded
<1>10. NoneBefore'
  BY <1>4, <1>5, <1>8 DEF TeamInv, NoneBefore
<1>11. InvitationsAreWhole'
  BY <1>2, <1>4, <1>8 DEF TeamInv, InvitationsAreWhole
<1>12. RequestsKnow'
  BY <1>2, <1>3, <1>4, <1>8, <1>9 DEF TeamInv, RequestsKnow, Answering
<1>13. OwnersAreFounded'
  BY <1>4, <1>9 DEF TeamInv, OwnersAreFounded
<1>14. MembersWereInvited'
  <2> SUFFICES ASSUME NEW v \in WorkspaceIds, NEW x \in Users,
                      member'[v][x] # "none", x # workspace'[v].by
               PROVE  \E i \in InvitationIds :
                        /\ invitation[i].status = "accepted"
                        /\ invitation[i].ws = v /\ invitation[i].email = x
                        /\ invitation[i].role = member'[v][x]
    BY <1>2 DEF MembersWereInvited, Members
  <2>1. CASE v = w
    BY <2>1, <1>1, <1>4, <1>5 DEF TeamInv, NoneBefore
  <2>2. CASE v # w
    BY <2>2, <1>4, <1>5 DEF TeamInv, MembersWereInvited, Members
  <2> QED
    BY <2>1, <2>2
<1>15. ASSUME NEW p \in Organizations
       PROVE  /\ IsFiniteSet(WorkspacesOf(p)')
              /\ \/ Creating(p)' = {} /\ Cardinality(WorkspacesOf(p)') <= 1
                 \/ HasRoom(p, Cardinality(WorkspacesOf(p)') + Cardinality(Creating(p)'))
  <2>1. /\ IsFiniteSet(WorkspacesOf(p)) /\ Cardinality(WorkspacesOf(p)) \in Nat
        /\ \/ Creating(p) = {} /\ Cardinality(WorkspacesOf(p)) <= 1
           \/ HasRoom(p, Cardinality(WorkspacesOf(p)) + Cardinality(Creating(p)))
    BY FS_CardinalityType DEF TeamInv, RoomIsKept
  <2>2. CASE p # o
    <3>1. WorkspacesOf(p)' = WorkspacesOf(p)
      BY <2>2, <1>1, <1>4, TeamAssumption DEF WorkspacesOf, NoWorkspace
    <3>2. Creating(p)' \in SUBSET Creating(p)
      BY <1>3 DEF Creating
    <3>3. /\ Cardinality(Creating(p)') \in Nat /\ Cardinality(Creating(p)) \in Nat
          /\ Cardinality(Creating(p)') <= Cardinality(Creating(p))
      BY <3>2, CreatingIsFinite, FS_Subset, FS_CardinalityType
    <3>4. /\ Cardinality(WorkspacesOf(p)) + Cardinality(Creating(p)') \in Nat
          /\ Cardinality(WorkspacesOf(p)) + Cardinality(Creating(p)) \in Nat
          /\ Cardinality(WorkspacesOf(p)) + Cardinality(Creating(p)')
               <= Cardinality(WorkspacesOf(p)) + Cardinality(Creating(p))
      BY <2>1, <3>3
    <3> QED
      BY <2>1, <3>1, <3>2, <3>4, LessRoom
  <2>3. CASE p = o
    <3>1. WorkspacesOf(p)' = WorkspacesOf(p) \cup {w} /\ w \notin WorkspacesOf(p)
      BY <2>3, <1>1, <1>4, TeamAssumption DEF WorkspacesOf, NoWorkspace
    <3>2. /\ IsFiniteSet(WorkspacesOf(p)')
          /\ Cardinality(WorkspacesOf(p)') = Cardinality(WorkspacesOf(p)) + 1
      BY <2>1, <3>1, FS_AddElement
    <3>3. CASE o \notin Founded
      <4>1. WorkspacesOf(p) = {}
        BY <2>3, <3>3, TeamAssumption DEF TeamInv, OwnersAreFounded, WorkspacesOf, NoWorkspace
      <4>2. Creating(p)' = {}
        BY <2>3, <3>3, <1>3, TeamAssumption DEF TeamInv, RequestsKnow, Creating
      <4> QED
        BY <3>2, <4>1, <4>2, FS_EmptySet
    <3>4. CASE o \in Founded
      <4>1. o = request[q].org
        BY <1>1, <3>4
      <4>2. q \in Creating(p) /\ Creating(p)' = Creating(p) \ {q}
        BY <2>3, <4>1, <1>2, <1>3 DEF Creating
      <4>3. Cardinality(Creating(p)') = Cardinality(Creating(p)) - 1 /\ Cardinality(Creating(p)) \in Nat
        BY <4>2, CreatingIsFinite, FS_RemoveElement
      <4>4. HasRoom(p, Cardinality(WorkspacesOf(p)) + Cardinality(Creating(p)))
        BY <2>1, <4>2
      <4>5. Cardinality(WorkspacesOf(p)') + Cardinality(Creating(p)')
              = Cardinality(WorkspacesOf(p)) + Cardinality(Creating(p))
        BY <2>1, <3>2, <4>3
      <4> QED
        BY <3>2, <4>4, <4>5
    <3> QED
      BY <3>3, <3>4
  <2> QED
    BY <2>2, <2>3
<1>16. RoomIsKept'
  BY <1>2, <1>15 DEF TeamInv, RoomIsKept, HasRoom, PlansHad, SubscriptionEvents
<1> QED
  BY <1>7, <1>10, <1>11, <1>12, <1>13, <1>14, <1>16 DEF TeamInv

LEMMA InviteKeeps ==
  ASSUME BillingInv, TeamInv, NEW q \in TeamRequests, UNCHANGED billingVars,
         \/ StartInvite(q) \/ CheckMember(q) \/ CheckPending(q)
         \/ CountMembers(q) \/ CountPending(q) \/ ReadInvitation(q)
  PROVE  TeamInv'
<1>1. UNCHANGED <<event, ledger, workspace, orgMember, member, invitation>>
  BY DEF StartInvite, CheckMember, CheckPending, CountMembers, CountPending, ReadInvitation, billingVars
<1>2. CASE Answer(q)
  <2>1. SetRequest(q, NoRequest) /\ NoRequest.pc \notin Answering \cup {"accept", "create"}
    BY <1>2, IdleTeamRequest DEF Answer, Answering
  <2> QED
    BY <1>1, <2>1, IdleTeamRequest, OnlyRequest
<1>3. ASSUME NEW pc \in Answering, request[q].pc \in Answering, NextStep(q, pc)
      PROVE  TeamInv'
  <2> DEFINE r == [request[q] EXCEPT !.pc = pc]
  <2>1. request[q] \in RequestRow /\ request \in [TeamRequests -> RequestRow]
    BY DEF TeamInv, TeamTypeOK
  <2>2. /\ r \in RequestRow /\ r.pc = pc /\ r.ws = request[q].ws
        /\ r.user = request[q].user /\ r.role = request[q].role
    BY <2>1 DEF RequestRow, Answering, Pcs
  <2>3. SetRequest(q, r)
    BY <1>3, <2>1 DEF NextStep, SetRequest
  <2>4. /\ r.ws \in WorkspaceIds /\ workspace[r.ws] # NoWorkspace
        /\ r.user \in Users /\ r.role \in InvitedRoles
    BY <1>3, <2>2 DEF TeamInv, RequestsKnow
  <2>5. r.pc # "create" /\ r.pc # "accept"
    BY <2>2 DEF Answering
  <2> HIDE DEF r
  <2> QED
    BY <1>1, <2>2, <2>3, <2>4, <2>5, OnlyRequest
<1>4. CASE StartInvite(q)
  <2>1. PICK w \in WorkspaceIds, by \in Users, u \in Users, role \in {"admin", "editor"} :
          /\ member[w][by] = "admin"
          /\ SetRequest(q, [NoRequest EXCEPT !.pc = "member", !.ws = w, !.user = u, !.role = role])
    BY <1>4 DEF StartInvite
  <2>2. workspace[w] # NoWorkspace
    BY <2>1 DEF TeamInv, NoneBefore
  <2> DEFINE r == [NoRequest EXCEPT !.pc = "member", !.ws = w, !.user = u, !.role = role]
  <2>3. r \in RequestRow /\ r.pc = "member" /\ r.ws = w /\ r.user = u /\ r.role = role
    BY IdleTeamRequest DEF RequestRow, Pcs, InvitedRoles
  <2>4. r.role \in InvitedRoles
    BY <2>3 DEF InvitedRoles
  <2>5. SetRequest(q, r)
    BY <2>1
  <2> HIDE DEF r
  <2> QED
    BY <1>1, <2>2, <2>3, <2>4, <2>5, OnlyRequest
<1>5. CASE CheckMember(q)
  BY <1>2, <1>3, <1>5 DEF CheckMember, InStep, Answering
<1>6. CASE CheckPending(q)
  BY <1>2, <1>3, <1>6 DEF CheckPending, InStep, Answering
<1>7. CASE CountMembers(q)
  <2>1. PICK c \in {Cardinality(S) : S \in SUBSET Users} : c = Cardinality(Members(request[q].ws))
    <3>1. Members(request[q].ws) \in SUBSET Users
      BY DEF Members
    <3> QED
      BY <3>1
  <2> DEFINE r == [request[q] EXCEPT !.pc = "countPending", !.count = c]
  <2>2. request[q] \in RequestRow
    BY DEF TeamInv, TeamTypeOK
  <2>3. /\ r \in RequestRow /\ r.pc = "countPending" /\ r.ws = request[q].ws
        /\ r.user = request[q].user /\ r.role = request[q].role
    BY <2>2 DEF RequestRow, Pcs
  <2>4. SetRequest(q, r)
    BY <1>7, <2>1 DEF CountMembers
  <2>5. /\ r.ws \in WorkspaceIds /\ workspace[r.ws] # NoWorkspace
        /\ r.user \in Users /\ r.role \in InvitedRoles
    BY <1>7, <2>3 DEF CountMembers, InStep, Answering, TeamInv, RequestsKnow
  <2> HIDE DEF r
  <2> QED
    BY <1>1, <2>3, <2>4, <2>5, OnlyRequest
<1>8. CASE CountPending(q)
  BY <1>2, <1>3, <1>8 DEF CountPending, InStep, Answering
<1>9. CASE ReadInvitation(q)
  <2>1. PICK i \in InvitationIds :
          /\ invitation[i].status = "pending"
          /\ SetRequest(q, [NoRequest EXCEPT !.pc = "accept", !.i = i,
               !.ws = invitation[i].ws, !.user = invitation[i].email, !.role = invitation[i].role])
    BY <1>9 DEF ReadInvitation
  <2>2. invitation[i] \in InvitationRow
    BY DEF TeamInv, TeamTypeOK
  <2>3. PICK ws \in WorkspaceIds \cup {"none"}, user \in Users \cup {"none"},
             role \in InvitedRoles \cup {"none"} :
          ws = invitation[i].ws /\ user = invitation[i].email /\ role = invitation[i].role
    BY <2>2 DEF InvitationRow
  <2> DEFINE r == [NoRequest EXCEPT !.pc = "accept", !.i = i, !.ws = ws, !.user = user, !.role = role]
  <2>4. /\ r \in RequestRow /\ r.pc = "accept" /\ r.i = i
        /\ r.ws = ws /\ r.user = user /\ r.role = role
    BY IdleTeamRequest DEF RequestRow, Pcs
  <2>5. SetRequest(q, r)
    BY <2>1, <2>3
  <2> HIDE DEF r
  <2>6. r.pc \notin Answering
    BY <2>4 DEF Answering
  <2> QED
    BY <1>1, <2>1, <2>3, <2>4, <2>5, <2>6, OnlyRequest
<1> QED
  BY <1>4, <1>5, <1>6, <1>7, <1>8, <1>9

LEMMA InsertInvitationKeeps ==
  ASSUME BillingInv, TeamInv, NEW q \in TeamRequests, InsertInvitation(q), UNCHANGED billingVars
  PROVE  TeamInv'
<1>1. PICK i \in InvitationIds :
        /\ invitation[i].status = "none"
        /\ invitation' = [invitation EXCEPT ![i] =
             [status |-> "pending", ws |-> request[q].ws, email |-> request[q].user,
              role |-> request[q].role, expired |-> FALSE]]
  <2> DEFINE unused == {i \in InvitationIds : invitation[i].status = "none"}
             i == CHOOSE j \in unused : TRUE
  <2>1. i \in InvitationIds /\ invitation[i].status = "none"
    BY DEF InsertInvitation
  <2> QED
    BY <2>1 DEF InsertInvitation
<1>2. /\ UNCHANGED <<event, ledger, workspace, orgMember, member>>
      /\ Answer(q) /\ request[q].pc = "insert"
  BY DEF InsertInvitation, InStep, billingVars
<1>3. PICK ws \in WorkspaceIds, u \in Users, role \in InvitedRoles :
        /\ ws = request[q].ws /\ u = request[q].user /\ role = request[q].role
        /\ workspace[ws] # NoWorkspace
  BY <1>2 DEF TeamInv, RequestsKnow, Answering
<1>4. invitation' = [invitation EXCEPT ![i] =
        [status |-> "pending", ws |-> ws, email |-> u, role |-> role, expired |-> FALSE]]
  BY <1>1, <1>3
<1>5. /\ invitation' \in [InvitationIds -> InvitationRow]
      /\ invitation'[i].status = "pending" /\ invitation'[i].ws = ws
      /\ invitation'[i].email = u /\ invitation'[i].role = role
      /\ \A j \in InvitationIds : j # i => invitation'[j] = invitation[j]
  BY <1>4 DEF TeamInv, TeamTypeOK, InvitationRow
<1>6. /\ request' \in [TeamRequests -> RequestRow] /\ request'[q].pc = "idle"
      /\ \A p \in TeamRequests : p # q => request'[p] = request[p]
  BY <1>2, IdleTeamRequest DEF Answer, SetRequest, TeamInv, TeamTypeOK
<1>7. TeamTypeOK' /\ NoneBefore' /\ OwnersAreFounded'
  BY <1>2, <1>5, <1>6 DEF TeamInv, TeamTypeOK, NoneBefore, OwnersAreFounded, Founded
<1>8. InvitationsAreWhole'
  BY <1>2, <1>3, <1>5 DEF TeamInv, InvitationsAreWhole
<1>9. RequestsKnow'
  <2> SUFFICES ASSUME NEW p \in TeamRequests, p # q, request[p].pc = "accept"
               PROVE  request[p].i # i
    BY <1>2, <1>5, <1>6 DEF TeamInv, RequestsKnow, Answering, Founded
  <2> QED
    BY <1>1 DEF TeamInv, RequestsKnow
<1>10. RoomIsKept'
  BY <1>2, <1>6, FewerCreating
<1>11. MembersWereInvited'
  BY <1>1, <1>2, <1>5 DEF TeamInv, MembersWereInvited, Members
<1> QED
  BY <1>7, <1>8, <1>9, <1>10, <1>11 DEF TeamInv

LEMMA MarkedInvitation ==
  ASSUME BillingInv, TeamInv, NEW i \in InvitationIds, NEW s \in {"pending", "revoked", "accepted"},
         invitation' = [invitation EXCEPT ![i].status = s]
  PROVE  /\ invitation' \in [InvitationIds -> InvitationRow]
         /\ invitation'[i].status = s
         /\ invitation'[i].ws = invitation[i].ws
         /\ invitation'[i].email = invitation[i].email
         /\ invitation'[i].role = invitation[i].role
         /\ \A j \in InvitationIds : j # i => invitation'[j] = invitation[j]
<1> DEFINE r == [invitation[i] EXCEPT !.status = s]
<1>1. invitation \in [InvitationIds -> InvitationRow] /\ invitation[i] \in InvitationRow
  BY DEF TeamInv, TeamTypeOK
<1>2. /\ r \in InvitationRow /\ r.status = s /\ r.ws = invitation[i].ws
      /\ r.email = invitation[i].email /\ r.role = invitation[i].role
  BY <1>1 DEF InvitationRow
<1>3. invitation' = [invitation EXCEPT ![i] = r]
  OBVIOUS
<1> HIDE DEF r
<1> QED
  BY <1>1, <1>2, <1>3

LEMMA ChangeInvitation ==
  ASSUME BillingInv, TeamInv, NEW i \in InvitationIds, invitation[i].status = "pending",
         NEW s \in {"pending", "revoked"},
         \/ invitation' = [invitation EXCEPT ![i].status = s]
         \/ s = "pending" /\ invitation' = [invitation EXCEPT ![i].expired = TRUE],
         UNCHANGED <<event, ledger, workspace, orgMember, member, request>>
  PROVE  TeamInv'
<1>1. /\ invitation' \in [InvitationIds -> InvitationRow]
      /\ invitation'[i].status = s
      /\ invitation'[i].ws = invitation[i].ws
      /\ invitation'[i].email = invitation[i].email
      /\ invitation'[i].role = invitation[i].role
      /\ \A j \in InvitationIds : j # i => invitation'[j] = invitation[j]
  <2>1. CASE invitation' = [invitation EXCEPT ![i].status = s]
    BY <2>1, MarkedInvitation
  <2>2. CASE s = "pending" /\ invitation' = [invitation EXCEPT ![i].expired = TRUE]
    <3>1. [invitation[i] EXCEPT !.expired = TRUE] \in InvitationRow
      BY DEF TeamInv, TeamTypeOK, InvitationRow
    <3> QED
      BY <2>2, <3>1 DEF TeamInv, TeamTypeOK, InvitationRow
  <2> QED
    BY <2>1, <2>2
<1>2. TeamTypeOK' /\ NoneBefore' /\ OwnersAreFounded'
  BY <1>1 DEF TeamInv, TeamTypeOK, NoneBefore, OwnersAreFounded, Founded
<1>3. InvitationsAreWhole'
  BY <1>1 DEF TeamInv, InvitationsAreWhole
<1>4. RequestsKnow'
  <2> SUFFICES ASSUME NEW q \in TeamRequests, request[q].pc = "accept"
               PROVE  /\ invitation'[request[q].i].status # "none"
                      /\ request[q].ws = invitation'[request[q].i].ws
                      /\ request[q].user = invitation'[request[q].i].email
                      /\ request[q].role = invitation'[request[q].i].role
    BY DEF TeamInv, RequestsKnow, Founded
  <2> QED
    BY <1>1 DEF TeamInv, RequestsKnow
<1>5. RoomIsKept'
  BY DEF TeamInv, RoomIsKept, WorkspacesOf, Creating, HasRoom, PlansHad, SubscriptionEvents
<1>6. MembersWereInvited'
  BY <1>1 DEF TeamInv, MembersWereInvited, Members
<1> QED
  BY <1>2, <1>3, <1>4, <1>5, <1>6 DEF TeamInv

LEMMA AcceptInvitationKeeps ==
  ASSUME BillingInv, TeamInv, NEW q \in TeamRequests, AcceptInvitation(q), UNCHANGED billingVars
  PROVE  TeamInv'
<1>1. /\ UNCHANGED <<event, ledger, workspace, orgMember>> /\ Answer(q)
      /\ request[q].pc = "accept"
  BY DEF AcceptInvitation, InStep, billingVars
<1>2. PICK i \in InvitationIds, ws \in WorkspaceIds, u \in Users, role \in InvitedRoles :
        /\ i = request[q].i /\ ws = request[q].ws /\ u = request[q].user /\ role = request[q].role
        /\ ws = invitation[i].ws /\ u = invitation[i].email /\ role = invitation[i].role
        /\ workspace[ws] # NoWorkspace
  BY <1>1 DEF TeamInv, RequestsKnow, InvitationsAreWhole
<1>3. CASE ~StillPending(q)
  <2>1. UNCHANGED <<member, invitation>>
    BY <1>3 DEF AcceptInvitation, JoinedOrRolledBack
  <2> QED
    BY <1>1, <2>1, IdleTeamRequest, OnlyRequest DEF Answer, Answering
<1>4. CASE StillPending(q)
  <2>1. /\ invitation[i].status = "pending"
        /\ invitation' = [invitation EXCEPT ![i].status = "accepted"]
        /\ member' = [member EXCEPT ![ws][u] = IF member[ws][u] = "none" THEN role ELSE member[ws][u]]
    BY <1>2, <1>4 DEF AcceptInvitation, JoinedOrRolledBack, Joined, StillPending
  <2>2. /\ invitation' \in [InvitationIds -> InvitationRow]
        /\ invitation'[i].status = "accepted" /\ invitation'[i].ws = ws
        /\ invitation'[i].email = u /\ invitation'[i].role = role
        /\ \A j \in InvitationIds : j # i => invitation'[j] = invitation[j]
    BY <1>2, <2>1, MarkedInvitation
  <2>3. /\ member' \in [WorkspaceIds -> [Users -> InvitedRoles \cup {"none"}]]
        /\ member'[ws][u] = IF member[ws][u] = "none" THEN role ELSE member[ws][u]
        /\ \A x \in Users : x # u => member'[ws][x] = member[ws][x]
        /\ \A v \in WorkspaceIds : v # ws => member'[v] = member[v]
    BY <2>1 DEF TeamInv, TeamTypeOK
  <2>4. /\ request' \in [TeamRequests -> RequestRow] /\ request'[q].pc = "idle"
        /\ \A p \in TeamRequests : p # q => request'[p] = request[p]
    BY <1>1, IdleTeamRequest DEF Answer, SetRequest, TeamInv, TeamTypeOK
  <2>5. TeamTypeOK' /\ OwnersAreFounded'
    BY <1>1, <2>2, <2>3, <2>4 DEF TeamInv, TeamTypeOK, OwnersAreFounded, Founded
  <2>6. NoneBefore'
    <3> SUFFICES ASSUME NEW v \in WorkspaceIds, workspace[v] = NoWorkspace, NEW x \in Users
                 PROVE  member'[v][x] = "none"
      BY <1>1 DEF NoneBefore
    <3>1. v # ws
      BY <1>2
    <3> QED
      BY <3>1, <2>3 DEF TeamInv, NoneBefore
  <2>7. InvitationsAreWhole'
    BY <1>1, <1>2, <2>2 DEF TeamInv, InvitationsAreWhole
  <2>8. RequestsKnow'
    <3> SUFFICES ASSUME NEW p \in TeamRequests, p # q
                 PROVE  /\ request[p].pc = "accept" =>
                             /\ request[p].i \in InvitationIds
                             /\ invitation'[request[p].i].status # "none"
                             /\ request[p].ws = invitation'[request[p].i].ws
                             /\ request[p].user = invitation'[request[p].i].email
                             /\ request[p].role = invitation'[request[p].i].role
      BY <1>1, <2>4 DEF TeamInv, RequestsKnow, Answering, Founded
    <3> QED
      BY <1>2, <2>2 DEF TeamInv, RequestsKnow
  <2>9. RoomIsKept'
    BY <1>1, <2>4, FewerCreating
  <2>10. MembersWereInvited'
    <3> SUFFICES ASSUME NEW v \in WorkspaceIds, NEW x \in Users,
                        member'[v][x] # "none", x # workspace[v].by
                 PROVE  \E j \in InvitationIds :
                          /\ invitation'[j].status = "accepted"
                          /\ invitation'[j].ws = v /\ invitation'[j].email = x
                          /\ invitation'[j].role = member'[v][x]
      BY <1>1 DEF MembersWereInvited, Members
    <3>1. CASE v = ws /\ x = u /\ member[ws][u] = "none"
      BY <3>1, <2>2, <2>3
    <3>2. CASE ~(v = ws /\ x = u /\ member[ws][u] = "none")
      <4>1. member'[v][x] = member[v][x]
        BY <3>2, <2>3
      <4>2. PICK j \in InvitationIds :
              /\ invitation[j].status = "accepted"
              /\ invitation[j].ws = v /\ invitation[j].email = x
              /\ invitation[j].role = member[v][x]
        BY <4>1 DEF TeamInv, MembersWereInvited, Members
      <4> QED
        BY <4>1, <4>2, <2>1, <2>2
    <3> QED
      BY <3>1, <3>2
  <2> QED
    BY <2>5, <2>6, <2>7, <2>8, <2>9, <2>10 DEF TeamInv
<1> QED
  BY <1>3, <1>4

LEMMA StepTeam ==
  ASSUME BillingInv, TeamInv, TeamNext, UNCHANGED billingVars
  PROVE  TeamInv'
<1>1. ASSUME NEW i \in InvitationIds, RevokeInvitation(i) \/ Expires(i)
      PROVE  TeamInv'
  <2>1. CASE RevokeInvitation(i)
    <3>1. "revoked" \in {"pending", "revoked"}
      OBVIOUS
    <3> QED
      BY <1>1, <2>1, <3>1, ChangeInvitation DEF RevokeInvitation, billingVars
  <2>2. CASE Expires(i)
    <3>1. "pending" \in {"pending", "revoked"}
      OBVIOUS
    <3> QED
      BY <1>1, <2>2, <3>1, ChangeInvitation DEF Expires, billingVars
  <2> QED
    BY <1>1, <2>1, <2>2
<1> QED
  BY <1>1, StartCreateKeeps, InsertWorkspaceKeeps, InviteKeeps, InsertInvitationKeeps,
     AcceptInvitationKeeps DEF TeamNext

(* The quota of scheduled posts *)

ScheduleRow == [pc     : {"idle", "check", "write", "record"},
                period : Periods \cup {<<"none", 1>>},
                amount : 0..MaxThread]

\* PostsIn, for any table of requests.
PostsAt(f, pc, k) ==
  {p \in ScheduleRequests \X (1..MaxThread) :
     /\ f[p[1]].pc = pc /\ f[p[1]].period = k /\ p[2] <= f[p[1]].amount}
OthersAt(f, q, pc, k) == {p \in PostsAt(f, pc, k) : p[1] # q}
Own(r, pc, k) == IF r.pc = pc /\ r.period = k THEN r.amount ELSE 0

QuotaTypeOK ==
  /\ counter \in [Periods -> Nat] /\ made \in [Periods -> Nat] /\ uncounted \in [Periods -> Nat]
  /\ scheduling \in [ScheduleRequests -> ScheduleRow]

\* What is scheduled, or will be, is that of a workspace which is there.
PeriodsAreOwned ==
  /\ \A q \in ScheduleRequests : scheduling[q].pc # "idle" =>
       scheduling[q].period \in Periods /\ workspace[scheduling[q].period[1]] # NoWorkspace
  /\ \A k \in Periods : made[k] # 0 => workspace[k[1]] # NoWorkspace

Overlap == (Cardinality(ScheduleRequests) - 1) * MaxThread

\* n posts that may yet be counted are near what a plan allowed.
QuotaHasRoom(k, n) ==
  \E limits \in PlansHad(workspace[k[1]].org) : "scheduled_posts_monthly" \in DOMAIN limits =>
    n <= limits["scheduled_posts_monthly"] + Overlap

\* ScheduledNearLimit with the posts that were allowed and are not written yet.
AllowedNearLimit ==
  \A k \in Periods :
    \/ made[k] = 0 /\ Cardinality(PostsIn("write", k)) = 0
    \/ QuotaHasRoom(k, made[k] + Cardinality(PostsIn("write", k)) - uncounted[k])

QuotaInv == QuotaTypeOK /\ PeriodsAreOwned /\ UsageIsExact /\ AllowedNearLimit

-----------------------------------------------------------------------------
LEMMA OverlapIsNat == Overlap \in Nat /\ Cardinality(ScheduleRequests) \in Nat
<1>1. /\ Cardinality(ScheduleRequests) \in Nat /\ Cardinality(ScheduleRequests) # 0
      /\ MaxThread \in Nat
  BY ScheduledPostsAssumption, FS_CardinalityType, FS_EmptySet
<1>2. PICK n \in Nat, k \in Nat : n = Cardinality(ScheduleRequests) - 1 /\ k = MaxThread
  BY <1>1
<1>3. n * k \in Nat
  OBVIOUS
<1> QED
  BY <1>1, <1>2, <1>3 DEF Overlap

LEMMA ProductIsFinite ==
  ASSUME NEW S \in SUBSET ScheduleRequests
  PROVE  /\ IsFiniteSet(S \X (1..MaxThread))
         /\ Cardinality(S \X (1..MaxThread)) = Cardinality(S) * MaxThread
<1>1. IsFiniteSet(S)
  BY ScheduledPostsAssumption, FS_Subset
<1>2. MaxThread \in Nat /\ MaxThread > 0
  BY ScheduledPostsAssumption
<1>3. IsFiniteSet(1..MaxThread) /\ Cardinality(1..MaxThread) = MaxThread
  BY <1>2, FS_Interval
<1> QED
  BY <1>1, <1>3, FS_Product

LEMMA PostsAreFinite ==
  ASSUME NEW f, NEW pc, NEW k
  PROVE  IsFiniteSet(PostsAt(f, pc, k)) /\ Cardinality(PostsAt(f, pc, k)) \in Nat
<1>1. PostsAt(f, pc, k) \in SUBSET (ScheduleRequests \X (1..MaxThread))
  BY DEF PostsAt
<1> QED
  BY <1>1, ProductIsFinite, FS_Subset, FS_CardinalityType

LEMMA DisjointUnion ==
  ASSUME NEW S, NEW T, IsFiniteSet(S), IsFiniteSet(T), S \cap T = {}
  PROVE  Cardinality(S \cup T) = Cardinality(S) + Cardinality(T)
<1>1. Cardinality(S) \in Nat /\ Cardinality(T) \in Nat
  BY FS_CardinalityType
<1>2. Cardinality(S \cap T) = 0
  BY FS_EmptySet
<1>3. Cardinality(S \cup T) = Cardinality(S) + Cardinality(T) - Cardinality(S \cap T)
  BY FS_Union
<1> QED
  BY <1>1, <1>2, <1>3

\* The posts of a step are those of one request and those of the others.
LEMMA SplitPosts ==
  ASSUME NEW f \in [ScheduleRequests -> ScheduleRow], NEW q \in ScheduleRequests,
         NEW pc, NEW k
  PROVE  /\ Cardinality(OthersAt(f, q, pc, k)) \in Nat
         /\ Own(f[q], pc, k) \in Nat
         /\ Cardinality(PostsAt(f, pc, k))
              = Cardinality(OthersAt(f, q, pc, k)) + Own(f[q], pc, k)
<1>1. PICK n \in 0..MaxThread : n = f[q].amount
  BY DEF ScheduleRow
<1>2. n \in Nat /\ n \in Int /\ 1 \in Int /\ MaxThread \in Nat
  BY ScheduledPostsAssumption
<1>3. OthersAt(f, q, pc, k) \in SUBSET PostsAt(f, pc, k)
  BY DEF OthersAt
<1>4. IsFiniteSet(OthersAt(f, q, pc, k)) /\ Cardinality(OthersAt(f, q, pc, k)) \in Nat
  BY <1>3, PostsAreFinite, FS_Subset, FS_CardinalityType
<1>5. CASE f[q].pc = pc /\ f[q].period = k
  <2>1. IsFiniteSet({q} \X (1..n)) /\ Cardinality({q} \X (1..n)) = n
    <3>1. IsFiniteSet({q}) /\ Cardinality({q}) = 1
      BY FS_Singleton
    <3>2. IsFiniteSet(1..n) /\ Cardinality(1..n) = n
      BY <1>2, FS_Interval
    <3>3. /\ Cardinality({q} \X (1..n)) = Cardinality({q}) * Cardinality(1..n)
          /\ IsFiniteSet({q} \X (1..n))
      BY <3>1, <3>2, FS_Product
    <3>4. 1 * n = n
      BY <1>2
    <3> QED
      BY <3>1, <3>2, <3>3, <3>4
  <2>2. PostsAt(f, pc, k) = OthersAt(f, q, pc, k) \cup ({q} \X (1..n))
    <3>1. ASSUME NEW p \in PostsAt(f, pc, k), p[1] = q PROVE p \in {q} \X (1..n)
      BY <3>1, <1>1, <1>2 DEF PostsAt
    <3>2. ASSUME NEW p \in {q} \X (1..n) PROVE p \in PostsAt(f, pc, k)
      BY <1>1, <1>2, <1>5 DEF PostsAt
    <3> QED
      BY <3>1, <3>2 DEF OthersAt
  <2>3. OthersAt(f, q, pc, k) \cap ({q} \X (1..n)) = {}
    BY DEF OthersAt
  <2>5. Cardinality(PostsAt(f, pc, k)) = Cardinality(OthersAt(f, q, pc, k)) + n
    BY <1>2, <1>4, <2>1, <2>2, <2>3, DisjointUnion
  <2> QED
    BY <1>1, <1>2, <1>4, <1>5, <2>5 DEF Own
<1>6. CASE ~(f[q].pc = pc /\ f[q].period = k)
  <2>1. PostsAt(f, pc, k) = OthersAt(f, q, pc, k)
    BY <1>6 DEF PostsAt, OthersAt
  <2> QED
    BY <1>4, <1>6, <2>1 DEF Own
<1> QED
  BY <1>5, <1>6

LEMMA MoveOne ==
  ASSUME NEW f \in [ScheduleRequests -> ScheduleRow], NEW g \in [ScheduleRequests -> ScheduleRow],
         NEW q \in ScheduleRequests, \A p \in ScheduleRequests : p # q => g[p] = f[p],
         NEW pc, NEW k
  PROVE  Cardinality(PostsAt(g, pc, k)) + Own(f[q], pc, k)
           = Cardinality(PostsAt(f, pc, k)) + Own(g[q], pc, k)
<1>1. OthersAt(g, q, pc, k) = OthersAt(f, q, pc, k)
  BY DEF OthersAt, PostsAt
<1>2. /\ Cardinality(PostsAt(g, pc, k)) = Cardinality(OthersAt(g, q, pc, k)) + Own(g[q], pc, k)
      /\ Own(g[q], pc, k) \in Nat
  BY SplitPosts
<1>3. /\ Cardinality(PostsAt(f, pc, k)) = Cardinality(OthersAt(f, q, pc, k)) + Own(f[q], pc, k)
      /\ Own(f[q], pc, k) \in Nat /\ Cardinality(OthersAt(f, q, pc, k)) \in Nat
  BY SplitPosts
<1> QED
  BY <1>1, <1>2, <1>3

\* The other requests have at most MaxThread posts each.
LEMMA OthersFit ==
  ASSUME NEW f \in [ScheduleRequests -> ScheduleRow], NEW q \in ScheduleRequests,
         f[q].pc = "check", NEW k
  PROVE  Cardinality(PostsAt(f, "write", k)) + Cardinality(PostsAt(f, "record", k)) <= Overlap
<1> DEFINE W == PostsAt(f, "write", k)
           R == PostsAt(f, "record", k)
           Rest == ScheduleRequests \ {q}
<1>1. /\ IsFiniteSet(W) /\ Cardinality(W) \in Nat
      /\ IsFiniteSet(R) /\ Cardinality(R) \in Nat
  BY PostsAreFinite
<1>2. W \cap R = {} /\ W \cup R \in SUBSET (Rest \X (1..MaxThread))
  BY DEF PostsAt
<1>4. Cardinality(W \cup R) = Cardinality(W) + Cardinality(R)
  BY <1>1, <1>2, DisjointUnion
<1>5. Cardinality(Rest) = Cardinality(ScheduleRequests) - 1
  BY ScheduledPostsAssumption, FS_RemoveElement
<1>6. /\ IsFiniteSet(Rest \X (1..MaxThread))
      /\ Cardinality(Rest \X (1..MaxThread)) = Overlap
  BY <1>5, ProductIsFinite DEF Overlap
<1>7. Cardinality(W \cup R) <= Cardinality(Rest \X (1..MaxThread))
  BY <1>2, <1>6, FS_Subset
<1> QED
  BY <1>4, <1>6, <1>7
LEMMA PostsInAt ==
  /\ \A pc, k : PostsIn(pc, k) = PostsAt(scheduling, pc, k)
  /\ \A pc, k : PostsIn(pc, k)' = PostsAt(scheduling', pc, k)
  BY DEF PostsIn, PostsAt

LEMMA IdleScheduling ==
  /\ NoScheduling \in ScheduleRow
  /\ \A k : Own(NoScheduling, "write", k) = 0 /\ Own(NoScheduling, "record", k) = 0
  BY ScheduledPostsAssumption DEF NoScheduling, ScheduleRow, Own

LEMMA AmountIsNat ==
  ASSUME QuotaInv, NEW q \in ScheduleRequests
  PROVE  /\ scheduling[q].amount \in Nat
         /\ scheduling[q].pc # "idle" => scheduling[q].period \in Periods
<1>1. scheduling[q].amount \in 0..MaxThread
  BY DEF QuotaInv, QuotaTypeOK, ScheduleRow
<1>2. MaxThread \in Nat
  BY ScheduledPostsAssumption
<1> QED
  BY <1>1, <1>2 DEF QuotaInv, PeriodsAreOwned

\* One request moves, and with it its posts.
LEMMA MovePosts ==
  ASSUME NEW q \in ScheduleRequests, scheduling \in [ScheduleRequests -> ScheduleRow],
         scheduling' \in [ScheduleRequests -> ScheduleRow],
         \A p \in ScheduleRequests : p # q => scheduling'[p] = scheduling[p],
         NEW pc, NEW k
  PROVE  /\ Cardinality(PostsIn(pc, k)) \in Nat /\ Cardinality(PostsIn(pc, k)') \in Nat
         /\ Cardinality(PostsIn(pc, k)') + Own(scheduling[q], pc, k)
              = Cardinality(PostsIn(pc, k)) + Own(scheduling'[q], pc, k)
<1>1. Cardinality(PostsAt(scheduling', pc, k)) + Own(scheduling[q], pc, k)
        = Cardinality(PostsAt(scheduling, pc, k)) + Own(scheduling'[q], pc, k)
  BY MoveOne
<1> QED
  BY <1>1, PostsInAt, PostsAreFinite

Becomes(q, r) == scheduling' = [scheduling EXCEPT ![q] = r]

LEMMA MoveRequest ==
  ASSUME QuotaInv, NEW q \in ScheduleRequests, NEW r \in ScheduleRow, Becomes(q, r), NEW pc, NEW k
  PROVE  /\ scheduling' \in [ScheduleRequests -> ScheduleRow]
         /\ Cardinality(PostsIn(pc, k)) \in Nat /\ Cardinality(PostsIn(pc, k)') \in Nat
         /\ Cardinality(PostsIn(pc, k)') + Own(scheduling[q], pc, k)
              = Cardinality(PostsIn(pc, k)) + Own(r, pc, k)
<1>1. scheduling \in [ScheduleRequests -> ScheduleRow]
  BY DEF QuotaInv, QuotaTypeOK
<1>2. /\ scheduling' \in [ScheduleRequests -> ScheduleRow] /\ scheduling'[q] = r
      /\ \A p \in ScheduleRequests : p # q => scheduling'[p] = scheduling[p]
  BY <1>1 DEF Becomes
<1> QED
  BY <1>1, <1>2, MovePosts

LEMMA OwnedPeriod ==
  ASSUME QuotaInv, NEW k \in Periods,
         ~(made[k] = 0 /\ Cardinality(PostsIn("write", k)) = 0)
  PROVE  workspace[k[1]] # NoWorkspace
<1>1. CASE made[k] # 0
  BY <1>1 DEF QuotaInv, PeriodsAreOwned
<1>2. CASE PostsIn("write", k) # {}
  <2>1. PICK q \in ScheduleRequests : scheduling[q].pc = "write" /\ scheduling[q].period = k
    BY <1>2 DEF PostsIn
  <2> QED
    BY <2>1 DEF QuotaInv, PeriodsAreOwned
<1> QED
  BY <1>1, <1>2, FS_EmptySet

LEMMA LessQuotaRoom ==
  ASSUME BillingInv, TeamInv, NEW k \in Periods, workspace[k[1]] # NoWorkspace,
         NEW n \in Int, NEW i \in Int, i <= n, QuotaHasRoom(k, n)
  PROVE  QuotaHasRoom(k, i)
<1>1. workspace[k[1]].org \in Organizations
  BY DEF Periods, TeamInv, OwnersAreFounded, Founded
<1>2. PICK limits \in PlansHad(workspace[k[1]].org) :
        "scheduled_posts_monthly" \in DOMAIN limits =>
          n <= limits["scheduled_posts_monthly"] + Overlap
  BY DEF QuotaHasRoom
<1>3. "scheduled_posts_monthly" \in DOMAIN limits => limits["scheduled_posts_monthly"] \in Nat
  BY <1>1, LimitsAreNat
<1>4. "scheduled_posts_monthly" \in DOMAIN limits =>
        i <= limits["scheduled_posts_monthly"] + Overlap
  BY <1>2, <1>3, OverlapIsNat
<1> QED
  BY <1>4 DEF QuotaHasRoom

\* What a step may do to the posts of a period that were allowed.
LEMMA RoomStays ==
  ASSUME BillingInv, TeamInv, QuotaInv, UNCHANGED <<event, ledger, workspace>>,
         made' \in [Periods -> Nat], uncounted' \in [Periods -> Nat],
         NEW k \in Periods, Cardinality(PostsIn("write", k)') \in Nat,
         made'[k] + Cardinality(PostsIn("write", k)') <= made[k] + Cardinality(PostsIn("write", k)),
         made'[k] + Cardinality(PostsIn("write", k)') - uncounted'[k]
           <= made[k] + Cardinality(PostsIn("write", k)) - uncounted[k]
  PROVE  \/ made'[k] = 0 /\ Cardinality(PostsIn("write", k)') = 0
         \/ QuotaHasRoom(k, made[k] + Cardinality(PostsIn("write", k)) - uncounted[k])'
<1> DEFINE before == made[k] + Cardinality(PostsIn("write", k)) - uncounted[k]
           after == made'[k] + Cardinality(PostsIn("write", k)') - uncounted'[k]
<1>1. /\ made[k] \in Nat /\ uncounted[k] \in Nat /\ made'[k] \in Nat /\ uncounted'[k] \in Nat
      /\ Cardinality(PostsIn("write", k)) \in Nat
  BY PostsInAt, PostsAreFinite DEF QuotaInv, QuotaTypeOK
<1>2. CASE made[k] = 0 /\ Cardinality(PostsIn("write", k)) = 0
  BY <1>1, <1>2
<1>3. CASE ~(made[k] = 0 /\ Cardinality(PostsIn("write", k)) = 0)
  <2>1. QuotaHasRoom(k, before)
    BY <1>3 DEF QuotaInv, AllowedNearLimit
  <2>2. workspace[k[1]] # NoWorkspace
    BY <1>3, OwnedPeriod
  <2>3. before \in Int /\ after \in Int /\ after <= before
    BY <1>1
  <2> HIDE DEF before, after
  <2>4. QuotaHasRoom(k, after)
    BY <2>1, <2>2, <2>3, LessQuotaRoom
  <2> USE DEF before, after
  <2>5. PlansHad(workspace[k[1]].org)' = PlansHad(workspace[k[1]].org)
    BY DEF PlansHad, SubscriptionEvents
  <2> QED
    BY <2>4, <2>5 DEF QuotaHasRoom, Overlap
<1> QED
  BY <1>2, <1>3

\* Nothing but one request changes: it had written nothing that is not counted,
\* and it has none to write.
LEMMA OnlyScheduling ==
  ASSUME BillingInv, TeamInv, QuotaInv, NEW q \in ScheduleRequests, NEW r \in ScheduleRow,
         Becomes(q, r), UNCHANGED <<event, ledger, workspace, counter, made, uncounted>>,
         scheduling[q].pc # "record", r.pc \notin {"write", "record"},
         r.pc # "idle" => r.period \in Periods /\ workspace[r.period[1]] # NoWorkspace
  PROVE  QuotaInv'
<1>1. \A k : /\ Own(r, "write", k) = 0 /\ Own(r, "record", k) = 0
             /\ Own(scheduling[q], "record", k) = 0
  BY DEF Own
<1>2. \A k : Own(scheduling[q], "write", k) \in Nat
  <2>1. scheduling \in [ScheduleRequests -> ScheduleRow]
    BY DEF QuotaInv, QuotaTypeOK
  <2> QED
    BY <2>1, SplitPosts
<1>3. ASSUME NEW k
      PROVE  /\ InFlight(k)' = InFlight(k)
             /\ Cardinality(PostsIn("write", k)') \in Nat /\ Cardinality(PostsIn("write", k)) \in Nat
             /\ Cardinality(PostsIn("write", k)') <= Cardinality(PostsIn("write", k))
  <2>1. /\ Cardinality(PostsIn("record", k)) \in Nat /\ Cardinality(PostsIn("record", k)') \in Nat
        /\ Cardinality(PostsIn("record", k)') + Own(scheduling[q], "record", k)
             = Cardinality(PostsIn("record", k)) + Own(r, "record", k)
        /\ Cardinality(PostsIn("write", k)) \in Nat /\ Cardinality(PostsIn("write", k)') \in Nat
        /\ Cardinality(PostsIn("write", k)') + Own(scheduling[q], "write", k)
             = Cardinality(PostsIn("write", k)) + Own(r, "write", k)
    BY MoveRequest
  <2> QED
    BY <1>1, <1>2, <2>1 DEF InFlight
<1>4. QuotaTypeOK'
  BY DEF QuotaInv, QuotaTypeOK, Becomes
<1>41. PeriodsAreOwned'
  BY DEF QuotaInv, QuotaTypeOK, PeriodsAreOwned, Becomes
<1>5. UsageIsExact'
  BY <1>3 DEF QuotaInv, UsageIsExact
<1>6. AllowedNearLimit'
  <2> SUFFICES ASSUME NEW k \in Periods
               PROVE  \/ made'[k] = 0 /\ Cardinality(PostsIn("write", k)') = 0
                      \/ QuotaHasRoom(k, made[k] + Cardinality(PostsIn("write", k)) - uncounted[k])'
    BY DEF AllowedNearLimit
  <2>1. made[k] \in Nat /\ uncounted[k] \in Nat
    BY DEF QuotaInv, QuotaTypeOK
  <2>2. made' \in [Periods -> Nat] /\ uncounted' \in [Periods -> Nat]
    BY DEF QuotaInv, QuotaTypeOK
  <2> QED
    BY <1>3, <2>1, <2>2, RoomStays
<1> QED
  BY <1>4, <1>41, <1>5, <1>6 DEF QuotaInv

LEMMA CheckKeeps ==
  ASSUME BillingInv, TeamInv, QuotaInv, NEW q \in ScheduleRequests, CheckScheduledPostQuota(q),
         UNCHANGED <<billingVars, teamVars>>
  PROVE  QuotaInv'
<1>1. /\ scheduling[q].pc = "check" /\ UNCHANGED <<event, ledger, workspace>>
      /\ UNCHANGED <<counter, made, uncounted>>
      /\ scheduling \in [ScheduleRequests -> ScheduleRow] /\ scheduling[q] \in ScheduleRow
  BY DEF CheckScheduledPostQuota, QuotaInv, QuotaTypeOK, billingVars, teamVars
<1>2. CASE ~Allowed(q)
  <2>1. Becomes(q, NoScheduling) /\ NoScheduling.pc = "idle"
    BY <1>2 DEF CheckScheduledPostQuota, Becomes, NoScheduling
  <2> QED
    BY <1>1, <2>1, IdleScheduling, OnlyScheduling
<1>3. CASE Allowed(q)
  <2> DEFINE r == [scheduling[q] EXCEPT !.pc = "write"]
  <2>1. Becomes(q, r)
    BY <1>3 DEF CheckScheduledPostQuota, Becomes
  <2>2. PICK n \in Nat, period \in Periods :
          /\ n = scheduling[q].amount /\ period = scheduling[q].period
    BY <1>1, AmountIsNat
  <2>21. workspace[period[1]] # NoWorkspace
    BY <1>1, <2>2 DEF QuotaInv, PeriodsAreOwned
  <2>3. r \in ScheduleRow /\ r.pc = "write" /\ r.period = period /\ r.amount = n
    BY <1>1, <2>2 DEF ScheduleRow
  <2> HIDE DEF r
  <2>4. \A k : /\ Own(r, "record", k) = 0 /\ Own(r, "write", k) = IF k = period THEN n ELSE 0
               /\ Own(scheduling[q], "write", k) = 0 /\ Own(scheduling[q], "record", k) = 0
    BY <1>1, <2>3 DEF Own
  <2>5. ASSUME NEW k
        PROVE  /\ InFlight(k)' = InFlight(k) /\ InFlight(k) \in Nat
               /\ Cardinality(PostsIn("write", k)') \in Nat /\ Cardinality(PostsIn("write", k)) \in Nat
               /\ Cardinality(PostsIn("write", k)')
                    = Cardinality(PostsIn("write", k)) + (IF k = period THEN n ELSE 0)
    <3>1. /\ Cardinality(PostsIn("record", k)) \in Nat /\ Cardinality(PostsIn("record", k)') \in Nat
          /\ Cardinality(PostsIn("record", k)') + Own(scheduling[q], "record", k)
               = Cardinality(PostsIn("record", k)) + Own(r, "record", k)
          /\ Cardinality(PostsIn("write", k)) \in Nat /\ Cardinality(PostsIn("write", k)') \in Nat
          /\ Cardinality(PostsIn("write", k)') + Own(scheduling[q], "write", k)
               = Cardinality(PostsIn("write", k)) + Own(r, "write", k)
      BY <2>1, <2>3, MoveRequest
    <3> QED
      BY <2>2, <2>4, <3>1 DEF InFlight
  <2>6. QuotaTypeOK'
    BY <1>1, <2>1, <2>3 DEF QuotaInv, QuotaTypeOK, Becomes
  <2>61. PeriodsAreOwned'
    BY <1>1, <2>1, <2>2, <2>21, <2>3 DEF QuotaInv, QuotaTypeOK, PeriodsAreOwned, Becomes
  <2>7. UsageIsExact'
    BY <1>1, <2>5 DEF QuotaInv, UsageIsExact
  <2>8. AllowedNearLimit'
    <3> SUFFICES ASSUME NEW k \in Periods
                 PROVE  \/ made'[k] = 0 /\ Cardinality(PostsIn("write", k)') = 0
                        \/ QuotaHasRoom(k, made[k] + Cardinality(PostsIn("write", k)) - uncounted[k])'
      BY DEF AllowedNearLimit
    <3>1. /\ made[k] \in Nat /\ uncounted[k] \in Nat /\ counter[k] \in Nat
          /\ counter[k] + InFlight(k) + uncounted[k] = made[k]
      BY DEF QuotaInv, QuotaTypeOK, UsageIsExact
    <3>2. CASE k # period
      <4>1. made' \in [Periods -> Nat] /\ uncounted' \in [Periods -> Nat]
        BY <1>1 DEF QuotaInv, QuotaTypeOK
      <4> QED
        BY <1>1, <2>5, <3>1, <3>2, <4>1, RoomStays
    <3>3. CASE k = period
      <4> DEFINE o == workspace[k[1]].org
                 after == made[k] + Cardinality(PostsIn("write", k)') - uncounted[k]
      <4>1. o \in Organizations
        BY <2>21, <3>3 DEF Periods, TeamInv, OwnersAreFounded, Founded
      <4>2. /\ SubscriptionStatusAllowsUsage(subscription[o])
            /\ "scheduled_posts_monthly" \in DOMAIN subscription[o].limits =>
                 counter[k] + n <= subscription[o].limits["scheduled_posts_monthly"]
        BY <1>3, <2>2, <3>3 DEF Allowed, OrganizationOf, CheckLimit, WithinLimit
      <4>3. subscription[o].limits \in PlansHad(o)
        BY <4>1, <4>2, SubscribersHavePlans
      <4>4. Cardinality(PostsIn("write", k)) + InFlight(k) <= Overlap
        BY <1>1, OthersFit, PostsInAt DEF InFlight
      <4>5. ASSUME "scheduled_posts_monthly" \in DOMAIN subscription[o].limits
            PROVE  after <= subscription[o].limits["scheduled_posts_monthly"] + Overlap
        <5>1. subscription[o].limits["scheduled_posts_monthly"] \in Nat
          BY <4>1, <4>3, <4>5, LimitsAreNat
        <5> QED
          <6>1. /\ Cardinality(PostsIn("write", k)') = Cardinality(PostsIn("write", k)) + n
                /\ Cardinality(PostsIn("write", k)) \in Nat /\ InFlight(k) \in Nat
            BY <2>5, <3>3
          <6>2. counter[k] + n <= subscription[o].limits["scheduled_posts_monthly"]
            BY <4>2, <4>5
          <6> HIDE DEF o
          <6> QED
            BY <2>2, <3>1, <4>4, <5>1, <6>1, <6>2, OverlapIsNat
      <4>6. QuotaHasRoom(k, after)
        BY <4>3, <4>5 DEF QuotaHasRoom
      <4>7. PlansHad(workspace[k[1]].org)' = PlansHad(workspace[k[1]].org)
        BY <1>1 DEF PlansHad, SubscriptionEvents
      <4> QED
        BY <1>1, <4>6, <4>7 DEF QuotaHasRoom, Overlap
    <3> QED
      BY <3>2, <3>3
  <2> QED
    BY <2>6, <2>61, <2>7, <2>8 DEF QuotaInv
<1> QED
  BY <1>2, <1>3

\* What was written is in flight, and a request that ends was counted or not.
LEMMA WriteKeeps ==
  ASSUME BillingInv, TeamInv, QuotaInv, NEW q \in ScheduleRequests, WritePosts(q),
         UNCHANGED <<billingVars, teamVars>>
  PROVE  QuotaInv'
<1>1. /\ scheduling[q].pc = "write" /\ UNCHANGED <<event, ledger, workspace, counter, uncounted>>
      /\ scheduling \in [ScheduleRequests -> ScheduleRow] /\ scheduling[q] \in ScheduleRow
  BY DEF WritePosts, QuotaInv, QuotaTypeOK, billingVars, teamVars
<1> DEFINE r == [scheduling[q] EXCEPT !.pc = "record"]
<1>2. Becomes(q, r)
  BY <1>1 DEF WritePosts, Becomes
<1>3. PICK n \in Nat, period \in Periods :
        /\ n = scheduling[q].amount /\ period = scheduling[q].period
  BY <1>1, AmountIsNat
<1>4. r \in ScheduleRow /\ r.pc = "record" /\ r.period = period /\ r.amount = n
  BY <1>1, <1>3 DEF ScheduleRow
<1> HIDE DEF r
<1>5. \A k : /\ Own(r, "record", k) = IF k = period THEN n ELSE 0
             /\ Own(r, "write", k) = 0
             /\ Own(scheduling[q], "write", k) = IF k = period THEN n ELSE 0
             /\ Own(scheduling[q], "record", k) = 0
  BY <1>1, <1>3, <1>4 DEF Own
<1>6. /\ made' \in [Periods -> Nat]
      /\ \A k \in Periods : made'[k] = made[k] + (IF k = period THEN n ELSE 0)
  <2>1. made' = [made EXCEPT ![period] = @ + n] /\ made \in [Periods -> Nat]
    BY <1>3 DEF WritePosts, QuotaInv, QuotaTypeOK
  <2> QED
    BY <1>3, <2>1
<1>7. ASSUME NEW k
      PROVE  /\ InFlight(k)' = InFlight(k) + (IF k = period THEN n ELSE 0) /\ InFlight(k) \in Nat
             /\ Cardinality(PostsIn("write", k)') \in Nat /\ Cardinality(PostsIn("write", k)) \in Nat
             /\ Cardinality(PostsIn("write", k)') + (IF k = period THEN n ELSE 0)
                  = Cardinality(PostsIn("write", k))
  <2>1. /\ Cardinality(PostsIn("record", k)) \in Nat /\ Cardinality(PostsIn("record", k)') \in Nat
        /\ Cardinality(PostsIn("record", k)') + Own(scheduling[q], "record", k)
             = Cardinality(PostsIn("record", k)) + Own(r, "record", k)
        /\ Cardinality(PostsIn("write", k)) \in Nat /\ Cardinality(PostsIn("write", k)') \in Nat
        /\ Cardinality(PostsIn("write", k)') + Own(scheduling[q], "write", k)
             = Cardinality(PostsIn("write", k)) + Own(r, "write", k)
    BY <1>2, <1>4, MoveRequest
  <2> QED
    BY <1>3, <1>5, <2>1 DEF InFlight
<1>8. QuotaTypeOK'
  BY <1>1, <1>2, <1>4, <1>6 DEF QuotaInv, QuotaTypeOK, Becomes
<1>81. PeriodsAreOwned'
  <2>1. workspace[period[1]] # NoWorkspace
    BY <1>1, <1>3 DEF QuotaInv, PeriodsAreOwned
  <2> QED
    BY <1>1, <1>2, <1>3, <1>4, <1>6, <2>1 DEF QuotaInv, QuotaTypeOK, PeriodsAreOwned, Becomes
<1>9. UsageIsExact'
  <2> SUFFICES ASSUME NEW k \in Periods
               PROVE  counter[k] + InFlight(k)' + uncounted[k] = made'[k]
    BY <1>1 DEF UsageIsExact
  <2>1. /\ counter[k] \in Nat /\ uncounted[k] \in Nat
        /\ counter[k] + InFlight(k) + uncounted[k] = made[k]
    BY DEF QuotaInv, QuotaTypeOK, UsageIsExact
  <2> QED
    BY <1>3, <1>6, <1>7, <2>1
<1>10. AllowedNearLimit'
  <2> SUFFICES ASSUME NEW k \in Periods
               PROVE  \/ made'[k] = 0 /\ Cardinality(PostsIn("write", k)') = 0
                      \/ QuotaHasRoom(k, made[k] + Cardinality(PostsIn("write", k)) - uncounted[k])'
    BY DEF AllowedNearLimit
  <2>1. made[k] \in Nat /\ uncounted[k] \in Nat /\ uncounted' \in [Periods -> Nat]
    BY <1>1 DEF QuotaInv, QuotaTypeOK
  <2> QED
    BY <1>1, <1>3, <1>6, <1>7, <2>1, RoomStays
<1> QED
  BY <1>8, <1>81, <1>9, <1>10 DEF QuotaInv

LEMMA EndKeeps ==
  ASSUME BillingInv, TeamInv, QuotaInv, NEW q \in ScheduleRequests, RecordScheduledPostUsage(q) \/ RecordFails(q),
         UNCHANGED <<billingVars, teamVars>>
  PROVE  QuotaInv'
<1>1. /\ scheduling[q].pc = "record" /\ UNCHANGED <<event, ledger, workspace, made>>
      /\ scheduling \in [ScheduleRequests -> ScheduleRow] /\ scheduling[q] \in ScheduleRow
      /\ Becomes(q, NoScheduling) /\ NoScheduling \in ScheduleRow
  BY IdleScheduling DEF RecordScheduledPostUsage, RecordFails, QuotaInv, QuotaTypeOK, Becomes,
     billingVars, teamVars
<1>2. PICK n \in Nat, period \in Periods :
        /\ n = scheduling[q].amount /\ period = scheduling[q].period
  BY <1>1, AmountIsNat
<1>3. \A k : /\ Own(scheduling[q], "record", k) = IF k = period THEN n ELSE 0
             /\ Own(scheduling[q], "write", k) = 0
  BY <1>1, <1>2 DEF Own
<1>4. /\ counter' \in [Periods -> Nat] /\ uncounted' \in [Periods -> Nat]
      /\ \A k \in Periods : /\ counter'[k] + uncounted'[k]
                                = counter[k] + uncounted[k] + (IF k = period THEN n ELSE 0)
                           /\ uncounted'[k] >= uncounted[k]
  <2>1. counter \in [Periods -> Nat] /\ uncounted \in [Periods -> Nat]
    BY DEF QuotaInv, QuotaTypeOK
  <2>2. CASE RecordScheduledPostUsage(q)
    <3>1. counter' = [counter EXCEPT ![period] = @ + n] /\ uncounted' = uncounted
      BY <1>2, <2>2 DEF RecordScheduledPostUsage, CountedIn
    <3> QED
      BY <1>2, <2>1, <3>1
  <2>3. CASE RecordFails(q)
    <3>1. uncounted' = [uncounted EXCEPT ![period] = @ + n] /\ counter' = counter
      BY <1>2, <2>3 DEF RecordFails
    <3> QED
      BY <1>2, <2>1, <3>1
  <2> QED
    BY <2>2, <2>3
<1>5. ASSUME NEW k
      PROVE  /\ InFlight(k)' + (IF k = period THEN n ELSE 0) = InFlight(k)
             /\ InFlight(k) \in Nat /\ InFlight(k)' \in Nat
             /\ Cardinality(PostsIn("write", k)') = Cardinality(PostsIn("write", k))
             /\ Cardinality(PostsIn("write", k)) \in Nat
  <2>1. /\ Cardinality(PostsIn("record", k)) \in Nat /\ Cardinality(PostsIn("record", k)') \in Nat
        /\ Cardinality(PostsIn("record", k)') + Own(scheduling[q], "record", k)
             = Cardinality(PostsIn("record", k)) + Own(NoScheduling, "record", k)
        /\ Cardinality(PostsIn("write", k)) \in Nat /\ Cardinality(PostsIn("write", k)') \in Nat
        /\ Cardinality(PostsIn("write", k)') + Own(scheduling[q], "write", k)
             = Cardinality(PostsIn("write", k)) + Own(NoScheduling, "write", k)
    BY <1>1, MoveRequest
  <2> QED
    BY <1>2, <1>3, <2>1, IdleScheduling DEF InFlight
<1>6. QuotaTypeOK'
  BY <1>1, <1>4 DEF QuotaInv, QuotaTypeOK, Becomes
<1>61. PeriodsAreOwned'
  BY <1>1 DEF QuotaInv, QuotaTypeOK, PeriodsAreOwned, Becomes, NoScheduling
<1>7. UsageIsExact'
  <2> SUFFICES ASSUME NEW k \in Periods
               PROVE  counter'[k] + InFlight(k)' + uncounted'[k] = made[k]
    BY <1>1 DEF UsageIsExact
  <2>1. /\ counter[k] \in Nat /\ uncounted[k] \in Nat /\ counter'[k] \in Nat /\ uncounted'[k] \in Nat
        /\ counter[k] + InFlight(k) + uncounted[k] = made[k]
    BY <1>4 DEF QuotaInv, QuotaTypeOK, UsageIsExact
  <2>2. counter'[k] + uncounted'[k] = counter[k] + uncounted[k] + (IF k = period THEN n ELSE 0)
    BY <1>4
  <2>3. /\ InFlight(k)' + (IF k = period THEN n ELSE 0) = InFlight(k)
        /\ InFlight(k) \in Nat /\ InFlight(k)' \in Nat
    BY <1>5
  <2>4. CASE k = period
    BY <1>2, <2>1, <2>2, <2>3, <2>4
  <2>5. CASE k # period
    BY <2>1, <2>2, <2>3, <2>5
  <2> QED
    BY <2>4, <2>5
<1>8. AllowedNearLimit'
  <2> SUFFICES ASSUME NEW k \in Periods
               PROVE  \/ made'[k] = 0 /\ Cardinality(PostsIn("write", k)') = 0
                      \/ QuotaHasRoom(k, made[k] + Cardinality(PostsIn("write", k)) - uncounted[k])'
    BY DEF AllowedNearLimit
  <2>1. /\ made[k] \in Nat /\ uncounted[k] \in Nat /\ uncounted'[k] \in Nat
        /\ made' \in [Periods -> Nat]
    BY <1>1, <1>4 DEF QuotaInv, QuotaTypeOK
  <2> QED
    BY <1>1, <1>4, <1>5, <2>1, RoomStays
<1> QED
  BY <1>6, <1>61, <1>7, <1>8 DEF QuotaInv
LEMMA DeathKeeps ==
  ASSUME BillingInv, TeamInv, QuotaInv, ServerDies,
         UNCHANGED <<billingVars, teamVars>>
  PROVE  QuotaInv'
<1>1. /\ UNCHANGED <<event, ledger, workspace, counter, made>>
      /\ uncounted' = [k \in Periods |-> uncounted[k] + InFlight(k)]
      /\ scheduling' = [q \in ScheduleRequests |-> NoScheduling]
  BY DEF ServerDies, billingVars, teamVars
<1>2. ASSUME NEW k
      PROVE  /\ PostsIn("write", k)' = {} /\ InFlight(k)' = 0
             /\ Cardinality(PostsIn("write", k)') = 0
             /\ Cardinality(PostsIn("write", k)) \in Nat /\ InFlight(k) \in Nat
  <2>1. PostsIn("write", k)' = {} /\ PostsIn("record", k)' = {}
    BY <1>1 DEF PostsIn, NoScheduling
  <2> QED
    BY <2>1, FS_EmptySet, PostsInAt, PostsAreFinite DEF InFlight
<1>3. QuotaTypeOK'
  <2>1. uncounted' \in [Periods -> Nat]
    BY <1>1, <1>2 DEF QuotaInv, QuotaTypeOK
  <2> QED
    BY <1>1, <2>1, IdleScheduling DEF QuotaInv, QuotaTypeOK
<1>31. PeriodsAreOwned'
  BY <1>1 DEF QuotaInv, PeriodsAreOwned, NoScheduling
<1>4. UsageIsExact'
  <2> SUFFICES ASSUME NEW k \in Periods
               PROVE  counter[k] + InFlight(k)' + uncounted'[k] = made[k]
    BY <1>1 DEF UsageIsExact
  <2>1. /\ counter[k] \in Nat /\ uncounted[k] \in Nat
        /\ counter[k] + InFlight(k) + uncounted[k] = made[k]
    BY DEF QuotaInv, QuotaTypeOK, UsageIsExact
  <2>2. uncounted'[k] = uncounted[k] + InFlight(k)
    BY <1>1
  <2> QED
    BY <1>2, <2>1, <2>2
<1>5. AllowedNearLimit'
  <2> SUFFICES ASSUME NEW k \in Periods
               PROVE  \/ made'[k] = 0 /\ Cardinality(PostsIn("write", k)') = 0
                      \/ QuotaHasRoom(k, made[k] + Cardinality(PostsIn("write", k)) - uncounted[k])'
    BY DEF AllowedNearLimit
  <2>1. made[k] \in Nat /\ uncounted[k] \in Nat /\ made' \in [Periods -> Nat]
    BY <1>1 DEF QuotaInv, QuotaTypeOK
  <2>2. uncounted' \in [Periods -> Nat] /\ uncounted'[k] = uncounted[k] + InFlight(k)
    BY <1>1, <1>3 DEF QuotaTypeOK
  <2> QED
    BY <1>1, <1>2, <2>1, <2>2, RoomStays
<1> QED
  BY <1>3, <1>31, <1>4, <1>5 DEF QuotaInv

\* Beside what is scheduled, plans are added and workspaces made.
LEMMA QuotaBeside ==
  ASSUME QuotaInv, UNCHANGED <<counter, scheduling, made, uncounted>>,
         \A k \in Periods : workspace[k[1]] # NoWorkspace =>
           /\ workspace'[k[1]] = workspace[k[1]]
           /\ PlansHad(workspace[k[1]].org) \subseteq PlansHad(workspace[k[1]].org)'
  PROVE  QuotaInv'
<1>1. QuotaTypeOK'
  BY DEF QuotaInv, QuotaTypeOK
<1>2. PeriodsAreOwned'
  BY DEF QuotaInv, PeriodsAreOwned
<1>3. \A pc, k : PostsIn(pc, k)' = PostsIn(pc, k)
  BY DEF PostsIn
<1>4. UsageIsExact'
  BY <1>3 DEF QuotaInv, UsageIsExact, InFlight
<1>5. AllowedNearLimit'
  <2> SUFFICES ASSUME NEW k \in Periods, ~(made[k] = 0 /\ Cardinality(PostsIn("write", k)) = 0)
               PROVE  QuotaHasRoom(k, made[k] + Cardinality(PostsIn("write", k)) - uncounted[k])'
    BY <1>3 DEF AllowedNearLimit
  <2>1. QuotaHasRoom(k, made[k] + Cardinality(PostsIn("write", k)) - uncounted[k])
    BY DEF QuotaInv, AllowedNearLimit
  <2>2. workspace[k[1]] # NoWorkspace
    BY OwnedPeriod
  <2> QED
    BY <1>3, <2>1, <2>2 DEF QuotaHasRoom, Overlap
<1> QED
  BY <1>1, <1>2, <1>4, <1>5 DEF QuotaInv

LEMMA StepQuota ==
  ASSUME BillingInv, TeamInv, QuotaInv, QuotaNext, UNCHANGED <<billingVars, teamVars>>
  PROVE  QuotaInv'
<1>0. UNCHANGED <<event, ledger, workspace>>
  BY DEF billingVars, teamVars
<1>1. ASSUME NEW q \in ScheduleRequests, RequestSchedule(q) PROVE QuotaInv'
  <2>1. PICK k \in Periods, n \in 1..MaxThread :
          /\ workspace[k[1]] # NoWorkspace
          /\ Becomes(q, [pc |-> "check", period |-> k, amount |-> n])
    BY <1>1 DEF RequestSchedule, Becomes
  <2> DEFINE r == [pc |-> "check", period |-> k, amount |-> n]
  <2>2. r \in ScheduleRow /\ r.pc = "check" /\ r.period = k
    <3>1. n \in 0..MaxThread
      BY ScheduledPostsAssumption
    <3> QED
      BY <3>1 DEF ScheduleRow
  <2>3. Becomes(q, r)
    BY <2>1
  <2>4. UNCHANGED <<counter, made, uncounted>> /\ scheduling[q].pc = "idle"
    BY <1>1 DEF RequestSchedule
  <2> HIDE DEF r
  <2> QED
    BY <1>0, <2>1, <2>2, <2>3, <2>4, OnlyScheduling
<1>2. ASSUME NEW q \in ScheduleRequests, WriteFails(q) PROVE QuotaInv'
  BY <1>0, <1>2, IdleScheduling, OnlyScheduling DEF WriteFails, Becomes, NoScheduling
<1>3. CASE NewMonth
  <2>1. \A o : PlansHad(o)' = PlansHad(o)
    BY <1>0 DEF PlansHad, SubscriptionEvents
  <2> QED
    BY <1>0, <1>3, <2>1, QuotaBeside DEF NewMonth
<1> QED
  BY <1>1, <1>2, <1>3, CheckKeeps, WriteKeeps, EndKeeps, DeathKeeps DEF QuotaNext

LEMMA NothingScheduled == QuotaInit => QuotaInv
<1> SUFFICES ASSUME QuotaInit PROVE QuotaInv
  OBVIOUS
<1>1. /\ counter = [k \in Periods |-> 0] /\ made = [k \in Periods |-> 0]
      /\ uncounted = [k \in Periods |-> 0]
      /\ scheduling = [q \in ScheduleRequests |-> NoScheduling]
  BY DEF QuotaInit
<1>2. \A k : PostsIn("write", k) = {} /\ PostsIn("record", k) = {}
  BY <1>1 DEF PostsIn, NoScheduling
<1>3. \A k : Cardinality(PostsIn("write", k)) = 0 /\ InFlight(k) = 0
  BY <1>2, FS_EmptySet DEF InFlight
<1>4. QuotaTypeOK
  BY <1>1, IdleScheduling DEF QuotaTypeOK
<1>5. PeriodsAreOwned
  BY <1>1 DEF PeriodsAreOwned, NoScheduling
<1>6. UsageIsExact
  BY <1>1, <1>3 DEF UsageIsExact
<1>7. AllowedNearLimit
  BY <1>1, <1>3 DEF AllowedNearLimit
<1> QED
  BY <1>4, <1>5, <1>6, <1>7 DEF QuotaInv

LEMMA AllowedMeansNear == BillingInv /\ TeamInv /\ QuotaInv => QuotaSafety
<1> SUFFICES ASSUME BillingInv, TeamInv, QuotaInv, NEW k \in Periods, made[k] # 0
             PROVE  \E limits \in PlansHad(workspace[k[1]].org) :
                      "scheduled_posts_monthly" \in DOMAIN limits =>
                        made[k] <= limits["scheduled_posts_monthly"] + uncounted[k] + Overlap
  BY DEF QuotaInv, QuotaSafety, ScheduledNearLimit, Overlap
<1>1. /\ made[k] \in Nat /\ uncounted[k] \in Nat /\ Cardinality(PostsIn("write", k)) \in Nat
  BY PostsInAt, PostsAreFinite DEF QuotaInv, QuotaTypeOK
<1>2. PICK limits \in PlansHad(workspace[k[1]].org) :
        "scheduled_posts_monthly" \in DOMAIN limits =>
          made[k] + Cardinality(PostsIn("write", k)) - uncounted[k]
            <= limits["scheduled_posts_monthly"] + Overlap
  BY DEF QuotaInv, AllowedNearLimit, QuotaHasRoom
<1>3. workspace[k[1]].org \in Organizations
  BY DEF QuotaInv, PeriodsAreOwned, Periods, TeamInv, OwnersAreFounded, Founded
<1>4. "scheduled_posts_monthly" \in DOMAIN limits => limits["scheduled_posts_monthly"] \in Nat
  BY <1>3, LimitsAreNat
<1> QED
  BY <1>1, <1>2, <1>4, OverlapIsNat

-----------------------------------------------------------------------------
(* The organization *)

OrganizationInv == BillingInv /\ TeamInv /\ QuotaInv

LEMMA NobodyYet == TeamInit => TeamInv
<1> SUFFICES ASSUME TeamInit PROVE TeamInv
  OBVIOUS
<1>1. /\ workspace = [w \in WorkspaceIds |-> NoWorkspace]
      /\ orgMember = [o \in Organizations |-> {}]
      /\ member = [w \in WorkspaceIds |-> [u \in Users |-> "none"]]
      /\ invitation = [i \in InvitationIds |-> NoInvitation]
      /\ request = [q \in TeamRequests |-> NoRequest]
  BY DEF TeamInit
<1>2. NoInvitation \in InvitationRow /\ NoInvitation.status = "none" /\ NoWorkspace \in TeamRow
  BY DEF NoInvitation, InvitationRow, NoWorkspace, TeamRow
<1>3. TeamTypeOK
  BY <1>1, <1>2, IdleTeamRequest DEF TeamTypeOK
<1>4. NoneBefore /\ InvitationsAreWhole /\ RequestsKnow
  BY <1>1, <1>2, IdleTeamRequest DEF NoneBefore, InvitationsAreWhole, RequestsKnow, Answering
<1>5. OwnersAreFounded /\ MembersWereInvited
  BY <1>1 DEF OwnersAreFounded, MembersWereInvited, Members
<1>6. RoomIsKept
  <2> SUFFICES ASSUME NEW o \in Organizations
               PROVE  WorkspacesOf(o) = {} /\ Creating(o) = {}
    BY FS_EmptySet DEF RoomIsKept
  <2> QED
    BY <1>1, IdleTeamRequest, TeamAssumption DEF WorkspacesOf, NoWorkspace, Creating
<1> QED
  BY <1>3, <1>4, <1>5, <1>6 DEF TeamInv

\* A plan that is added leaves every organization the room it had.
LEMMA TeamBesideBilling ==
  ASSUME BillingInv, TeamInv, BillingNext, UNCHANGED teamVars
  PROVE  TeamInv'
<1> USE DEF teamVars, TeamInv
<1>1. TeamTypeOK' /\ NoneBefore' /\ InvitationsAreWhole'
  BY DEF TeamTypeOK, NoneBefore, InvitationsAreWhole
<1>2. RequestsKnow' /\ OwnersAreFounded'
  BY DEF RequestsKnow, OwnersAreFounded, Founded
<1>3. RoomIsKept'
  <2> SUFFICES ASSUME NEW o \in Organizations
               PROVE  /\ IsFiniteSet(WorkspacesOf(o))
                      /\ \/ Creating(o) = {} /\ Cardinality(WorkspacesOf(o)) <= 1
                         \/ HasRoom(o, Cardinality(WorkspacesOf(o)) + Cardinality(Creating(o)))'
    <3>1. \A o : WorkspacesOf(o)' = WorkspacesOf(o) /\ Creating(o)' = Creating(o)
      BY DEF WorkspacesOf, Creating
    <3> QED
      BY <3>1 DEF RoomIsKept
  <2>1. PlansHad(o) \subseteq PlansHad(o)'
    BY PlansGrow
  <2>2. WorkspacesOf(o)' = WorkspacesOf(o) /\ Creating(o)' = Creating(o)
    BY DEF WorkspacesOf, Creating
  <2> QED
    BY <2>1, <2>2 DEF RoomIsKept, HasRoom
<1>4. MembersWereInvited'
  BY DEF MembersWereInvited, Members
<1> QED
  BY <1>1, <1>2, <1>3, <1>4

LEMMA TeamUnchanged ==
  ASSUME TeamInv, UNCHANGED <<billingVars, teamVars>>
  PROVE  TeamInv'
<1> USE DEF teamVars, billingVars, TeamInv
<1>1. TeamTypeOK' /\ NoneBefore' /\ InvitationsAreWhole'
  BY DEF TeamTypeOK, NoneBefore, InvitationsAreWhole
<1>2. RequestsKnow' /\ OwnersAreFounded'
  BY DEF RequestsKnow, OwnersAreFounded, Founded
<1>3. RoomIsKept'
  <2>1. \A o : /\ PlansHad(o)' = PlansHad(o) /\ WorkspacesOf(o)' = WorkspacesOf(o)
               /\ Creating(o)' = Creating(o)
    BY DEF PlansHad, SubscriptionEvents, WorkspacesOf, Creating
  <2> QED
    BY <2>1 DEF RoomIsKept, HasRoom
<1>4. MembersWereInvited'
  BY DEF MembersWereInvited, Members
<1> QED
  BY <1>1, <1>2, <1>3, <1>4

\* A workspace that is there keeps its organization.
LEMMA WorkspacesStay ==
  ASSUME TeamInv, TeamNext
  PROVE  \A w \in WorkspaceIds : workspace[w] # NoWorkspace => workspace'[w] = workspace[w]
<1>1. CASE \E q \in TeamRequests : InsertWorkspace(q)
  <2>1. PICK q \in TeamRequests : InsertWorkspace(q)
    BY <1>1
  <2>2. NewWorkspace \in WorkspaceIds /\ workspace[NewWorkspace] = NoWorkspace
    BY <2>1 DEF InsertWorkspace, NewWorkspace, UnusedWorkspaces
  <2>3. \A w \in WorkspaceIds : w # NewWorkspace => workspace'[w] = workspace[w]
    BY <2>1 DEF InsertWorkspace, TeamInv, TeamTypeOK
  <2> QED
    BY <2>2, <2>3
<1>2. CASE UNCHANGED workspace
  BY <1>2
<1> QED
  BY <1>1, <1>2 DEF TeamNext, StartCreate, StartInvite, CheckMember, CheckPending, CountMembers,
     CountPending, InsertInvitation, ReadInvitation, AcceptInvitation, RevokeInvitation, Expires

LEMMA StepOrganization ==
  ASSUME OrganizationInv, [OrganizationNext]_organizationVars
  PROVE  OrganizationInv'
<1> USE DEF OrganizationInv
<1>0. ASSUME NEW k \in Periods, workspace[k[1]] # NoWorkspace
      PROVE  workspace[k[1]].org \in Organizations /\ k[1] \in WorkspaceIds
  BY <1>0 DEF Periods, TeamInv, OwnersAreFounded, Founded
<1>1. CASE BillingNext /\ UNCHANGED <<teamVars, quotaVars>>
  <2>1. BillingInv' /\ TeamInv'
    BY <1>1, StepBilling, TeamBesideBilling
  <2>2. QuotaInv'
    <3>1. \A o \in Organizations : PlansHad(o) \subseteq PlansHad(o)'
      BY <1>1, PlansGrow
    <3>2. UNCHANGED <<counter, scheduling, made, uncounted>> /\ UNCHANGED workspace
      BY <1>1 DEF quotaVars, teamVars
    <3> QED
      BY <1>0, <3>1, <3>2, QuotaBeside
  <2> QED
    BY <2>1, <2>2
<1>2. CASE TeamNext /\ UNCHANGED <<billingVars, quotaVars>>
  <2>1. BillingInv' /\ TeamInv'
    BY <1>2, BillingUnchanged, StepTeam DEF billingVars
  <2>2. \A o : PlansHad(o)' = PlansHad(o)
    BY <1>2 DEF PlansHad, SubscriptionEvents, billingVars
  <2>3. UNCHANGED <<counter, scheduling, made, uncounted>>
    BY <1>2 DEF quotaVars
  <2> QED
    BY <1>0, <1>2, <2>1, <2>2, <2>3, WorkspacesStay, QuotaBeside
<1>3. CASE QuotaNext /\ UNCHANGED <<billingVars, teamVars>>
  BY <1>3, BillingUnchanged, TeamUnchanged, StepQuota DEF billingVars
<1>4. CASE UNCHANGED organizationVars
  <2>1. BillingInv' /\ TeamInv'
    BY <1>4, BillingUnchanged, TeamUnchanged DEF organizationVars, billingVars
  <2>2. /\ \A o : PlansHad(o)' = PlansHad(o)
        /\ UNCHANGED <<counter, scheduling, made, uncounted>> /\ UNCHANGED workspace
    BY <1>4 DEF PlansHad, SubscriptionEvents, organizationVars, billingVars, teamVars, quotaVars
  <2> QED
    BY <2>1, <2>2, QuotaBeside
<1> QED
  BY <1>1, <1>2, <1>3, <1>4 DEF OrganizationNext

\* From nothing, whatever is bought, made, scheduled and delivered (BillingNext,
\* TeamNext and QuotaNext at any time).
LEMMA OrganizationInvariant == OrganizationSpec => []OrganizationInv
<1>1. OrganizationInit => OrganizationInv
  BY InitBilling, NobodyYet, NothingScheduled DEF OrganizationInit, OrganizationInv
<1>2. OrganizationInv /\ [OrganizationNext]_organizationVars => OrganizationInv'
  BY StepOrganization
<1> QED
  BY <1>1, <1>2, PTL DEF OrganizationSpec

\* Everybody in a workspace made it or accepted an invitation to it for that
\* address and role, and the second workspace of an organization, and those
\* after it, are within what one of the plans it has had allowed and the
\* requests that were checked beside another: for any plans that change at any
\* time, any organizations, users and requests (CreateWorkspace,
\* AcceptWorkspaceInvitation, ProcessPolarWebhook).
THEOREM TeamSafetyHolds == OrganizationSpec => []TeamSafety
<1>1. OrganizationInv => TeamSafety
  BY RoomMeansNear DEF OrganizationInv, TeamInv, TeamSafety
<1> QED
  BY <1>1, OrganizationInvariant, PTL

\* Every scheduled post is counted once, in its workspace and month, but for
\* those of requests under way, failed or dead, and what a workspace schedules
\* for a month is within what one of the plans of its organization allowed, the
\* requests that were checked at once and the posts never counted: for any plans
\* that change at any time, any workspaces, months, requests and lengths of
\* threads (checkScheduledPostEntitlement, IncrementMonthly).
THEOREM QuotaSafetyHolds == OrganizationSpec => []QuotaSafety
<1>1. OrganizationInv => QuotaSafety
  BY AllowedMeansNear DEF OrganizationInv
<1> QED
  BY <1>1, OrganizationInvariant, PTL

\* When the events of all subscriptions were recorded in the order in which
\* they were sent, the organization has what the provider has: for any plans,
\* any number of events, redeliveries and failures (UpsertSubscription).
THEOREM InOrderIsCaughtUpHolds == OrganizationSpec => []InOrderIsCaughtUp
<1>1. OrganizationInv => InOrderIsCaughtUp
  BY CaughtUp DEF OrganizationInv
<1> QED
  BY <1>1, OrganizationInvariant, PTL

-----------------------------------------------------------------------------
(* Posting times *)

ScheduleLine == [day    : 0..WeekLength - 1,
                 minute : 0..DayLength - 1,
                 set    : Sets \cup {AnySet},
                 active : BOOLEAN,
                 exists : BOOLEAN]
SlotPostRow == [status : {"none", "told", "scheduled"}, at : Nat, stale : BOOLEAN]
ReaderRow == [pc : {"idle", "write"}, id : ScheduleIds \cup {"none"}, was : ScheduleLine]

SlotTypeOK ==
  /\ schedule \in [ScheduleIds -> ScheduleLine]
  /\ clock \in Nat
  /\ slotPost \in [SlotPosts -> SlotPostRow]
  /\ reader \in [Editors -> ReaderRow]

\* An answer whose minute was taken since is stale.
TakenIsStale ==
  \A p, q \in SlotPosts :
    /\ slotPost[p].status = "scheduled" /\ slotPost[q].status = "told"
    /\ slotPost[p].at = slotPost[q].at
    => slotPost[q].stale

SlotInv == SlotTypeOK /\ TakenIsStale /\ ScheduledPostsKeepApart

-----------------------------------------------------------------------------
LEMMA LeastNatural ==
  ASSUME NEW S \in SUBSET Nat, S # {}
  PROVE  \E x \in S : \A y \in S : x <= y
<1> DEFINE R == {p \in Nat \X Nat : p[1] < p[2]}
<1>1. IsWellFoundedOn(R, Nat)
  BY NatLessThanWellFounded DEF OpToRel
<1>2. \E x \in S : \A y \in S : ~(<<y, x>> \in R)
  <2> HIDE DEF R
  <2> QED
    BY <1>1, WFMin
<1>3. PICK x \in S : \A y \in S : ~(<<y, x>> \in R)
  BY <1>2
<1>4. ASSUME NEW y \in S PROVE x <= y
  <2>1. x \in Nat /\ y \in Nat
    OBVIOUS
  <2>2. ~(y < x)
    BY <1>3, <2>1
  <2> QED
    BY <2>1, <2>2
<1> QED
  BY <1>4

LEMMA MinIsLeast ==
  ASSUME NEW S \in SUBSET Nat, S # {}
  PROVE  Min(S) \in S /\ \A y \in S : Min(S) <= y
  BY LeastNatural DEF Min

\* Days and minutes of a time.
LEMMA DaysAreNat == DayLength \in Nat /\ DayLength > 0 /\ LookAhead \in Nat /\ WeekLength \in Nat
  BY ScheduleAssumption

LEMMA Division ==
  ASSUME NEW t \in Nat
  PROVE  /\ Day(t) \in Nat /\ t % DayLength \in 0..DayLength - 1
         /\ t = Day(t) * DayLength + (t % DayLength)
<1> DEFINE q == t \div DayLength
           r == t % DayLength
<1>1. q \in Nat /\ r \in Nat /\ r < DayLength
  BY DaysAreNat
<1>2. t = q * DayLength + r
  BY DaysAreNat
<1>3. Day(t) = q
  BY DEF Day
<1>4. q \in Nat /\ r \in 0..DayLength - 1
  BY <1>1, DaysAreNat
<1> HIDE DEF q
<1>5. Day(t) \in Nat /\ t = Day(t) * DayLength + r
  BY <1>2, <1>3, <1>4
<1> QED
  BY <1>4, <1>5

LEMMA TimeOfDay ==
  ASSUME NEW d \in Nat, NEW m \in 0..DayLength - 1
  PROVE  /\ d * DayLength + m \in Nat
         /\ Day(d * DayLength + m) = d /\ (d * DayLength + m) % DayLength = m
  BY DaysAreNat DEF Day

LEMMA EarlierDay ==
  ASSUME NEW t \in Nat, NEW u \in Nat, Day(t) < Day(u)
  PROVE  t < u
  BY DaysAreNat DEF Day

LEMMA WithinDays ==
  ASSUME NEW t \in Nat, NEW n \in Nat
  PROVE  Day(t) <= n - 1 <=> t <= n * DayLength - 1
  BY DaysAreNat DEF Day

-----------------------------------------------------------------------------
\* The candidates of a day are the free minutes of that day.
LEMMA CandidatesAreFree ==
  ASSUME SlotTypeOK, NEW which
  PROVE  /\ \A t \in FreeMinutes(which) :
              /\ Day(t) \in Day(clock)..Day(clock) + LookAhead - 1
              /\ t \in Candidates(which, Day(t))
         /\ \A d \in Day(clock)..Day(clock) + LookAhead - 1 :
              \A t \in Candidates(which, d) : t \in FreeMinutes(which) /\ Day(t) = d
         /\ FreeMinutes(which) \subseteq Nat
<1>1. /\ clock \in Nat /\ Day(clock) \in Nat /\ LookAhead \in Nat /\ DayLength \in Nat
      /\ Day(clock) + LookAhead \in Nat
  BY Division, DaysAreNat DEF SlotTypeOK
<1>2. FreeMinutes(which) \subseteq Nat
  BY <1>1 DEF FreeMinutes
<1>3. \A t : (\A p \in SlotPosts : slotPost[p].status = "scheduled" => slotPost[p].at # t)
               <=> ~IsSlotOccupied(t)
  BY DEF IsSlotOccupied
<1>4. ASSUME NEW t \in FreeMinutes(which)
      PROVE  /\ Day(t) \in Day(clock)..Day(clock) + LookAhead - 1
             /\ t \in Candidates(which, Day(t))
  <2>1. PICK s \in Asked(which) :
          schedule[s].day = Day(t) % WeekLength /\ schedule[s].minute = t % DayLength
    BY DEF FreeMinutes
  <2>2. /\ t \in Nat /\ t > clock /\ ~IsSlotOccupied(t)
        /\ t <= (Day(clock) + LookAhead) * DayLength - 1
    <3>1. PICK n \in Int : n = (Day(clock) + LookAhead) * DayLength - 1
      BY <1>1
    <3>2. t \in clock + 1..n
      BY <3>1 DEF FreeMinutes
    <3> QED
      BY <1>1, <1>2, <1>3, <3>1, <3>2 DEF FreeMinutes
  <2>3. Day(t) \in Nat /\ Day(t) <= Day(clock) + LookAhead - 1
    <3>1. PICK n \in Nat : n = Day(clock) + LookAhead
      BY <1>1
    <3>2. t <= n * DayLength - 1
      BY <2>2, <3>1
    <3>3. Day(t) <= n - 1
      BY <2>2, <3>2, WithinDays
    <3> QED
      BY <1>1, <2>2, <3>1, <3>3, Division
  <2>4. ~(Day(t) < Day(clock))
    BY <1>1, <2>2, EarlierDay
  <2>5. SlotTime(s, Day(t)) = t
    <3>1. t = Day(t) * DayLength + (t % DayLength)
      BY <2>2, Division
    <3>2. SlotTime(s, Day(t)) = Day(t) * DayLength + (t % DayLength)
      BY <2>1 DEF SlotTime
    <3> QED
      BY <3>1, <3>2
  <2>6. s \in {x \in Asked(which) : schedule[x].day = Day(t) % WeekLength}
    BY <2>1
  <2>7. t \in Candidates(which, Day(t))
    BY <2>2, <2>5, <2>6 DEF Candidates
  <2> QED
    BY <1>1, <2>3, <2>4, <2>7
<1>5. ASSUME NEW d \in Day(clock)..Day(clock) + LookAhead - 1, NEW t \in Candidates(which, d)
      PROVE  t \in FreeMinutes(which) /\ Day(t) = d
  <2>1. d \in Nat /\ d <= Day(clock) + LookAhead - 1
    BY <1>1
  <2>2. PICK s \in Asked(which) : schedule[s].day = d % WeekLength /\ t = SlotTime(s, d)
    BY DEF Candidates
  <2>3. t > clock /\ ~IsSlotOccupied(t)
    BY DEF Candidates
  <2>4. PICK m \in 0..DayLength - 1 : m = schedule[s].minute
    BY DEF SlotTypeOK, ScheduleLine, Asked
  <2>5. t = d * DayLength + m
    BY <2>2, <2>4 DEF SlotTime
  <2>6. t \in Nat /\ Day(t) = d /\ t % DayLength = m
    BY <2>1, <2>5, TimeOfDay
  <2>7. t <= (Day(clock) + LookAhead) * DayLength - 1
    BY <1>1, <2>1, <2>6, WithinDays
  <2>8. PICK n \in Int : n = (Day(clock) + LookAhead) * DayLength - 1
    BY <1>1
  <2>9. t \in clock + 1..n
    BY <1>1, <2>3, <2>6, <2>7, <2>8
  <2> QED
    BY <1>3, <2>2, <2>3, <2>4, <2>6, <2>8, <2>9 DEF FreeMinutes
<1> QED
  BY <1>2, <1>4, <1>5

LEMMA SearchIsRight == SlotTypeOK => NextSlotIsEarliest
<1> SUFFICES ASSUME SlotTypeOK, NEW which \in Sets \cup {AnySet}
             PROVE  IF FreeMinutes(which) = {} THEN NextSlot(which) = {}
                    ELSE NextSlot(which) = {Min(FreeMinutes(which))}
  BY DEF NextSlotIsEarliest
<1> DEFINE days == {d \in Day(clock)..Day(clock) + LookAhead - 1 : Candidates(which, d) # {}}
<1>1. NextSlot(which) = IF days = {} THEN {} ELSE {Min(Candidates(which, Min(days)))}
  BY DEF NextSlot
<1>2. days \in SUBSET Nat
  BY Division, DaysAreNat DEF SlotTypeOK
<1>3. CASE FreeMinutes(which) = {}
  BY <1>1, <1>3, CandidatesAreFree
<1>4. CASE FreeMinutes(which) # {}
  <2>1. \A t \in FreeMinutes(which) : Day(t) \in days /\ t \in Candidates(which, Day(t))
    BY CandidatesAreFree
  <2>2. \A d \in days : \A t \in Candidates(which, d) : t \in FreeMinutes(which) /\ Day(t) = d
    BY CandidatesAreFree
  <2>3. FreeMinutes(which) \in SUBSET Nat
    BY CandidatesAreFree
  <2>4. \A d \in days : Candidates(which, d) # {}
    OBVIOUS
  <2> HIDE DEF days
  <2>5. days # {}
    BY <1>4, <2>1
  <2>6. PICK m \in days : m = Min(days) /\ \A d \in days : m <= d
    BY <1>2, <2>5, MinIsLeast
  <2>7. Candidates(which, m) \in SUBSET Nat /\ Candidates(which, m) # {}
    BY <2>2, <2>3, <2>4
  <2>8. PICK x \in Candidates(which, m) :
          x = Min(Candidates(which, m)) /\ \A y \in Candidates(which, m) : x <= y
    BY <2>7, MinIsLeast
  <2>9. x \in FreeMinutes(which) /\ Day(x) = m
    BY <2>2
  <2>10. ASSUME NEW y \in FreeMinutes(which) PROVE x <= y
    <3>1. Day(y) \in days /\ y \in Candidates(which, Day(y)) /\ x \in Nat /\ y \in Nat
      BY <2>1, <2>3, <2>9
    <3>2. m \in Nat /\ Day(y) \in Nat /\ m <= Day(y)
      BY <1>2, <2>6, <3>1
    <3>3. CASE Day(y) = m
      BY <2>8, <3>1, <3>3
    <3>4. CASE m < Day(y)
      BY <2>9, <3>1, <3>4, EarlierDay
    <3> QED
      BY <3>2, <3>3, <3>4
  <2>11. Min(FreeMinutes(which)) \in FreeMinutes(which)
         /\ \A y \in FreeMinutes(which) : Min(FreeMinutes(which)) <= y
    BY <1>4, <2>3, MinIsLeast
  <2>12. x = Min(FreeMinutes(which))
    BY <2>3, <2>9, <2>10, <2>11
  <2> QED
    BY <1>1, <1>4, <2>5, <2>6, <2>8, <2>12
<1> QED
  BY <1>3, <1>4

\* An answer of the search is a minute to come that no post has.
LEMMA AnswerIsFree ==
  ASSUME SlotTypeOK, NEW which \in Sets \cup {AnySet}, NEW t \in NextSlot(which)
  PROVE  t \in Nat /\ ~IsSlotOccupied(t)
<1>1. FreeMinutes(which) # {} /\ t = Min(FreeMinutes(which))
  BY SearchIsRight DEF NextSlotIsEarliest
<1>2. FreeMinutes(which) \in SUBSET Nat
  BY CandidatesAreFree
<1>3. t \in FreeMinutes(which)
  BY <1>1, <1>2, MinIsLeast
<1> QED
  BY <1>2, <1>3 DEF FreeMinutes, IsSlotOccupied

LEMMA FirstSlots == SchedulesInit => SlotInv
<1> SUFFICES ASSUME SchedulesInit PROVE SlotInv
  OBVIOUS
<1>1. NoSchedule \in ScheduleLine
  BY ScheduleAssumption DEF NoSchedule, ScheduleLine
<1>2. NoReader \in ReaderRow
  BY <1>1 DEF NoReader, ReaderRow
<1>3. NoPost \in SlotPostRow /\ NoPost.status = "none"
  BY DEF NoPost, SlotPostRow
<1> QED
  BY <1>1, <1>2, <1>3 DEF SchedulesInit, SlotInv, SlotTypeOK, TakenIsStale, ScheduledPostsKeepApart

\* Steps that leave the posts of slots alone.
LEMMA PostsKeep ==
  ASSUME SlotInv, SlotTypeOK', UNCHANGED slotPost
  PROVE  SlotInv'
  BY DEF SlotInv, TakenIsStale, ScheduledPostsKeepApart

LEMMA NewRow ==
  ASSUME NEW d \in 0..WeekLength - 1, NEW m \in 0..DayLength - 1, NEW which \in Sets \cup {AnySet}
  PROVE  Row(d, m, which) \in ScheduleLine
  BY DEF Row, ScheduleLine

LEMMA UpdatedRow ==
  ASSUME NEW was \in ScheduleLine
  PROVE  /\ [was EXCEPT !.active = ~@] \in ScheduleLine
         /\ [was EXCEPT !.minute = (@ + 1) % DayLength] \in ScheduleLine
         /\ [was EXCEPT !.day = (@ + 1) % WeekLength] \in ScheduleLine
<1>1. PICK m \in Int : m = (was.minute + 1) % DayLength
  BY ScheduleAssumption DEF ScheduleLine
<1>2. PICK d \in Int : d = (was.day + 1) % WeekLength
  BY ScheduleAssumption DEF ScheduleLine
<1>3. m \in 0..DayLength - 1 /\ d \in 0..WeekLength - 1
  BY <1>1, <1>2, ScheduleAssumption DEF ScheduleLine
<1>4. [was EXCEPT !.active = ~@] \in ScheduleLine
  BY DEF ScheduleLine
<1>5. [was EXCEPT !.minute = m] \in ScheduleLine
  BY <1>3 DEF ScheduleLine
<1>6. [was EXCEPT !.day = d] \in ScheduleLine
  BY <1>3 DEF ScheduleLine
<1> QED
  BY <1>1, <1>2, <1>4, <1>5, <1>6

LEMMA StepSlots ==
  ASSUME SlotInv, SchedulesNext \/ UNCHANGED scheduleVars
  PROVE  SlotInv'
<1> USE DEF SlotTypeOK
<1>0. SlotTypeOK
  BY DEF SlotInv
<1>1. CASE CreateSchedule
  <2>1. PICK d \in 0..WeekLength - 1, m \in 0..DayLength - 1, which \in Sets \cup {AnySet} :
          schedule' = [schedule EXCEPT ![CHOOSE s \in Free : TRUE] = Row(d, m, which)]
    BY <1>1 DEF CreateSchedule
  <2> DEFINE line == Row(d, m, which)
  <2>2. line \in ScheduleLine
    BY NewRow
  <2> HIDE DEF line
  <2>3. schedule' \in [ScheduleIds -> ScheduleLine]
    BY <1>0, <2>1, <2>2 DEF line
  <2> QED
    BY <1>0, <1>1, <2>3, PostsKeep DEF CreateSchedule
<1>2. CASE SuggestSchedule
  <2> DEFINE new == CHOOSE f \in [0..WeekLength - 1 -> Free] :
                      \A c, d \in 0..WeekLength - 1 : f[c] = f[d] => c = d
  <2>1. PICK m \in 0..DayLength - 1 :
          schedule' = [s \in ScheduleIds |->
             IF \E d \in 0..WeekLength - 1 : new[d] = s
             THEN Row(CHOOSE d \in 0..WeekLength - 1 : new[d] = s, m, AnySet)
             ELSE schedule[s]]
    BY <1>2 DEF SuggestSchedule
  <2> HIDE DEF new
  <2>2. ASSUME NEW s \in ScheduleIds PROVE schedule'[s] \in ScheduleLine
    <3>1. CASE \E d \in 0..WeekLength - 1 : new[d] = s
      <4>1. PICK c \in 0..WeekLength - 1 : c = CHOOSE d \in 0..WeekLength - 1 : new[d] = s
        BY <3>1
      <4>2. Row(c, m, AnySet) \in ScheduleLine
        BY <2>1, NewRow
      <4> QED
        BY <2>1, <3>1, <4>1, <4>2
    <3>2. CASE ~\E d \in 0..WeekLength - 1 : new[d] = s
      BY <1>0, <2>1, <3>2
    <3> QED
      BY <3>1, <3>2
  <2>3. schedule' \in [ScheduleIds -> ScheduleLine]
    BY <2>1, <2>2
  <2> QED
    BY <1>0, <1>2, <2>3, PostsKeep DEF SuggestSchedule
<1>3. CASE Tick
  BY <1>0, <1>3, PostsKeep DEF Tick
<1>4. ASSUME NEW e \in Editors, ReadSchedule(e) PROVE SlotInv'
  <2>1. PICK s \in ScheduleIds :
          reader' = [reader EXCEPT ![e] = [pc |-> "write", id |-> s, was |-> schedule[s]]]
    BY <1>4 DEF ReadSchedule, Free
  <2>2. [pc |-> "write", id |-> s, was |-> schedule[s]] \in ReaderRow
    BY <1>0 DEF ReaderRow
  <2> QED
    BY <1>0, <1>4, <2>1, <2>2, PostsKeep DEF ReadSchedule
<1>5. ASSUME NEW e \in Editors, UpdateSchedule(e) PROVE SlotInv'
  <2>1. reader[e].was \in ScheduleLine
    BY <1>0 DEF ReaderRow
  <2>2. PICK new \in {[reader[e].was EXCEPT !.active = ~@],
                      [reader[e].was EXCEPT !.minute = (@ + 1) % DayLength],
                      [reader[e].was EXCEPT !.day = (@ + 1) % WeekLength]} :
          schedule' = [schedule EXCEPT ![reader[e].id] = IF @.exists THEN new ELSE @]
    BY <1>5 DEF UpdateSchedule
  <2> DEFINE was == reader[e].was
  <2>5. was \in ScheduleLine
    BY <2>1
  <2> HIDE DEF was
  <2>6. new \in ScheduleLine
    BY <2>2, <2>5, UpdatedRow DEF was
  <2>3. schedule' \in [ScheduleIds -> ScheduleLine]
    BY <1>0, <2>2, <2>6
  <2>4. NoReader \in ReaderRow
    BY ScheduleAssumption DEF NoReader, ReaderRow, NoSchedule, ScheduleLine
  <2> QED
    BY <1>0, <1>5, <2>3, <2>4, PostsKeep DEF UpdateSchedule
<1>6. ASSUME NEW s \in ScheduleIds, DeleteSchedule(s) PROVE SlotInv'
  <2>1. NoSchedule \in ScheduleLine
    BY ScheduleAssumption DEF NoSchedule, ScheduleLine
  <2> QED
    BY <1>0, <1>6, <2>1, PostsKeep DEF DeleteSchedule
<1>7. ASSUME NEW p \in SlotPosts, AskSlot(p) PROVE SlotInv'
  <2>1. PICK which \in Sets \cup {AnySet} : \E t \in NextSlot(which) :
          slotPost' = [slotPost EXCEPT ![p] = [status |-> "told", at |-> t, stale |-> FALSE]]
    BY <1>7 DEF AskSlot
  <2>2. PICK t \in NextSlot(which) :
          slotPost' = [slotPost EXCEPT ![p] = [status |-> "told", at |-> t, stale |-> FALSE]]
    BY <2>1
  <2>3. t \in Nat /\ ~IsSlotOccupied(t)
    BY <1>0, AnswerIsFree
  <2>4. SlotTypeOK'
    BY <1>0, <1>7, <2>2, <2>3 DEF AskSlot, SlotPostRow
  <2>5. TakenIsStale' /\ ScheduledPostsKeepApart'
    BY <1>0, <2>2, <2>3 DEF SlotInv, TakenIsStale, ScheduledPostsKeepApart, IsSlotOccupied
  <2> QED
    BY <2>4, <2>5 DEF SlotInv
<1>8. ASSUME NEW p \in SlotPosts, TakeSlot(p) PROVE SlotInv'
  <2>1. ASSUME NEW q \in SlotPosts
        PROVE  /\ slotPost'[q] \in SlotPostRow
               /\ slotPost'[q].at = slotPost[q].at
               /\ slotPost[q].stale => slotPost'[q].stale
               /\ slotPost'[q].status = IF q = p THEN "scheduled" ELSE slotPost[q].status
               /\ slotPost'[q].status = "told" => slotPost'[q].stale
    BY <1>0, <1>8 DEF TakeSlot, SlotPostRow
  <2>2. SlotTypeOK'
    BY <1>0, <1>8, <2>1 DEF TakeSlot
  <2>3. TakenIsStale'
    BY <2>1 DEF TakenIsStale
  <2>4. slotPost[p].status = "told"
    BY <1>8 DEF TakeSlot
  <2>5. ScheduledPostsKeepApart'
    BY <2>1, <2>4 DEF SlotInv, TakenIsStale, ScheduledPostsKeepApart
  <2> QED
    BY <2>2, <2>3, <2>5 DEF SlotInv
<1>9. ASSUME NEW p \in SlotPosts, SlotPostEnds(p) PROVE SlotInv'
  <2>1. NoPost \in SlotPostRow /\ NoPost.status = "none"
    BY DEF NoPost, SlotPostRow
  <2>2. slotPost' = [slotPost EXCEPT ![p] = NoPost]
    BY <1>9 DEF SlotPostEnds
  <2> QED
    BY <1>0, <1>9, <2>1, <2>2 DEF SlotPostEnds, SlotInv, TakenIsStale, ScheduledPostsKeepApart
<1>10. CASE UNCHANGED scheduleVars
  BY <1>0, <1>10, PostsKeep DEF scheduleVars
<1> QED
  BY <1>1, <1>2, <1>3, <1>4, <1>5, <1>6, <1>7, <1>8, <1>9, <1>10 DEF SchedulesNext

-----------------------------------------------------------------------------
\* The search for a slot finds the earliest free minute, and two posts wait for
\* one minute only when one of them took an answer that another had made stale.
THEOREM SlotSafetyHolds == WorkspaceSpec => []SlotSafety
<1>1. WorkspaceInit => SlotInv
  BY FirstSlots DEF WorkspaceInit
<1>2. SlotInv /\ [WorkspaceNext]_workspaceVars => SlotInv'
  <2> SUFFICES ASSUME SlotInv, [WorkspaceNext]_workspaceVars PROVE SlotInv'
    OBVIOUS
  <2>1. CASE Team
    BY <2>1, StepSlots DEF Team
  <2>2. CASE Media
    BY <2>2, StepSlots DEF Media
  <2>3. CASE Settings
    BY <2>3, StepSlots DEF Settings
  <2>4. CASE UNCHANGED workspaceVars
    BY <2>4, StepSlots DEF workspaceVars
  <2> QED
    BY <2>1, <2>2, <2>3, <2>4 DEF WorkspaceNext
<1>3. SlotInv => SlotSafety
  BY SearchIsRight DEF SlotInv, SlotSafety
<1> QED
  BY <1>1, <1>2, <1>3, PTL DEF WorkspaceSpec

-----------------------------------------------------------------------------
(* Media: how they get in *)

MediumRow == [status   : {"none", "gone", "processing", "failed", "ready"},
              hash     : Hashes \cup {"none", "pending"},
              favorite : BOOLEAN,
              old      : BOOLEAN]
UploadPcs == {"idle", "save", "insert", "count", "reserve", "read", "search", "finalize",
              "drop file", "drop row"}
UploadRow == [pc : UploadPcs, m : MediaIds \cup {"none"}, hash : Hashes \cup {"none"}]

FilesTypeOK ==
  /\ row \in [MediaIds -> MediumRow]
  /\ object \in [MediaIds -> Hashes \cup {"none"}]

\* A file that a request saved or read is still there, or was told to be deleted.
FileInHand(u) ==
  /\ upload[u].pc = "save" => upload[u].hash \in Hashes
  /\ upload[u].pc \in {"insert", "read", "search", "finalize"} => upload[u].m \in MediaIds
  /\ upload[u].pc \in {"insert", "search", "finalize"} =>
       object[upload[u].m] # "none" \/ upload[u].m \in removing

\* StoredNearLimit with the requests that were allowed one file more.
Reserving == {u \in MediaRequests : upload[u].pc \in {"save", "insert", "reserve"}}

StoredRoom ==
  /\ IsFiniteSet(Stored)
  /\ Cardinality(Stored) + Cardinality(Reserving) <= StoredLimit + Cardinality(MediaRequests) - 1

NothingAttached ==
  attached = [p \in MediaPosts |-> {}] /\ inVariant = [p \in MediaPosts |-> {}]

UploadInv ==
  /\ FilesTypeOK
  /\ upload \in [MediaRequests -> UploadRow]
  /\ \A u \in MediaRequests : FileInHand(u)
  /\ ReadyMediaHasFile /\ StoredRoom /\ NothingAttached

-----------------------------------------------------------------------------
LEMMA ReservingIsFinite ==
  /\ IsFiniteSet(Reserving) /\ Cardinality(Reserving) \in Nat
  /\ Cardinality(MediaRequests) \in Nat /\ Cardinality(MediaRequests) >= 1
  /\ StoredLimit \in Nat
<1>1. Reserving \in SUBSET MediaRequests /\ IsFiniteSet(MediaRequests) /\ MediaRequests # {}
  BY UploadAssumption DEF Reserving
<1>2. IsFiniteSet(Reserving)
  BY <1>1, FS_Subset
<1>3. Cardinality(Reserving) \in Nat /\ Cardinality(MediaRequests) \in Nat
  BY <1>1, <1>2, FS_CardinalityType
<1>4. Cardinality(MediaRequests) # 0
  BY <1>1, FS_EmptySet
<1> QED
  BY <1>2, <1>3, <1>4, UploadAssumption

LEMMA RoomIsNear == StoredRoom => StoredNearLimit
<1> SUFFICES ASSUME StoredRoom PROVE StoredNearLimit
  OBVIOUS
<1>1. Cardinality(Stored) \in Nat
  BY FS_CardinalityType DEF StoredRoom
<1> QED
  BY <1>1, ReservingIsFinite DEF StoredRoom, StoredNearLimit

\* A step that stores and allows nothing new.
LEMMA RoomShrinks ==
  ASSUME StoredRoom, Stored' \subseteq Stored, Reserving' \subseteq Reserving
  PROVE  StoredRoom'
<1>1. /\ IsFiniteSet(Stored') /\ Cardinality(Stored') <= Cardinality(Stored)
      /\ IsFiniteSet(Reserving') /\ Cardinality(Reserving') <= Cardinality(Reserving)
  BY FS_Subset, ReservingIsFinite DEF StoredRoom
<1>2. /\ Cardinality(Stored) \in Nat /\ Cardinality(Stored') \in Nat
      /\ Cardinality(Reserving') \in Nat
  BY <1>1, FS_CardinalityType DEF StoredRoom
<1> QED
  BY <1>1, <1>2, ReservingIsFinite DEF StoredRoom

\* A request that was allowed a file stores it.
LEMMA RoomMoves ==
  ASSUME StoredRoom, NEW u \in Reserving, NEW m,
         Stored' \subseteq Stored \cup {m}, Reserving' \subseteq Reserving \ {u}
  PROVE  StoredRoom'
<1>1. /\ IsFiniteSet(Stored \cup {m})
      /\ Cardinality(Stored \cup {m}) <= Cardinality(Stored) + 1
  <2>1. IsFiniteSet(Stored)
    BY DEF StoredRoom
  <2>2. /\ IsFiniteSet(Stored \cup {m})
        /\ Cardinality(Stored \cup {m}) = IF m \in Stored THEN Cardinality(Stored)
                                           ELSE Cardinality(Stored) + 1
    BY <2>1, FS_AddElement
  <2>3. Cardinality(Stored) \in Nat
    BY <2>1, FS_CardinalityType
  <2> QED
    BY <2>2, <2>3
<1>2. /\ IsFiniteSet(Reserving \ {u})
      /\ Cardinality(Reserving \ {u}) = Cardinality(Reserving) - 1
  BY ReservingIsFinite, FS_RemoveElement
<1>3. /\ IsFiniteSet(Stored') /\ Cardinality(Stored') <= Cardinality(Stored \cup {m})
      /\ IsFiniteSet(Reserving') /\ Cardinality(Reserving') <= Cardinality(Reserving \ {u})
  BY <1>1, <1>2, FS_Subset
<1>4. /\ Cardinality(Stored) \in Nat /\ Cardinality(Stored') \in Nat
      /\ Cardinality(Stored \cup {m}) \in Nat
      /\ Cardinality(Reserving') \in Nat /\ Cardinality(Reserving \ {u}) \in Nat
  BY <1>1, <1>2, <1>3, FS_CardinalityType DEF StoredRoom
<1> QED
  BY <1>1, <1>2, <1>3, <1>4, ReservingIsFinite DEF StoredRoom

\* A request is allowed a file while the others may each hold one.
LEMMA RoomTaken ==
  ASSUME StoredRoom, NEW u \in MediaRequests, WithinQuota("none"), UNCHANGED row,
         Reserving' \subseteq Reserving \cup {u}
  PROVE  StoredRoom'
<1>1. Stored' = Stored /\ Stored \ {"none"} = Stored
  BY UploadAssumption DEF Stored, Exists
<1>2. Cardinality(Stored) + 1 <= StoredLimit
  BY <1>1 DEF WithinQuota
<1>3. Reserving' \in SUBSET MediaRequests /\ IsFiniteSet(MediaRequests)
  BY UploadAssumption DEF Reserving
<1>4. IsFiniteSet(Reserving') /\ Cardinality(Reserving') <= Cardinality(MediaRequests)
  BY <1>3, FS_Subset
<1>5. Cardinality(Stored) \in Nat /\ Cardinality(Reserving') \in Nat
  BY <1>4, FS_CardinalityType DEF StoredRoom
<1> QED
  BY <1>1, <1>2, <1>4, <1>5, ReservingIsFinite DEF StoredRoom

LEMMA InitUploads == UploadsInit => UploadInv
<1> SUFFICES ASSUME UploadsInit PROVE UploadInv
  OBVIOUS
<1>1. NoMedium \in MediumRow /\ NoMedium.status = "none"
  BY DEF NoMedium, Medium, MediumRow
<1>2. NoUpload \in UploadRow /\ NoUpload.pc = "idle"
  BY DEF NoUpload, UploadRow, UploadPcs
<1>3. Stored = {} /\ Reserving = {}
  BY <1>1, <1>2 DEF UploadsInit, Stored, Exists, Reserving
<1>4. StoredRoom
  BY <1>3, FS_EmptySet, ReservingIsFinite DEF StoredRoom
<1> QED
  BY <1>1, <1>2, <1>4
  DEF UploadsInit, LibraryIdle, UploadInv, FilesTypeOK, FileInHand, ReadyMediaHasFile, NothingAttached

\* A request goes on, and the files and rows stay as they are.
LEMMA OnlyUpload ==
  ASSUME UploadInv, NEW u \in MediaRequests, NEW r \in UploadRow, SetUpload(u, r),
         UNCHANGED <<row, object, removing>>, PostsUnchanged,
         FileInHand(u)',
         upload'[u].pc \in {"save", "insert", "reserve"} =>
           u \in Reserving \/ WithinQuota("none")
  PROVE  UploadInv'
<1>1. /\ upload' \in [MediaRequests -> UploadRow]
      /\ \A v \in MediaRequests : v # u => upload'[v] = upload[v]
  BY DEF UploadInv, SetUpload
<1>2. \A v \in MediaRequests : FileInHand(v)'
  BY <1>1 DEF UploadInv, FileInHand
<1>3. StoredRoom'
  <2>1. CASE Reserving' \subseteq Reserving
    BY <2>1, RoomShrinks DEF UploadInv, Stored, Exists
  <2>2. CASE WithinQuota("none")
    BY <1>1, <2>2, RoomTaken DEF UploadInv, Reserving
  <2> QED
    BY <1>1, <2>1, <2>2 DEF Reserving
<1> QED
  BY <1>1, <1>2, <1>3 DEF UploadInv, FilesTypeOK, ReadyMediaHasFile, NothingAttached, PostsUnchanged

LEMMA IdleUpload == NoUpload \in UploadRow /\ NoUpload.pc = "idle" /\ NoUpload.hash = "none"
  BY DEF NoUpload, UploadRow, UploadPcs

\* A step of a request changes its own record, rows, files and what is removed.
LEMMA UploadMoves ==
  ASSUME UploadInv, NEW u \in MediaRequests, NEW r \in UploadRow, SetUpload(u, r), PostsUnchanged,
         FilesTypeOK', removing \subseteq removing',
         \A m \in MediaIds : object[m] # "none" => object'[m] # "none" \/ m \in removing',
         FileInHand(u)', ReadyMediaHasFile', StoredRoom'
  PROVE  UploadInv'
<1>1. /\ upload' \in [MediaRequests -> UploadRow]
      /\ \A v \in MediaRequests : v # u => upload'[v] = upload[v]
  BY DEF UploadInv, SetUpload
<1>2. ASSUME NEW v \in MediaRequests PROVE FileInHand(v)'
  <2>1. CASE v = u
    BY <2>1
  <2>2. CASE v # u
    BY <1>1, <2>2 DEF UploadInv, FileInHand
  <2> QED
    BY <2>1, <2>2
<1> QED
  BY <1>1, <1>2 DEF UploadInv, NothingAttached, PostsUnchanged

LEMMA MarkedRow ==
  ASSUME UploadInv, NEW m, MarkFailed(m)
  PROVE  /\ row' \in [MediaIds -> MediumRow]
         /\ \A k \in MediaIds : row'[k].status # row[k].status =>
              row'[k].status = "failed" /\ Exists(k)
<1>1. row \in [MediaIds -> MediumRow]
  BY DEF UploadInv, FilesTypeOK
<1>2. CASE Exists(m)
  <2>1. row' = [row EXCEPT ![m].status = "failed"]
    BY <1>2 DEF MarkFailed
  <2>2. \A k \in MediaIds : /\ row'[k] \in MediumRow
                            /\ row'[k].status = IF k = m THEN "failed" ELSE row[k].status
    BY <1>1, <2>1 DEF MediumRow
  <2> QED
    BY <1>1, <1>2, <2>1, <2>2
<1>3. CASE ~Exists(m)
  BY <1>1, <1>3 DEF MarkFailed
<1> QED
  BY <1>2, <1>3

\* A medium that fails keeps its place and loses nothing that is ready.
LEMMA MarkFailedKeeps ==
  ASSUME UploadInv, NEW u \in MediaRequests, NEW m, MarkFailed(m), Reply(u), PostsUnchanged,
         UNCHANGED <<object, removing>>
  PROVE  UploadInv'
<1>1. FilesTypeOK'
  BY MarkedRow DEF UploadInv, FilesTypeOK
<1>2. SetUpload(u, NoUpload) /\ NoUpload \in UploadRow /\ NoUpload.pc = "idle"
  BY IdleUpload DEF Reply
<1>3. /\ upload'[u].pc = "idle"
      /\ \A v \in MediaRequests : v # u => upload'[v] = upload[v]
  BY <1>2 DEF SetUpload, UploadInv
<1>4. FileInHand(u)' /\ Reserving' \subseteq Reserving
  BY <1>3 DEF FileInHand, Reserving
<1>5. Stored' \subseteq Stored
  BY MarkedRow DEF Stored, Exists
<1>6. StoredRoom'
  BY <1>4, <1>5, RoomShrinks DEF UploadInv
<1>7. ReadyMediaHasFile'
  BY MarkedRow DEF UploadInv, ReadyMediaHasFile
<1> QED
  BY <1>1, <1>2, <1>4, <1>6, <1>7, UploadMoves DEF UploadInv

LEMMA NewMedium ==
  ASSUME NEW s \in {"processing", "ready"}, NEW h \in Hashes \cup {"none", "pending"}
  PROVE  Medium(s, h) \in MediumRow /\ Medium(s, h).status = s
  BY DEF Medium, MediumRow

LEMMA GoneRow == GoneMedium \in MediumRow /\ GoneMedium.status = "gone"
  BY DEF GoneMedium, Medium, MediumRow

LEMMA StartUploadKeeps ==
  ASSUME UploadInv, NEW u \in MediaRequests, StartUpload(u) PROVE UploadInv'
<1>1. PICK h \in Hashes : /\ WithinQuota("none")
                          /\ SetUpload(u, [pc |-> "save", m |-> "none", hash |-> h])
  BY DEF StartUpload
<1> DEFINE r == [pc |-> "save", m |-> "none", hash |-> h]
<1>2. r \in UploadRow /\ r.pc = "save" /\ r.hash = h
  BY DEF UploadRow, UploadPcs
<1> HIDE DEF r
<1>3. SetUpload(u, r)
  BY <1>1 DEF r
<1>4. FileInHand(u)'
  BY <1>2, <1>3 DEF SetUpload, FileInHand, UploadInv
<1>5. UNCHANGED <<row, object, removing>> /\ PostsUnchanged
  BY DEF StartUpload
<1> QED
  BY <1>1, <1>2, <1>3, <1>4, <1>5, OnlyUpload

LEMMA SaveFileKeeps ==
  ASSUME UploadInv, NEW u \in MediaRequests, SaveFile(u) PROVE UploadInv'
<1>1. PICK m \in FreshIds :
        /\ object' = [object EXCEPT ![m] = upload[u].hash]
        /\ SetUpload(u, [upload[u] EXCEPT !.pc = "insert", !.m = m])
  BY DEF SaveFile
<1>2. m \in MediaIds /\ upload[u].pc = "save" /\ upload[u].hash \in Hashes
  BY DEF FreshIds, SaveFile, UploadInv, FileInHand
<1> DEFINE r == [upload[u] EXCEPT !.pc = "insert", !.m = m]
<1>3. r \in UploadRow /\ r.pc = "insert" /\ r.m = m
  BY <1>2 DEF UploadInv, UploadRow, UploadPcs
<1> HIDE DEF r
<1>4. SetUpload(u, r) /\ UNCHANGED <<row, removing>> /\ PostsUnchanged
  BY <1>1 DEF r, SaveFile
<1>5. /\ \A k \in MediaIds : object'[k] = IF k = m THEN upload[u].hash ELSE object[k]
      /\ object' \in [MediaIds -> Hashes \cup {"none"}]
  BY <1>1, <1>2 DEF UploadInv, FilesTypeOK
<1>6. object'[m] # "none" /\ \A k \in MediaIds : object[k] # "none" => object'[k] # "none"
  BY <1>2, <1>5, UploadAssumption
<1>7. upload'[u] = r /\ \A v \in MediaRequests : v # u => upload'[v] = upload[v]
  BY <1>4 DEF SetUpload, UploadInv
<1>8. FileInHand(u)'
  BY <1>2, <1>3, <1>6, <1>7 DEF FileInHand
<1>9. StoredRoom'
  <2>1. Reserving' \subseteq Reserving /\ Stored' \subseteq Stored
    BY <1>2, <1>4, <1>7 DEF Reserving, Stored, Exists
  <2> QED
    BY <2>1, RoomShrinks DEF UploadInv
<1>10. FilesTypeOK' /\ ReadyMediaHasFile'
  BY <1>4, <1>5, <1>6 DEF UploadInv, FilesTypeOK, ReadyMediaHasFile
<1> QED
  BY <1>3, <1>4, <1>6, <1>8, <1>9, <1>10, UploadMoves

LEMMA InsertRowKeeps ==
  ASSUME UploadInv, NEW u \in MediaRequests, InsertRow(u) PROVE UploadInv'
<1> DEFINE m == upload[u].m
<1>1. /\ m \in MediaIds /\ u \in Reserving
      /\ object[m] # "none" \/ m \in removing
  BY DEF InsertRow, UploadInv, FileInHand, Reserving
<1>2. CASE row' = row /\ Reply(u)
  <2>1. UNCHANGED <<row, object, removing>> /\ PostsUnchanged /\ SetUpload(u, NoUpload)
    BY <1>2 DEF InsertRow, Reply
  <2>2. upload'[u].pc = "idle"
    BY <2>1, IdleUpload DEF SetUpload, UploadInv
  <2>3. FileInHand(u)'
    BY <2>2 DEF FileInHand
  <2> QED
    BY <2>1, <2>2, <2>3, IdleUpload, OnlyUpload
<1>3. CASE /\ row' = [row EXCEPT ![m] = Medium("ready", upload[u].hash)]
           /\ SetUpload(u, [upload[u] EXCEPT !.pc = "count"])
  <2> DEFINE r == [upload[u] EXCEPT !.pc = "count"]
             x == Medium("ready", upload[u].hash)
  <2>1. r \in UploadRow /\ r.pc = "count"
    BY DEF UploadInv, UploadRow, UploadPcs
  <2>2. x \in MediumRow /\ x.status = "ready"
    BY NewMedium DEF UploadInv, UploadRow
  <2> HIDE DEF r, x
  <2>3. SetUpload(u, r) /\ UNCHANGED <<object, removing>> /\ PostsUnchanged
    BY <1>3 DEF r, InsertRow
  <2>4. /\ row' \in [MediaIds -> MediumRow]
        /\ \A k \in MediaIds : k # m => row'[k] = row[k]
    BY <1>1, <1>3, <2>2 DEF x, UploadInv, FilesTypeOK
  <2>5. /\ upload'[u].pc = "count"
        /\ \A v \in MediaRequests : v # u => upload'[v] = upload[v]
    BY <2>1, <2>3 DEF SetUpload, UploadInv
  <2>6. Reserving' \subseteq Reserving \ {u} /\ Stored' \subseteq Stored \cup {m}
    BY <2>4, <2>5 DEF Reserving, Stored, Exists
  <2>7. StoredRoom'
    BY <1>1, <2>6, RoomMoves DEF UploadInv
  <2>8. FileInHand(u)'
    BY <2>5 DEF FileInHand
  <2>9. FilesTypeOK' /\ ReadyMediaHasFile'
    BY <1>1, <2>3, <2>4 DEF UploadInv, FilesTypeOK, ReadyMediaHasFile
  <2> QED
    BY <2>1, <2>3, <2>7, <2>8, <2>9, UploadMoves
<1> QED
  BY <1>2, <1>3 DEF InsertRow

\* Steps after which a request is idle or holds nothing.
LEMMA ReplyKeeps ==
  ASSUME UploadInv, NEW u \in MediaRequests, Reply(u), PostsUnchanged,
         UNCHANGED <<row, object, removing>>
  PROVE  UploadInv'
<1>1. SetUpload(u, NoUpload)
  BY DEF Reply
<1>2. upload'[u].pc = "idle"
  BY <1>1, IdleUpload DEF SetUpload, UploadInv
<1>3. FileInHand(u)'
  BY <1>2 DEF FileInHand
<1> QED
  BY <1>1, <1>2, <1>3, IdleUpload, OnlyUpload

LEMMA StartSessionKeeps ==
  ASSUME UploadInv, NEW u \in MediaRequests, StartSession(u) PROVE UploadInv'
<1> DEFINE r == [NoUpload EXCEPT !.pc = "reserve"]
<1>1. r \in UploadRow /\ r.pc = "reserve"
  BY DEF NoUpload, UploadRow, UploadPcs
<1> HIDE DEF r
<1>2. SetUpload(u, r) /\ WithinQuota("none") /\ UNCHANGED <<row, object, removing>> /\ PostsUnchanged
  BY DEF r, StartSession
<1>3. FileInHand(u)'
  BY <1>1, <1>2 DEF SetUpload, FileInHand, UploadInv
<1> QED
  BY <1>1, <1>2, <1>3, OnlyUpload

LEMMA ReserveUploadKeeps ==
  ASSUME UploadInv, NEW u \in MediaRequests, ReserveUpload(u) PROVE UploadInv'
<1>1. PICK m \in FreshIds : row' = [row EXCEPT ![m] = Medium("processing", "pending")]
  BY DEF ReserveUpload
<1> DEFINE x == Medium("processing", "pending")
<1>2. x \in MediumRow /\ x.status = "processing" /\ m \in MediaIds
  BY NewMedium DEF FreshIds
<1> HIDE DEF x
<1>3. SetUpload(u, NoUpload) /\ UNCHANGED <<object, removing>> /\ PostsUnchanged
  BY DEF ReserveUpload, Reply
<1>4. /\ row' \in [MediaIds -> MediumRow] /\ row'[m].status = "processing"
      /\ \A k \in MediaIds : k # m => row'[k] = row[k]
  BY <1>1, <1>2 DEF x, UploadInv, FilesTypeOK
<1>5. /\ upload'[u].pc = "idle"
      /\ \A v \in MediaRequests : v # u => upload'[v] = upload[v]
  BY <1>3, IdleUpload DEF SetUpload, UploadInv
<1>6. /\ Reserving' \subseteq Reserving \ {u} /\ Stored' \subseteq Stored \cup {m}
      /\ u \in Reserving
  BY <1>4, <1>5 DEF Reserving, Stored, Exists, ReserveUpload
<1>7. StoredRoom'
  BY <1>6, RoomMoves DEF UploadInv
<1>8. FileInHand(u)'
  BY <1>5 DEF FileInHand
<1>9. FilesTypeOK' /\ ReadyMediaHasFile'
  BY <1>3, <1>4 DEF UploadInv, FilesTypeOK, ReadyMediaHasFile
<1> QED
  BY <1>3, <1>7, <1>8, <1>9, IdleUpload, UploadMoves

LEMMA ClientPutsKeeps ==
  ASSUME UploadInv, NEW m \in MediaIds, ClientPuts(m) PROVE UploadInv'
<1>1. PICK h \in Hashes : object' = [object EXCEPT ![m] = h]
  BY DEF ClientPuts
<1>2. /\ object' \in [MediaIds -> Hashes \cup {"none"}]
      /\ \A k \in MediaIds : object[k] # "none" => object'[k] # "none"
  BY <1>1, UploadAssumption DEF UploadInv, FilesTypeOK
<1>3. UNCHANGED <<row, removing, upload>> /\ PostsUnchanged
  BY DEF ClientPuts
<1>4. Stored' \subseteq Stored /\ Reserving' \subseteq Reserving
  BY <1>3 DEF Stored, Exists, Reserving
<1>5. StoredRoom'
  BY <1>4, RoomShrinks DEF UploadInv
<1> QED
  BY <1>2, <1>3, <1>5
  DEF UploadInv, FilesTypeOK, FileInHand, ReadyMediaHasFile, NothingAttached, PostsUnchanged

LEMMA LoadSessionKeeps ==
  ASSUME UploadInv, NEW u \in MediaRequests, LoadSession(u) PROVE UploadInv'
<1>1. PICK m \in MediaIds : SetUpload(u, [NoUpload EXCEPT !.pc = "read", !.m = m])
  BY DEF LoadSession
<1> DEFINE r == [NoUpload EXCEPT !.pc = "read", !.m = m]
<1>2. r \in UploadRow /\ r.pc = "read" /\ r.m = m
  BY DEF NoUpload, UploadRow, UploadPcs
<1> HIDE DEF r
<1>3. SetUpload(u, r) /\ UNCHANGED <<row, object, removing>> /\ PostsUnchanged
  BY <1>1 DEF r, LoadSession
<1>4. upload'[u] = r
  BY <1>3 DEF SetUpload, UploadInv
<1>5. FileInHand(u)'
  BY <1>2, <1>4 DEF FileInHand
<1> QED
  BY <1>2, <1>3, <1>4, <1>5, OnlyUpload

\* The medium of a request that has loaded a session, or saved a file.
LEMMA ReadFileKeeps ==
  ASSUME UploadInv, NEW u \in MediaRequests, ReadFile(u) PROVE UploadInv'
<1> DEFINE m == upload[u].m
<1>1. UNCHANGED <<object, removing>> /\ PostsUnchanged /\ m \in MediaIds
  BY DEF ReadFile, UploadInv, FileInHand
<1>2. CASE /\ object[m] # "none" /\ UNCHANGED row
           /\ SetUpload(u, [upload[u] EXCEPT !.pc = "search", !.hash = object[m]])
  <2> DEFINE r == [upload[u] EXCEPT !.pc = "search", !.hash = object[m]]
  <2>1. r \in UploadRow /\ r.pc = "search" /\ r.m = m
    BY <1>1 DEF UploadInv, UploadRow, UploadPcs, FilesTypeOK
  <2> HIDE DEF r
  <2>2. SetUpload(u, r)
    BY <1>2 DEF r
  <2>3. upload'[u] = r
    BY <2>2 DEF SetUpload, UploadInv
  <2>4. FileInHand(u)'
    BY <1>1, <1>2, <2>1, <2>3 DEF FileInHand
  <2> QED
    BY <1>1, <1>2, <2>1, <2>2, <2>3, <2>4, OnlyUpload
<1>3. CASE Reply(u) /\ UNCHANGED row
  BY <1>1, <1>3, ReplyKeeps
<1>4. CASE MarkFailed(m) /\ Reply(u)
  BY <1>1, <1>4, MarkFailedKeeps
<1> QED
  BY <1>2, <1>3, <1>4 DEF ReadFile

LEMMA SearchDuplicateKeeps ==
  ASSUME UploadInv, NEW u \in MediaRequests, SearchDuplicate(u) PROVE UploadInv'
<1>1. PICK pc \in {"finalize", "drop file"} : SetUpload(u, [upload[u] EXCEPT !.pc = pc])
  BY DEF SearchDuplicate
<1> DEFINE r == [upload[u] EXCEPT !.pc = pc]
<1>2. r \in UploadRow /\ r.pc = pc /\ r.m = upload[u].m
  BY DEF UploadInv, UploadRow, UploadPcs
<1> HIDE DEF r
<1>3. SetUpload(u, r) /\ UNCHANGED <<row, object, removing>> /\ PostsUnchanged
  BY <1>1 DEF r, SearchDuplicate
<1>4. upload'[u] = r
  BY <1>3 DEF SetUpload, UploadInv
<1>5. FileInHand(u)'
  BY <1>2, <1>3, <1>4 DEF SearchDuplicate, UploadInv, FileInHand
<1> QED
  BY <1>2, <1>3, <1>4, <1>5, OnlyUpload

LEMMA DropDuplicateFileKeeps ==
  ASSUME UploadInv, NEW u \in MediaRequests, DropDuplicateFile(u) PROVE UploadInv'
<1> DEFINE m == upload[u].m
           r == [upload[u] EXCEPT !.pc = "drop row"]
<1>1. r \in UploadRow /\ r.pc = "drop row"
  BY DEF UploadInv, UploadRow, UploadPcs
<1> HIDE DEF r
<1>2. SetUpload(u, r) /\ UNCHANGED row /\ PostsUnchanged /\ removing' = removing \cup {m}
  BY DEF r, DropDuplicateFile
<1>3. /\ object' \in [MediaIds -> Hashes \cup {"none"}]
      /\ \A k \in MediaIds : k # m => object'[k] = object[k]
  BY DEF DropDuplicateFile, UploadInv, FilesTypeOK
<1>4. /\ upload'[u].pc = "drop row"
      /\ \A v \in MediaRequests : v # u => upload'[v] = upload[v]
  BY <1>1, <1>2 DEF SetUpload, UploadInv
<1>5. FileInHand(u)'
  BY <1>4 DEF FileInHand
<1>6. Reserving' \subseteq Reserving /\ Stored' \subseteq Stored
  BY <1>2, <1>4 DEF Reserving, Stored, Exists
<1>7. StoredRoom'
  BY <1>6, RoomShrinks DEF UploadInv
<1>8. FilesTypeOK' /\ ReadyMediaHasFile'
  BY <1>2, <1>3 DEF UploadInv, FilesTypeOK, ReadyMediaHasFile
<1> QED
  BY <1>1, <1>2, <1>3, <1>5, <1>7, <1>8, UploadMoves

LEMMA DropDuplicateRowKeeps ==
  ASSUME UploadInv, NEW u \in MediaRequests, DropDuplicateRow(u) PROVE UploadInv'
<1>1. /\ row' = [row EXCEPT ![upload[u].m] = GoneMedium]
      /\ SetUpload(u, NoUpload) /\ UNCHANGED <<object, removing>> /\ PostsUnchanged
  BY DEF DropDuplicateRow, Reply
<1>2. /\ row' \in [MediaIds -> MediumRow]
      /\ \A k \in MediaIds : row'[k] = row[k] \/ row'[k].status = "gone"
  BY <1>1, GoneRow DEF UploadInv, FilesTypeOK
<1>3. /\ upload'[u].pc = "idle"
      /\ \A v \in MediaRequests : v # u => upload'[v] = upload[v]
  BY <1>1, IdleUpload DEF SetUpload, UploadInv
<1>4. FileInHand(u)'
  BY <1>3 DEF FileInHand
<1>5. Reserving' \subseteq Reserving /\ Stored' \subseteq Stored
  BY <1>2, <1>3 DEF Reserving, Stored, Exists
<1>6. StoredRoom'
  BY <1>5, RoomShrinks DEF UploadInv
<1>7. FilesTypeOK' /\ ReadyMediaHasFile'
  BY <1>1, <1>2 DEF UploadInv, FilesTypeOK, ReadyMediaHasFile
<1> QED
  BY <1>1, <1>4, <1>6, <1>7, IdleUpload, UploadMoves

LEMMA FinalizeKeeps ==
  ASSUME UploadInv, NEW u \in MediaRequests, Finalize(u) PROVE UploadInv'
<1> DEFINE m == upload[u].m
           r == [upload[u] EXCEPT !.pc = "count"]
<1>1. m \in MediaIds /\ (object[m] # "none" \/ m \in removing)
  BY DEF Finalize, UploadInv, FileInHand
<1>2. UNCHANGED <<object, removing>> /\ PostsUnchanged
  BY DEF Finalize
<1>3. CASE MarkFailed(m) /\ Reply(u)
  BY <1>2, <1>3, MarkFailedKeeps
<1>4. CASE SetUpload(u, r) /\ row' = IF Exists(m)
             THEN [row EXCEPT ![m].status = "ready", ![m].hash = upload[u].hash] ELSE row
  <2>1. r \in UploadRow /\ r.pc = "count"
    BY DEF UploadInv, UploadRow, UploadPcs
  <2> HIDE DEF r
  <2>2. /\ upload'[u].pc = "count"
        /\ \A v \in MediaRequests : v # u => upload'[v] = upload[v]
    BY <1>4, <2>1 DEF SetUpload, UploadInv
  <2>3. row[m] \in MediumRow /\ upload[u].hash \in Hashes \cup {"none"}
    BY <1>1 DEF UploadInv, FilesTypeOK, UploadRow
  <2> DEFINE x == [row[m] EXCEPT !.status = "ready", !.hash = upload[u].hash]
  <2>4. x \in MediumRow /\ x.status = "ready"
    BY <2>3 DEF MediumRow
  <2>5. row' = IF Exists(m) THEN [row EXCEPT ![m] = x] ELSE row
    BY <1>4, <2>3 DEF MediumRow, UploadInv, FilesTypeOK
  <2> HIDE DEF x
  <2>6. /\ row' \in [MediaIds -> MediumRow]
        /\ \A k \in MediaIds : k # m \/ ~Exists(m) => row'[k] = row[k]
    BY <1>1, <2>4, <2>5 DEF UploadInv, FilesTypeOK
  <2>7. Reserving' \subseteq Reserving /\ Stored' \subseteq Stored
    BY <2>2, <2>6 DEF Reserving, Stored, Exists
  <2>8. StoredRoom'
    BY <2>7, RoomShrinks DEF UploadInv
  <2>9. FilesTypeOK' /\ ReadyMediaHasFile'
    BY <1>1, <1>2, <2>6 DEF UploadInv, FilesTypeOK, ReadyMediaHasFile
  <2>10. FileInHand(u)'
    BY <2>2 DEF FileInHand
  <2> QED
    BY <1>2, <1>4, <2>1, <2>8, <2>9, <2>10, UploadMoves
<1> QED
  BY <1>3, <1>4 DEF Finalize

LEMMA UploadServerDiesKeeps == ASSUME UploadInv, UploadServerDies PROVE UploadInv'
<1>1. /\ upload' \in [MediaRequests -> UploadRow]
      /\ \A v \in MediaRequests : upload'[v].pc = "idle"
  BY IdleUpload DEF UploadServerDies
<1>2. UNCHANGED <<row, object, attached, inVariant, removing>>
  BY DEF UploadServerDies
<1>3. Reserving' \subseteq Reserving /\ Stored' \subseteq Stored
  BY <1>1, <1>2 DEF Reserving, Stored, Exists
<1>4. StoredRoom'
  BY <1>3, RoomShrinks DEF UploadInv
<1> QED
  BY <1>1, <1>2, <1>4 DEF UploadInv, FilesTypeOK, FileInHand, ReadyMediaHasFile, NothingAttached

\* The cleanup beside uploads: files go once they are told to, and rows after.
LEMMA CleanupBesideUploads ==
  ASSUME UploadInv, Cleanup \/ (\E m \in Pending : Ages(m)), UNCHANGED uploadVars
  PROVE  UploadInv'
<1>1. UNCHANGED <<upload, attached, inVariant>> /\ removing \subseteq removing'
  BY DEF Cleanup, SelectUnused, SkipVariantMedia, DeleteUnusedFile, DeleteUnusedRow, EndCleanup,
     Ages, uploadVars
<1>2. /\ row' \in [MediaIds -> MediumRow]
      /\ \A k \in MediaIds : row'[k].status \in {row[k].status, "gone"}
  <2>1. CASE DeleteUnusedRow
    BY <2>1, GoneRow DEF DeleteUnusedRow, UploadInv, FilesTypeOK
  <2>2. ASSUME NEW m \in Pending, Ages(m) PROVE
          /\ row' \in [MediaIds -> MediumRow]
          /\ \A k \in MediaIds : row'[k].status \in {row[k].status, "gone"}
    <3> DEFINE x == [row[m] EXCEPT !.old = TRUE]
    <3>1. row[m] \in MediumRow /\ m \in MediaIds
      BY DEF Pending, UploadInv, FilesTypeOK
    <3>2. x \in MediumRow /\ x.status = row[m].status
      BY <3>1 DEF MediumRow
    <3>3. row' = [row EXCEPT ![m] = x]
      BY <2>2 DEF Ages
    <3> HIDE DEF x
    <3> QED
      BY <3>1, <3>2, <3>3 DEF UploadInv, FilesTypeOK
  <2>3. CASE row' = row
    BY <2>3 DEF UploadInv, FilesTypeOK
  <2> QED
    BY <2>1, <2>2, <2>3 DEF Cleanup, SelectUnused, SkipVariantMedia, DeleteUnusedFile, EndCleanup
<1>3. /\ object' \in [MediaIds -> Hashes \cup {"none"}]
      /\ \A k \in MediaIds : object[k] # "none" => object'[k] # "none" \/ k \in removing'
  <2>1. CASE DeleteUnusedFile
    <3>1. PICK m : removing' = removing \cup {m} /\ (object' = [object EXCEPT ![m] = "none"] \/ UNCHANGED object)
      BY <2>1 DEF DeleteUnusedFile
    <3> QED
      BY <3>1 DEF UploadInv, FilesTypeOK
  <2>2. CASE object' = object
    BY <2>2 DEF UploadInv, FilesTypeOK
  <2> QED
    BY <2>1, <2>2 DEF Cleanup, SelectUnused, SkipVariantMedia, DeleteUnusedRow, EndCleanup, Ages
<1>4. Reserving' \subseteq Reserving /\ Stored' \subseteq Stored
  BY <1>1, <1>2 DEF Reserving, Stored, Exists
<1>5. StoredRoom'
  BY <1>4, RoomShrinks DEF UploadInv
<1>6. \A u \in MediaRequests : FileInHand(u)'
  BY <1>1, <1>3 DEF UploadInv, FileInHand
<1>7. ReadyMediaHasFile'
  BY <1>1, <1>2, <1>3 DEF UploadInv, ReadyMediaHasFile
<1> QED
  BY <1>1, <1>2, <1>3, <1>5, <1>6, <1>7 DEF UploadInv, FilesTypeOK, NothingAttached

-----------------------------------------------------------------------------
(* Media: how they are used, and removed *)

EditorRow == [pc : {"idle", "write"}, p : MediaPosts \cup {"none"}, media : SUBSET MediaIds,
              kind : {"none", "post", "variant"}]
DeleterPcs == {"idle", "posts", "variants", "files", "references", "row"}
DeleterRow == [pc : DeleterPcs, m : MediaIds \cup {"none"}, blocked : BOOLEAN,
               copy : [MediaPosts -> SUBSET MediaIds]]
CleanupRow == [pc : {"idle", "variants", "delete", "row"}, todo : SUBSET MediaIds,
               m : MediaIds \cup {"none"}]

RemovalTypeOK ==
  /\ FilesTypeOK
  /\ attached \in [MediaPosts -> SUBSET MediaIds]
  /\ inVariant \in [MediaPosts -> SUBSET MediaIds]
  /\ editor \in EditorRow
  /\ editor.pc = "write" => editor.p \in MediaPosts /\ editor.kind \in {"post", "variant"}
  /\ deleter \in [Deleters -> DeleterRow]
  /\ \A d \in Deleters : deleter[d].pc # "idle" => deleter[d].m \in MediaIds
  /\ cleanup \in CleanupRow
  /\ cleanup.pc = "row" => cleanup.m \in cleanup.todo

\* The references that no removal had begun to look for when they were made.
Firm(p, kind) == {m \in References(p, kind) : <<p, m, kind>> \notin late}
Kinds == {"post", "variant"}

FirmIsKept == \A p \in Drafts, k \in Kinds : \A m \in Firm(p, k) : Kept(m)

\* No draft has a firm reference of this kind: a removal that looked found none.
Looked(m, kind) == \A p \in Drafts : m \notin Firm(p, kind)

DeleterLooked(d) ==
  /\ deleter[d].pc = "variants" /\ ~deleter[d].blocked => Looked(deleter[d].m, "post")
  /\ deleter[d].pc \in {"files", "references", "row"} =>
       Looked(deleter[d].m, "post") /\ Looked(deleter[d].m, "variant")

CleanupLooked ==
  \A m \in cleanup.todo : /\ Looked(m, "post")
                          /\ cleanup.pc \in {"delete", "row"} => Looked(m, "variant")

RowsAreReady == \A m \in MediaIds : Exists(m) => row[m].status = "ready"

RemovalInv ==
  /\ RemovalTypeOK /\ RowsAreReady /\ ReadyMediaHasFile /\ StoredRoom
  /\ FirmIsKept /\ CleanupLooked
  /\ \A d \in Deleters : DeleterLooked(d)

\* A new reference is firm only to a medium that no removal has begun with.
FirmGrows ==
  /\ Drafts' \subseteq Drafts
  /\ \A p \in MediaPosts, k \in Kinds : \A m \in Firm(p, k)' : m \in Firm(p, k) \/ (m \in MediaIds /\ ~Going(m))

\* Rows and files go only after a removal has looked for references.
LossIsLooked ==
  \A m \in MediaIds : Kept(m) => \/ Kept(m)'
                                 \/ Going(m) /\ Looked(m, "post") /\ Looked(m, "variant")

\* Rows are not made, nor files lost that were not told to be deleted.
RowsShrink ==
  /\ \A m \in MediaIds : Exists(m)' => Exists(m) /\ row'[m].status = row[m].status
  /\ removing \subseteq removing'
  /\ \A m \in MediaIds : object[m] # "none" => object'[m] # "none" \/ m \in removing'

LEMMA FirmIsMedia == RemovalTypeOK => \A p \in MediaPosts, k \in Kinds : Firm(p, k) \subseteq MediaIds
  BY DEF RemovalTypeOK, Firm, References

LEMMA NotGoingIsKept ==
  ASSUME RowsAreReady, ReadyMediaHasFile, NEW m \in MediaIds, ~Going(m) PROVE Kept(m)
  BY DEF RowsAreReady, ReadyMediaHasFile, Going, Kept

LEMMA LookedStays ==
  ASSUME FirmGrows, NEW m, Going(m), NEW k \in Kinds, Looked(m, k)
  PROVE  Looked(m, k)'
<1> SUFFICES ASSUME NEW p \in Drafts', m \in Firm(p, k)' PROVE FALSE
  BY DEF Looked
<1>1. p \in Drafts /\ p \in MediaPosts
  BY DEF FirmGrows, Drafts
<1>2. m \in Firm(p, k) \/ ~Going(m)
  BY <1>1 DEF FirmGrows
<1> QED
  BY <1>1, <1>2 DEF Looked

LEMMA FirmStaysKept ==
  ASSUME RemovalInv, FirmGrows, LossIsLooked PROVE FirmIsKept'
<1> SUFFICES ASSUME NEW p \in Drafts', NEW k \in Kinds, NEW m \in Firm(p, k)' PROVE Kept(m)'
  BY DEF FirmIsKept
<1>1. p \in Drafts /\ p \in MediaPosts
  BY DEF FirmGrows, Drafts
<1>2. m \in Firm(p, k) \/ (m \in MediaIds /\ ~Going(m))
  BY <1>1 DEF FirmGrows
<1>3. m \in MediaIds
  BY <1>1, <1>2, FirmIsMedia DEF RemovalInv
<1>4. Kept(m)
  BY <1>1, <1>2, NotGoingIsKept DEF RemovalInv, FirmIsKept
<1>5. Kept(m)' \/ (Going(m) /\ Looked(m, "post") /\ Looked(m, "variant"))
  BY <1>3, <1>4 DEF LossIsLooked
<1>6. k = "post" \/ k = "variant"
  BY DEF Kinds
<1>7. Looked(m, k) => m \notin Firm(p, k)
  BY <1>1 DEF Looked
<1> QED
  BY <1>2, <1>5, <1>6, <1>7

\* What a step of a removal, or of an edit, has to show.
LEMMA RemovalMoves ==
  ASSUME RemovalInv, RemovalTypeOK', FirmGrows, LossIsLooked, RowsShrink, UNCHANGED upload,
         \A d \in Deleters : deleter'[d] = deleter[d] \/ DeleterLooked(d)',
         cleanup' = cleanup \/ CleanupLooked'
  PROVE  RemovalInv'
<1>1. FirmIsKept'
  BY FirmStaysKept
<1>2. RowsAreReady'
  BY DEF RemovalInv, RowsShrink, RowsAreReady
<1>6. ReadyMediaHasFile'
  <2>1. \A m \in MediaIds : row'[m].status = "ready" => row[m].status = "ready"
    BY DEF RowsShrink, Exists
  <2> QED
    BY <2>1 DEF RemovalInv, RowsShrink, ReadyMediaHasFile
<1>3. StoredRoom'
  <2>1. Stored' \subseteq Stored /\ Reserving' \subseteq Reserving
    BY DEF RowsShrink, Stored, Reserving
  <2> QED
    BY <2>1, RoomShrinks DEF RemovalInv
<1>4. ASSUME NEW d \in Deleters PROVE DeleterLooked(d)'
  <2>1. CASE DeleterLooked(d)'
    BY <2>1
  <2>2. CASE deleter'[d] = deleter[d]
    <3>0. PICK m : m = deleter[d].m
      OBVIOUS
    <3>1. DeleterLooked(d)
      BY DEF RemovalInv
    <3>2. deleter[d].pc \in {"variants", "files", "references", "row"} => Going(m)
      BY <3>0 DEF Going
    <3>3. ASSUME deleter[d].pc = "variants", ~deleter[d].blocked PROVE Looked(m, "post")'
      BY <3>0, <3>1, <3>2, <3>3, LookedStays DEF DeleterLooked, Kinds
    <3>4. ASSUME deleter[d].pc \in {"files", "references", "row"}
          PROVE  Looked(m, "post")' /\ Looked(m, "variant")'
      BY <3>0, <3>1, <3>2, <3>4, LookedStays DEF DeleterLooked, Kinds
    <3> QED
      BY <2>2, <3>0, <3>3, <3>4 DEF DeleterLooked
  <2> QED
    BY <2>1, <2>2
<1>5. CleanupLooked'
  <2>1. CASE cleanup' = cleanup
    <3> SUFFICES ASSUME NEW m \in cleanup.todo
                 PROVE  /\ Looked(m, "post")'
                        /\ cleanup.pc \in {"delete", "row"} => Looked(m, "variant")'
      BY <2>1 DEF CleanupLooked
    <3>1. Going(m)
      BY DEF Going
    <3>2. /\ Looked(m, "post")
          /\ cleanup.pc \in {"delete", "row"} => Looked(m, "variant")
      BY DEF RemovalInv, CleanupLooked
    <3> QED
      BY <3>1, <3>2, LookedStays DEF Kinds
  <2> QED
    BY <2>1
<1> QED
  BY <1>1, <1>2, <1>3, <1>4, <1>5, <1>6 DEF RemovalInv

\* The references stay as they are, and drafts may only be published.
LEMMA SameReferences ==
  ASSUME UNCHANGED <<attached, inVariant, late>>, published \subseteq published' PROVE FirmGrows
<1>1. \A p \in MediaPosts, k \in Kinds : Firm(p, k)' = Firm(p, k)
  BY DEF Firm, References
<1> QED
  BY <1>1 DEF FirmGrows, Drafts

LEMMA SameFiles ==
  ASSUME UNCHANGED <<row, object, removing>> PROVE LossIsLooked /\ RowsShrink
  BY DEF LossIsLooked, RowsShrink, Kept, Exists

\* The deletion changes its own record.
LEMMA SetDeleterTypes ==
  ASSUME RemovalInv, NEW d \in Deleters, NEW r \in DeleterRow, SetDeleter(d, r),
         r.pc # "idle" => r.m \in MediaIds
  PROVE  /\ deleter' \in [Deleters -> DeleterRow]
         /\ \A e \in Deleters : deleter'[e].pc # "idle" => deleter'[e].m \in MediaIds
         /\ deleter'[d] = r
         /\ \A e \in Deleters : e # d => deleter'[e] = deleter[e]
<1>1. deleter \in [Deleters -> DeleterRow] /\ \A e \in Deleters : deleter[e].pc # "idle" => deleter[e].m \in MediaIds
  BY DEF RemovalInv, RemovalTypeOK
<1> QED
  BY <1>1 DEF SetDeleter

\* A step of a deletion that reads.
LEMMA DeleterReads ==
  ASSUME RemovalInv, NEW d \in Deleters, NEW r \in DeleterRow, SetDeleter(d, r),
         r.pc # "idle" => r.m \in MediaIds, DeleterLooked(d)',
         UNCHANGED <<row, object, attached, inVariant, published, editor, cleanup, late, removing, upload>>
  PROVE  RemovalInv'
<1>1. /\ deleter' \in [Deleters -> DeleterRow]
      /\ \A e \in Deleters : deleter'[e].pc # "idle" => deleter'[e].m \in MediaIds
      /\ \A e \in Deleters : e # d => deleter'[e] = deleter[e]
  BY SetDeleterTypes
<1>2. RemovalTypeOK'
  BY <1>1 DEF RemovalInv, RemovalTypeOK, FilesTypeOK
<1>3. FirmGrows /\ LossIsLooked /\ RowsShrink
  BY SameReferences, SameFiles
<1>4. \A e \in Deleters : deleter'[e] = deleter[e] \/ DeleterLooked(e)'
  BY <1>1
<1> QED
  BY <1>2, <1>3, <1>4, RemovalMoves

LEMMA IdleDeleter == NoDeleter \in DeleterRow /\ NoDeleter.pc = "idle" /\ NoDeleter.blocked = FALSE
  BY DEF NoDeleter, DeleterRow, DeleterPcs

LEMMA IdleCleanup ==
  NoCleanup \in CleanupRow /\ NoCleanup.pc = "idle" /\ NoCleanup.todo = {} /\ NoCleanup.m = "none"
  BY DEF NoCleanup, CleanupRow

LEMMA IdleEditor == NoEditor \in EditorRow /\ NoEditor.pc = "idle"
  BY DEF NoEditor, EditorRow

LEMMA ValidateMediaKeeps ==
  ASSUME RemovalInv, ValidateMedia, UNCHANGED upload PROVE RemovalInv'
<1>1. PICK p \in Drafts, media \in SUBSET Stored, kind \in {"post", "variant"} :
        editor' = [pc |-> "write", p |-> p, media |-> media, kind |-> kind]
  BY DEF ValidateMedia
<1>2. /\ editor' \in EditorRow
      /\ editor'.p \in MediaPosts /\ editor'.kind \in {"post", "variant"}
  BY <1>1 DEF EditorRow, Drafts, Stored
<1>3. UNCHANGED <<row, object, attached, inVariant, published, deleter, cleanup, late, removing>>
  BY DEF ValidateMedia
<1>4. RemovalTypeOK'
  BY <1>2, <1>3 DEF RemovalInv, RemovalTypeOK, FilesTypeOK
<1>5. FirmGrows /\ LossIsLooked /\ RowsShrink
  BY <1>3, SameReferences, SameFiles
<1> QED
  BY <1>3, <1>4, <1>5, RemovalMoves

LEMMA WriteMediaKeeps ==
  ASSUME RemovalInv, WriteMedia, UNCHANGED upload PROVE RemovalInv'
<1> DEFINE p == editor.p
           kind == editor.kind
           new == {m \in editor.media \ References(p, kind) : Going(m)}
           gone == References(p, kind) \ editor.media
<1>1. /\ p \in MediaPosts /\ kind \in {"post", "variant"} /\ editor.media \subseteq MediaIds
      /\ attached \in [MediaPosts -> SUBSET MediaIds] /\ inVariant \in [MediaPosts -> SUBSET MediaIds]
  BY DEF WriteMedia, RemovalInv, RemovalTypeOK, EditorRow
<1>2. /\ UNCHANGED <<row, object, published, deleter, cleanup, removing>> /\ editor' = NoEditor
      /\ late' = (late \cup {<<p, m, kind>> : m \in new}) \ {<<p, m, kind>> : m \in gone}
      /\ attached' = IF kind = "post" THEN [attached EXCEPT ![p] = editor.media] ELSE attached
      /\ inVariant' = IF kind = "post" THEN inVariant ELSE [inVariant EXCEPT ![p] = editor.media]
  BY DEF WriteMedia
<1>3. \A q \in MediaPosts, k \in Kinds :
        References(q, k)' = IF q = p /\ k = kind THEN editor.media ELSE References(q, k)
  BY <1>1, <1>2 DEF References, Kinds
<1>4. ASSUME NEW q \in MediaPosts, NEW k \in Kinds, NEW m \in Firm(q, k)'
      PROVE  m \in Firm(q, k) \/ (m \in MediaIds /\ ~Going(m))
  <2>1. m \in References(q, k)' /\ <<q, m, k>> \notin late'
    BY DEF Firm
  <2>2. CASE q = p /\ k = kind
    <3>1. m \in editor.media
      BY <1>3, <2>1, <2>2
    <3>2. m \notin gone
      BY <3>1
    <3>3. <<p, m, kind>> \notin {<<p, n, kind>> : n \in gone}
      BY <3>2
    <3>4. <<p, m, kind>> \notin late /\ m \notin new
      BY <1>2, <2>1, <2>2, <3>3
    <3>5. m \in References(p, kind) \/ ~Going(m)
      BY <3>1, <3>4
    <3> QED
      BY <1>1, <2>2, <3>1, <3>4, <3>5 DEF Firm
  <2>3. CASE ~(q = p /\ k = kind)
    <3>1. <<q, m, k>> \notin {<<p, n, kind>> : n \in gone}
      BY <2>3
    <3>2. <<q, m, k>> \notin late
      BY <1>2, <2>1, <3>1
    <3>3. m \in References(q, k)
      BY <1>3, <2>1, <2>3
    <3> QED
      BY <3>2, <3>3 DEF Firm
  <2> QED
    BY <2>2, <2>3
<1>5. FirmGrows
  BY <1>2, <1>4 DEF FirmGrows, Drafts
<1>6. attached' \in [MediaPosts -> SUBSET MediaIds] /\ inVariant' \in [MediaPosts -> SUBSET MediaIds]
  BY <1>1, <1>2
<1>7. RemovalTypeOK'
  BY <1>2, <1>6, IdleEditor DEF RemovalInv, RemovalTypeOK, FilesTypeOK
<1>8. LossIsLooked /\ RowsShrink
  BY <1>2, SameFiles
<1> QED
  BY <1>2, <1>5, <1>7, <1>8, RemovalMoves

LEMMA PostIsPublishedKeeps ==
  ASSUME RemovalInv, NEW p, PostIsPublished(p), UNCHANGED upload PROVE RemovalInv'
<1>1. /\ UNCHANGED <<row, object, attached, inVariant, editor, deleter, cleanup, late, removing>>
      /\ published \subseteq published'
  BY DEF PostIsPublished
<1>2. RemovalTypeOK'
  BY <1>1 DEF RemovalInv, RemovalTypeOK, FilesTypeOK
<1>3. FirmGrows /\ LossIsLooked /\ RowsShrink
  BY <1>1, SameReferences, SameFiles
<1> QED
  BY <1>1, <1>2, <1>3, RemovalMoves

\* A row gets another mark, and stays what it was.
LEMMA MarkKeeps ==
  ASSUME RemovalInv, NEW m \in MediaIds, NEW x \in MediumRow, x.status = row[m].status,
         row' = [row EXCEPT ![m] = x],
         UNCHANGED <<object, attached, inVariant, published, editor, deleter, cleanup, late, removing, upload>>
  PROVE  RemovalInv'
<1>1. /\ row' \in [MediaIds -> MediumRow]
      /\ \A k \in MediaIds : row'[k].status = row[k].status
  BY DEF RemovalInv, RemovalTypeOK, FilesTypeOK
<1>2. RemovalTypeOK'
  BY <1>1 DEF RemovalInv, RemovalTypeOK, FilesTypeOK
<1>3. FirmGrows
  BY SameReferences
<1>4. LossIsLooked /\ RowsShrink
  BY <1>1 DEF LossIsLooked, RowsShrink, Kept, Exists
<1> QED
  BY <1>2, <1>3, <1>4, RemovalMoves

LEMMA ToggleFavoriteKeeps ==
  ASSUME RemovalInv, NEW m \in MediaIds, ToggleFavorite(m), UNCHANGED upload PROVE RemovalInv'
<1>1. row[m] \in MediumRow
  BY DEF RemovalInv, RemovalTypeOK, FilesTypeOK
<1> DEFINE x == [row[m] EXCEPT !.favorite = ~@]
<1>2. x \in MediumRow /\ x.status = row[m].status
  BY <1>1 DEF MediumRow
<1>3. row' = [row EXCEPT ![m] = x]
  BY <1>1 DEF ToggleFavorite, RemovalInv, RemovalTypeOK, FilesTypeOK
<1> HIDE DEF x
<1>4. UNCHANGED <<object, attached, inVariant, published, editor, deleter, cleanup, late, removing>>
  BY DEF ToggleFavorite
<1> QED
  BY <1>2, <1>3, <1>4, MarkKeeps

LEMMA AgesKeeps ==
  ASSUME RemovalInv, NEW m \in MediaIds, Ages(m), UNCHANGED upload PROVE RemovalInv'
<1>1. row[m] \in MediumRow
  BY DEF RemovalInv, RemovalTypeOK, FilesTypeOK
<1> DEFINE x == [row[m] EXCEPT !.old = TRUE]
<1>2. x \in MediumRow /\ x.status = row[m].status
  BY <1>1 DEF MediumRow
<1>3. row' = [row EXCEPT ![m] = x]
  BY <1>1 DEF Ages, RemovalInv, RemovalTypeOK, FilesTypeOK
<1> HIDE DEF x
<1>4. UNCHANGED <<object, attached, inVariant, published, editor, deleter, cleanup, late, removing>>
  BY DEF Ages
<1> QED
  BY <1>2, <1>3, <1>4, MarkKeeps

-----------------------------------------------------------------------------
\* A user deletes a medium.

LEMMA IdleDeleterLooked ==
  ASSUME NEW d \in Deleters, deleter'[d].pc \in {"idle", "posts"} PROVE DeleterLooked(d)'
  BY DEF DeleterLooked

LEMMA StartDeleteKeeps ==
  ASSUME RemovalInv, NEW d \in Deleters, StartDelete(d), UNCHANGED upload PROVE RemovalInv'
<1>1. PICK m \in Stored : SetDeleter(d, [NoDeleter EXCEPT !.pc = "posts", !.m = m])
  BY DEF StartDelete
<1> DEFINE r == [NoDeleter EXCEPT !.pc = "posts", !.m = m]
<1>2. r \in DeleterRow /\ r.pc = "posts" /\ r.m \in MediaIds
  BY DEF NoDeleter, DeleterRow, DeleterPcs, Stored
<1> HIDE DEF r
<1>3. SetDeleter(d, r)
  BY <1>1 DEF r
<1>4. DeleterLooked(d)'
  BY <1>2, <1>3, SetDeleterTypes, IdleDeleterLooked
<1>5. UNCHANGED <<row, object, attached, inVariant, published, editor, cleanup, late, removing>>
  BY DEF StartDelete
<1> QED
  BY <1>2, <1>3, <1>4, <1>5, DeleterReads

LEMMA ReadPostsKeeps ==
  ASSUME RemovalInv, NEW d \in Deleters, ReadPosts(d), UNCHANGED upload PROVE RemovalInv'
<1> DEFINE used == \E p \in Drafts : deleter[d].m \in attached[p]
           r == [deleter[d] EXCEPT !.pc = "variants", !.blocked = used]
<1>1. deleter[d] \in DeleterRow /\ deleter[d].m \in MediaIds
  BY DEF ReadPosts, RemovalInv, RemovalTypeOK
<1>2. used \in BOOLEAN
  OBVIOUS
<1>3. r.blocked = used
  BY <1>1 DEF DeleterRow
<1>4. used \/ \A p \in Drafts : deleter[d].m \notin Firm(p, "post")
  BY DEF Firm, References
<1> HIDE DEF used
<1>5. r \in DeleterRow /\ r.pc = "variants" /\ r.m = deleter[d].m
  BY <1>1, <1>2 DEF DeleterRow, DeleterPcs
<1> HIDE DEF r
<1>6. SetDeleter(d, r) /\ UNCHANGED <<row, object, attached, inVariant, published, editor, cleanup, late, removing>>
  BY DEF r, used, ReadPosts
<1>7. deleter'[d] = r
  BY <1>1, <1>5, <1>6, SetDeleterTypes
<1>8. \A p \in Drafts' : Firm(p, "post")' = Firm(p, "post") /\ p \in Drafts
  BY <1>6 DEF Firm, References, Drafts
<1>9. DeleterLooked(d)'
  BY <1>3, <1>4, <1>5, <1>7, <1>8 DEF DeleterLooked, Looked
<1> QED
  BY <1>1, <1>5, <1>6, <1>9, DeleterReads

LEMMA ReadVariantsKeeps ==
  ASSUME RemovalInv, NEW d \in Deleters, ReadVariants(d), UNCHANGED upload PROVE RemovalInv'
<1>1. UNCHANGED <<row, object, attached, inVariant, published, editor, cleanup, late, removing>>
  BY DEF ReadVariants
<1>2. CASE SetDeleter(d, NoDeleter)
  <2>1. DeleterLooked(d)'
    BY <1>2, IdleDeleter, SetDeleterTypes, IdleDeleterLooked
  <2> QED
    BY <1>1, <1>2, <2>1, IdleDeleter, DeleterReads
<1>3. CASE ~Used(d) /\ SetDeleter(d, [deleter[d] EXCEPT !.pc = "files"])
  <2> DEFINE r == [deleter[d] EXCEPT !.pc = "files"]
  <2>1. deleter[d] \in DeleterRow /\ deleter[d].m \in MediaIds
    BY DEF ReadVariants, RemovalInv, RemovalTypeOK
  <2>2. r \in DeleterRow /\ r.pc = "files" /\ r.m = deleter[d].m
    BY <2>1 DEF DeleterRow, DeleterPcs
  <2> HIDE DEF r
  <2>3. SetDeleter(d, r)
    BY <1>3 DEF r
  <2>4. deleter'[d] = r
    BY <2>1, <2>2, <2>3, SetDeleterTypes
  <2>5. Looked(deleter[d].m, "post")
    BY <1>3 DEF Used, ReadVariants, RemovalInv, DeleterLooked
  <2>6. Looked(deleter[d].m, "variant")
    BY <1>3 DEF Used, Looked, Firm, References
  <2>7. \A p \in Drafts', k \in Kinds : Firm(p, k)' = Firm(p, k) /\ p \in Drafts
    BY <1>1 DEF Firm, References, Drafts
  <2>8. DeleterLooked(d)'
    BY <2>2, <2>4, <2>5, <2>6, <2>7 DEF DeleterLooked, Looked, Kinds
  <2> QED
    BY <1>1, <2>1, <2>2, <2>3, <2>8, DeleterReads
<1> QED
  BY <1>2, <1>3 DEF ReadVariants

\* A deletion that goes on knows what it has looked for.
LEMMA DeleterStays ==
  ASSUME RemovalInv, NEW d \in Deleters, deleter[d].pc \in {"files", "references", "row"},
         deleter'[d].pc \in {"files", "references", "row"}, deleter'[d].m = deleter[d].m, FirmGrows
  PROVE  DeleterLooked(d)'
<1>1. PICK m : m = deleter[d].m
  OBVIOUS
<1>2. Going(m)
  BY <1>1 DEF Going
<1>3. Looked(m, "post") /\ Looked(m, "variant")
  BY <1>1 DEF RemovalInv, DeleterLooked
<1>4. Looked(m, "post")' /\ Looked(m, "variant")'
  BY <1>2, <1>3, LookedStays DEF Kinds
<1> QED
  BY <1>1, <1>4 DEF DeleterLooked

LEMMA DeleterMayDrop ==
  ASSUME RemovalInv, NEW d \in Deleters, deleter[d].pc \in {"files", "references", "row"}
  PROVE  /\ deleter[d] \in DeleterRow /\ deleter[d].m \in MediaIds
         /\ Going(deleter[d].m) /\ Looked(deleter[d].m, "post") /\ Looked(deleter[d].m, "variant")
  BY DEF RemovalInv, RemovalTypeOK, DeleterLooked, Going

LEMMA DeleteFilesKeeps ==
  ASSUME RemovalInv, NEW d \in Deleters, DeleteFiles(d), UNCHANGED upload PROVE RemovalInv'
<1> DEFINE m == deleter[d].m
           r == [deleter[d] EXCEPT !.pc = "references"]
<1>1. /\ deleter[d] \in DeleterRow /\ m \in MediaIds /\ deleter[d].pc = "files"
      /\ Going(m) /\ Looked(m, "post") /\ Looked(m, "variant")
  BY DeleterMayDrop DEF DeleteFiles
<1>2. r \in DeleterRow /\ r.pc = "references" /\ r.m = m
  BY <1>1 DEF DeleterRow, DeleterPcs
<1> HIDE DEF r
<1>3. SetDeleter(d, r) /\ UNCHANGED <<row, attached, inVariant, published, editor, cleanup, late>>
  BY DEF DeleteFiles, r
<1>4. object' = [object EXCEPT ![m] = "none"] /\ removing' = removing \cup {m}
  BY DEF DeleteFiles
<1>5. /\ deleter' \in [Deleters -> DeleterRow]
      /\ \A e \in Deleters : deleter'[e].pc # "idle" => deleter'[e].m \in MediaIds
      /\ deleter'[d] = r
      /\ \A e \in Deleters : e # d => deleter'[e] = deleter[e]
  BY <1>1, <1>2, <1>3, SetDeleterTypes
<1>6. /\ object' \in [MediaIds -> Hashes \cup {"none"}]
      /\ \A k \in MediaIds : k # m => object'[k] = object[k]
  BY <1>1, <1>4 DEF RemovalInv, RemovalTypeOK, FilesTypeOK
<1>7. RemovalTypeOK'
  BY <1>3, <1>5, <1>6 DEF RemovalInv, RemovalTypeOK, FilesTypeOK
<1>8. FirmGrows
  BY <1>3, SameReferences
<1>9. LossIsLooked
  BY <1>1, <1>3, <1>6 DEF LossIsLooked, Kept, Exists
<1>10. RowsShrink
  BY <1>3, <1>4, <1>6 DEF RowsShrink, Exists
<1>11. DeleterLooked(d)'
  BY <1>1, <1>2, <1>5, <1>8, DeleterStays
<1> QED
  BY <1>3, <1>5, <1>7, <1>8, <1>9, <1>10, <1>11, RemovalMoves

LEMMA DeleteFilesFailsKeeps ==
  ASSUME RemovalInv, NEW d \in Deleters, DeleteFilesFails(d), UNCHANGED upload PROVE RemovalInv'
<1>1. /\ SetDeleter(d, NoDeleter)
      /\ UNCHANGED <<row, object, attached, inVariant, published, editor, cleanup, late, removing>>
  BY DEF DeleteFilesFails
<1>2. DeleterLooked(d)'
  BY <1>1, IdleDeleter, SetDeleterTypes, IdleDeleterLooked
<1> QED
  BY <1>1, <1>2, IdleDeleter, DeleterReads

LEMMA RemovePostMediaKeeps ==
  ASSUME RemovalInv, NEW d \in Deleters, RemovePostMedia(d), UNCHANGED upload PROVE RemovalInv'
<1> DEFINE m == deleter[d].m
           copy == [p \in MediaPosts |-> IF m \in inVariant[p] THEN inVariant[p] ELSE {}]
           r == [deleter[d] EXCEPT !.pc = "row", !.copy = copy]
<1>1. deleter[d] \in DeleterRow /\ m \in MediaIds /\ deleter[d].pc = "references"
  BY DeleterMayDrop DEF RemovePostMedia
<1>2. copy \in [MediaPosts -> SUBSET MediaIds]
  BY DEF RemovalInv, RemovalTypeOK
<1> HIDE DEF copy
<1>3. r \in DeleterRow /\ r.pc = "row" /\ r.m = m
  BY <1>1, <1>2 DEF DeleterRow, DeleterPcs
<1> HIDE DEF r
<1>4. SetDeleter(d, r) /\ UNCHANGED <<row, object, inVariant, published, editor, cleanup, removing>>
  BY DEF RemovePostMedia, r, copy
<1>5. /\ attached' = [p \in MediaPosts |-> attached[p] \ {m}]
      /\ late' = late \ {<<p, m, "post">> : p \in MediaPosts}
  BY DEF RemovePostMedia
<1>6. /\ deleter' \in [Deleters -> DeleterRow]
      /\ \A e \in Deleters : deleter'[e].pc # "idle" => deleter'[e].m \in MediaIds
      /\ deleter'[d] = r
      /\ \A e \in Deleters : e # d => deleter'[e] = deleter[e]
  BY <1>1, <1>3, <1>4, SetDeleterTypes
<1>7. attached' \in [MediaPosts -> SUBSET MediaIds]
  BY <1>5 DEF RemovalInv, RemovalTypeOK
<1>8. RemovalTypeOK'
  BY <1>4, <1>6, <1>7 DEF RemovalInv, RemovalTypeOK, FilesTypeOK
<1>9. ASSUME NEW p \in MediaPosts, NEW k \in Kinds, NEW n \in Firm(p, k)' PROVE n \in Firm(p, k)
  <2>1. n \in References(p, k)' /\ <<p, n, k>> \notin late'
    BY DEF Firm
  <2>2. CASE k = "post"
    <3>1. n \in attached[p] /\ n # m
      BY <1>5, <2>1, <2>2 DEF References
    <3>2. <<p, n, k>> \notin {<<q, m, "post">> : q \in MediaPosts}
      BY <3>1
    <3> QED
      BY <1>5, <2>1, <2>2, <3>1, <3>2 DEF Firm, References
  <2>3. CASE k = "variant"
    <3>1. <<p, n, k>> \notin {<<q, m, "post">> : q \in MediaPosts}
      BY <2>3
    <3> QED
      BY <1>4, <1>5, <2>1, <2>3, <3>1 DEF Firm, References
  <2> QED
    BY <2>2, <2>3 DEF Kinds
<1>10. FirmGrows
  BY <1>4, <1>9 DEF FirmGrows, Drafts
<1>11. LossIsLooked /\ RowsShrink
  BY <1>4, SameFiles
<1>12. DeleterLooked(d)'
  BY <1>1, <1>3, <1>6, <1>10, DeleterStays
<1> QED
  BY <1>4, <1>6, <1>8, <1>10, <1>11, <1>12, RemovalMoves

LEMMA RewriteVariantKeeps ==
  ASSUME RemovalInv, NEW d \in Deleters, RewriteVariant(d), UNCHANGED upload PROVE RemovalInv'
<1> DEFINE m == deleter[d].m
<1>1. PICK q \in MediaPosts :
        /\ inVariant' = [inVariant EXCEPT ![q] = deleter[d].copy[q] \ {m}]
        /\ late' = (late \ {<<q, k, "variant">> : k \in {m} \cup (inVariant[q] \ deleter[d].copy[q])})
                      \cup {<<q, k, "variant">> : k \in (deleter[d].copy[q] \ {m}) \ inVariant[q]}
        /\ SetDeleter(d, [deleter[d] EXCEPT !.copy[q] = {}])
  BY DEF RewriteVariant
<1> DEFINE copy == deleter[d].copy[q]
           r == [deleter[d] EXCEPT !.copy[q] = {}]
<1>2. deleter[d] \in DeleterRow /\ m \in MediaIds /\ deleter[d].pc = "row" /\ copy \subseteq MediaIds
  BY DeleterMayDrop DEF RewriteVariant, DeleterRow
<1>3. r \in DeleterRow /\ r.pc = "row" /\ r.m = m
  BY <1>2 DEF DeleterRow, DeleterPcs
<1> HIDE DEF r
<1>4. SetDeleter(d, r) /\ UNCHANGED <<row, object, attached, published, editor, cleanup, removing>>
  BY <1>1 DEF RewriteVariant, r
<1>5. /\ deleter' \in [Deleters -> DeleterRow]
      /\ \A e \in Deleters : deleter'[e].pc # "idle" => deleter'[e].m \in MediaIds
      /\ deleter'[d] = r
      /\ \A e \in Deleters : e # d => deleter'[e] = deleter[e]
  BY <1>2, <1>3, <1>4, SetDeleterTypes
<1>6. inVariant \in [MediaPosts -> SUBSET MediaIds]
  BY DEF RemovalInv, RemovalTypeOK
<1>7. /\ inVariant' \in [MediaPosts -> SUBSET MediaIds]
      /\ \A p \in MediaPosts : inVariant'[p] = IF p = q THEN copy \ {m} ELSE inVariant[p]
  BY <1>1, <1>2, <1>6
<1>8. RemovalTypeOK'
  BY <1>4, <1>5, <1>7 DEF RemovalInv, RemovalTypeOK, FilesTypeOK
<1>9. ASSUME NEW p \in MediaPosts, NEW k \in Kinds, NEW n \in Firm(p, k)' PROVE n \in Firm(p, k)
  <2> DEFINE gone == {<<q, x, "variant">> : x \in {m} \cup (inVariant[q] \ copy)}
             new == {<<q, x, "variant">> : x \in (copy \ {m}) \ inVariant[q]}
  <2>1. n \in References(p, k)' /\ <<p, n, k>> \notin late' /\ late' = (late \ gone) \cup new
    BY <1>1 DEF Firm
  <2>2. CASE k = "post"
    <3>1. <<p, n, k>> \notin gone
      BY <2>2
    <3> HIDE DEF gone, new
    <3>2. n \in References(p, k)
      BY <1>4, <2>1, <2>2 DEF References
    <3> QED
      BY <2>1, <3>1, <3>2 DEF Firm
  <2>3. CASE k = "variant" /\ p # q
    <3>1. <<p, n, k>> \notin gone
      BY <2>3
    <3> HIDE DEF gone, new
    <3>2. n \in References(p, k)
      BY <1>7, <2>1, <2>3 DEF References
    <3> QED
      BY <2>1, <3>1, <3>2 DEF Firm
  <2>4. CASE k = "variant" /\ p = q
    <3>1. n \in copy /\ n # m
      BY <1>7, <2>1, <2>4 DEF References
    <3>2. n \in inVariant[q] \/ <<q, n, "variant">> \in new
      BY <3>1
    <3>3. n \in inVariant[q]
      BY <2>1, <2>4, <3>2
    <3>4. <<q, n, "variant">> \notin gone
      BY <3>1
    <3> HIDE DEF gone, new
    <3> QED
      BY <2>1, <2>4, <3>3, <3>4 DEF Firm, References
  <2> QED
    BY <2>2, <2>3, <2>4 DEF Kinds
<1>10. FirmGrows
  BY <1>4, <1>9 DEF FirmGrows, Drafts
<1>11. LossIsLooked /\ RowsShrink
  BY <1>4, SameFiles
<1>12. DeleterLooked(d)'
  BY <1>2, <1>3, <1>5, <1>10, DeleterStays
<1> QED
  BY <1>4, <1>5, <1>8, <1>10, <1>11, <1>12, RemovalMoves

\* The row of a medium goes.
LEMMA RowGoes ==
  ASSUME RemovalInv, NEW m \in MediaIds, Going(m), Looked(m, "post"), Looked(m, "variant"),
         row' = [row EXCEPT ![m] = GoneMedium], UNCHANGED <<object, removing>>
  PROVE  /\ row' \in [MediaIds -> MediumRow]
         /\ LossIsLooked /\ RowsShrink
<1>1. /\ row' \in [MediaIds -> MediumRow]
      /\ row'[m].status = "gone"
      /\ \A k \in MediaIds : k # m => row'[k] = row[k]
  BY GoneRow DEF RemovalInv, RemovalTypeOK, FilesTypeOK
<1>2. LossIsLooked
  BY <1>1 DEF LossIsLooked, Kept, Exists
<1>3. RowsShrink
  BY <1>1 DEF RowsShrink, Exists
<1> QED
  BY <1>1, <1>2, <1>3

LEMMA DeleteRowKeeps ==
  ASSUME RemovalInv, NEW d \in Deleters, DeleteRow(d), UNCHANGED upload PROVE RemovalInv'
<1> DEFINE m == deleter[d].m
<1>1. m \in MediaIds /\ Going(m) /\ Looked(m, "post") /\ Looked(m, "variant")
  BY DeleterMayDrop DEF DeleteRow
<1>2. /\ SetDeleter(d, NoDeleter) /\ row' = [row EXCEPT ![m] = GoneMedium]
      /\ UNCHANGED <<object, attached, inVariant, published, editor, cleanup, late, removing>>
  BY DEF DeleteRow
<1>3. /\ deleter' \in [Deleters -> DeleterRow]
      /\ \A e \in Deleters : deleter'[e].pc # "idle" => deleter'[e].m \in MediaIds
      /\ deleter'[d] = NoDeleter
      /\ \A e \in Deleters : e # d => deleter'[e] = deleter[e]
  BY <1>2, IdleDeleter, SetDeleterTypes
<1>4. row' \in [MediaIds -> MediumRow] /\ LossIsLooked /\ RowsShrink
  BY <1>1, <1>2, RowGoes
<1>5. RemovalTypeOK'
  BY <1>2, <1>3, <1>4 DEF RemovalInv, RemovalTypeOK, FilesTypeOK
<1>6. FirmGrows
  BY <1>2, SameReferences
<1>7. DeleterLooked(d)'
  BY <1>3, IdleDeleter, IdleDeleterLooked
<1> QED
  BY <1>2, <1>3, <1>4, <1>5, <1>6, <1>7, RemovalMoves

-----------------------------------------------------------------------------
\* The cleanup job.

LEMMA CleanupMoves ==
  ASSUME RemovalInv, cleanup' \in CleanupRow, cleanup'.pc = "row" => cleanup'.m \in cleanup'.todo,
         cleanup' = cleanup \/ CleanupLooked',
         FilesTypeOK', LossIsLooked, RowsShrink,
         UNCHANGED <<attached, inVariant, published, editor, deleter, late, upload>>
  PROVE  RemovalInv'
<1>1. RemovalTypeOK'
  BY DEF RemovalInv, RemovalTypeOK
<1>2. FirmGrows
  BY SameReferences
<1> QED
  BY <1>1, <1>2, RemovalMoves

LEMMA SameLooked ==
  ASSUME UNCHANGED <<attached, inVariant, published, late>>, NEW m, NEW k \in Kinds, Looked(m, k)
  PROVE  Looked(m, k)'
<1>1. \A p \in Drafts' : Firm(p, k)' = Firm(p, k) /\ p \in Drafts
  BY DEF Firm, References, Drafts
<1> QED
  BY <1>1 DEF Looked

LEMMA SelectUnusedKeeps ==
  ASSUME RemovalInv, SelectUnused, UNCHANGED upload PROVE RemovalInv'
<1> DEFINE r == [NoCleanup EXCEPT !.pc = "variants", !.todo = Unused]
<1>1. r \in CleanupRow /\ r.pc = "variants" /\ r.todo = Unused
  BY DEF NoCleanup, CleanupRow, Unused, Stored
<1> HIDE DEF r
<1>2. cleanup' = r /\ UNCHANGED <<row, object, attached, inVariant, published, editor, deleter, late, removing>>
  BY DEF SelectUnused, r
<1>3. \A m \in Unused : Looked(m, "post")
  BY DEF Unused, Looked, Firm, References, Drafts
<1>4. \A m \in Unused : Looked(m, "post")'
  BY <1>2, <1>3, SameLooked DEF Kinds
<1>5. CleanupLooked'
  BY <1>1, <1>2, <1>4 DEF CleanupLooked
<1>6. FilesTypeOK' /\ LossIsLooked /\ RowsShrink
  BY <1>2, SameFiles DEF RemovalInv, RemovalTypeOK, FilesTypeOK
<1> QED
  BY <1>1, <1>2, <1>5, <1>6, CleanupMoves

LEMMA SkipVariantMediaKeeps ==
  ASSUME RemovalInv, SkipVariantMedia, UNCHANGED upload PROVE RemovalInv'
<1> DEFINE todo == cleanup.todo \ VariantMediaIDs
           r == [cleanup EXCEPT !.pc = "delete", !.todo = @ \ VariantMediaIDs]
<1>1. r \in CleanupRow /\ r.pc = "delete" /\ r.todo = todo
  BY DEF RemovalInv, RemovalTypeOK, CleanupRow
<1> HIDE DEF r
<1>2. cleanup' = r /\ UNCHANGED <<row, object, attached, inVariant, published, editor, deleter, late, removing>>
  BY DEF SkipVariantMedia, r
<1>3. \A m \in todo : Looked(m, "post")
  BY DEF RemovalInv, CleanupLooked
<1>4. \A m \in todo : Looked(m, "variant")
  BY DEF VariantMediaIDs, Looked, Firm, References, Drafts
<1> HIDE DEF todo
<1>5. \A m \in todo : Looked(m, "post")' /\ Looked(m, "variant")'
  BY <1>2, <1>3, <1>4, SameLooked DEF Kinds
<1>6. CleanupLooked'
  BY <1>1, <1>2, <1>5 DEF CleanupLooked
<1>7. FilesTypeOK' /\ LossIsLooked /\ RowsShrink
  BY <1>2, SameFiles DEF RemovalInv, RemovalTypeOK, FilesTypeOK
<1> QED
  BY <1>1, <1>2, <1>6, <1>7, CleanupMoves

\* What is left to clean up when the cleanup goes on.
LEMMA TodoShrinks ==
  ASSUME RemovalInv, UNCHANGED <<attached, inVariant, published, late>>,
         cleanup'.todo \subseteq cleanup.todo, cleanup.pc \in {"delete", "row"}
  PROVE  CleanupLooked'
<1> SUFFICES ASSUME NEW m \in cleanup'.todo PROVE Looked(m, "post")' /\ Looked(m, "variant")'
  BY DEF CleanupLooked
<1>1. Looked(m, "post") /\ Looked(m, "variant")
  BY DEF RemovalInv, CleanupLooked
<1> QED
  BY <1>1, SameLooked DEF Kinds

LEMMA DeleteUnusedFileKeeps ==
  ASSUME RemovalInv, DeleteUnusedFile, UNCHANGED upload PROVE RemovalInv'
<1>1. PICK m \in cleanup.todo :
        /\ cleanup' = [cleanup EXCEPT !.pc = "row", !.m = m]
        /\ removing' = removing \cup {m}
        /\ object' = [object EXCEPT ![m] = "none"] \/ UNCHANGED object
  BY DEF DeleteUnusedFile
<1>2. UNCHANGED <<row, attached, inVariant, published, editor, deleter, late>> /\ cleanup.pc = "delete"
  BY DEF DeleteUnusedFile
<1>3. cleanup \in CleanupRow /\ m \in MediaIds
  BY DEF RemovalInv, RemovalTypeOK, CleanupRow
<1>4. /\ cleanup' \in CleanupRow /\ cleanup'.m = m
      /\ cleanup'.pc = "row" /\ cleanup'.todo = cleanup.todo
  BY <1>1, <1>3 DEF CleanupRow
<1>5. CleanupLooked'
  BY <1>2, <1>4, TodoShrinks
<1>6. Going(m) /\ Looked(m, "post") /\ Looked(m, "variant")
  BY <1>2 DEF Going, RemovalInv, CleanupLooked
<1>7. /\ object' \in [MediaIds -> Hashes \cup {"none"}]
      /\ \A k \in MediaIds : k # m => object'[k] = object[k]
  BY <1>1, <1>3 DEF RemovalInv, RemovalTypeOK, FilesTypeOK
<1>8. FilesTypeOK'
  BY <1>2, <1>7 DEF RemovalInv, RemovalTypeOK, FilesTypeOK
<1>9. LossIsLooked
  BY <1>2, <1>6, <1>7 DEF LossIsLooked, Kept, Exists
<1>10. RowsShrink
  BY <1>1, <1>2, <1>7 DEF RowsShrink, Exists
<1> QED
  BY <1>2, <1>4, <1>5, <1>8, <1>9, <1>10, CleanupMoves

LEMMA DeleteUnusedRowKeeps ==
  ASSUME RemovalInv, DeleteUnusedRow, UNCHANGED upload PROVE RemovalInv'
<1> DEFINE m == cleanup.m
<1>1. /\ row' = [row EXCEPT ![m] = GoneMedium] /\ cleanup.pc = "row"
      /\ cleanup' = [cleanup EXCEPT !.pc = "delete", !.todo = @ \ {m}, !.m = "none"]
      /\ UNCHANGED <<object, attached, inVariant, published, editor, deleter, late, removing>>
  BY DEF DeleteUnusedRow
<1>2. cleanup \in CleanupRow /\ m \in cleanup.todo /\ m \in MediaIds
  BY <1>1 DEF RemovalInv, RemovalTypeOK, CleanupRow
<1>3. cleanup' \in CleanupRow /\ cleanup'.pc = "delete" /\ cleanup'.todo \subseteq cleanup.todo
  BY <1>1, <1>2 DEF CleanupRow
<1>4. CleanupLooked'
  BY <1>1, <1>3, TodoShrinks
<1>5. Going(m) /\ Looked(m, "post") /\ Looked(m, "variant")
  BY <1>1, <1>2 DEF Going, RemovalInv, CleanupLooked
<1>6. row' \in [MediaIds -> MediumRow] /\ LossIsLooked /\ RowsShrink
  BY <1>1, <1>2, <1>5, RowGoes
<1>7. FilesTypeOK'
  BY <1>1, <1>6 DEF RemovalInv, RemovalTypeOK, FilesTypeOK
<1> QED
  BY <1>1, <1>3, <1>4, <1>6, <1>7, CleanupMoves

LEMMA EndCleanupKeeps ==
  ASSUME RemovalInv, EndCleanup, UNCHANGED upload PROVE RemovalInv'
<1>1. /\ cleanup' = NoCleanup
      /\ UNCHANGED <<row, object, attached, inVariant, published, editor, deleter, late, removing>>
  BY DEF EndCleanup
<1>2. CleanupLooked'
  BY <1>1, IdleCleanup DEF CleanupLooked
<1>3. FilesTypeOK' /\ LossIsLooked /\ RowsShrink
  BY <1>1, SameFiles DEF RemovalInv, RemovalTypeOK, FilesTypeOK
<1> QED
  BY <1>1, <1>2, <1>3, IdleCleanup, CleanupMoves

LEMMA LibraryServerDiesKeeps ==
  ASSUME RemovalInv, LibraryServerDies, UNCHANGED upload PROVE RemovalInv'
<1>1. /\ cleanup' = NoCleanup /\ deleter' = [d \in Deleters |-> NoDeleter] /\ editor' = NoEditor
      /\ UNCHANGED <<row, object, attached, inVariant, published, late, removing>>
  BY DEF LibraryServerDies
<1>2. \A d \in Deleters : deleter'[d] = NoDeleter
  BY <1>1
<1>3. RemovalTypeOK'
  BY <1>1, IdleCleanup, IdleDeleter, IdleEditor DEF RemovalInv, RemovalTypeOK, FilesTypeOK
<1>4. CleanupLooked'
  BY <1>1, IdleCleanup DEF CleanupLooked
<1>5. \A d \in Deleters : DeleterLooked(d)'
  BY <1>2, IdleDeleter, IdleDeleterLooked
<1>6. FirmGrows /\ LossIsLooked /\ RowsShrink
  BY <1>1, SameReferences, SameFiles
<1> QED
  BY <1>3, <1>4, <1>5, <1>6, RemovalMoves

-----------------------------------------------------------------------------
LEMMA FilledKeeps == Filled => RemovalInv
<1> DEFINE files == CHOOSE f \in [FirstMedia -> Hashes] :
                      \A m, n \in FirstMedia : f[m] = f[n] => m = n
<1>1. files \in [FirstMedia -> Hashes]
  BY FilledAssumption
<1> HIDE DEF files
<1> SUFFICES ASSUME Filled PROVE RemovalInv
  OBVIOUS
<1>2. /\ object = [m \in MediaIds |-> IF m \in FirstMedia THEN files[m] ELSE "none"]
      /\ row = [m \in MediaIds |-> IF m \in FirstMedia THEN Medium("ready", files[m]) ELSE NoMedium]
      /\ LibraryIdle /\ upload = [u \in MediaRequests |-> NoUpload]
  BY DEF Filled, files
<1>3. /\ NoMedium \in MediumRow /\ NoMedium.status = "none"
      /\ \A h \in Hashes : Medium("ready", h) \in MediumRow /\ Medium("ready", h).status = "ready"
  BY DEF NoMedium, Medium, MediumRow
<1>4. /\ row \in [MediaIds -> MediumRow] /\ object \in [MediaIds -> Hashes \cup {"none"}]
      /\ \A m \in MediaIds : row[m].status = IF m \in FirstMedia THEN "ready" ELSE "none"
      /\ \A m \in FirstMedia : object[m] # "none"
  BY <1>1, <1>2, <1>3, FilledAssumption, UploadAssumption
<1>5. RemovalTypeOK
  BY <1>2, <1>4, IdleCleanup, IdleDeleter, IdleEditor DEF RemovalTypeOK, FilesTypeOK, LibraryIdle
<1>6. RowsAreReady /\ ReadyMediaHasFile
  BY <1>4 DEF RowsAreReady, Exists, ReadyMediaHasFile
<1>7. StoredRoom
  <2>1. Stored = FirstMedia /\ Reserving = {}
    BY <1>2, <1>4, IdleUpload, FilledAssumption DEF Stored, Exists, Reserving
  <2>2. Cardinality(Reserving) = 0 /\ Cardinality(FirstMedia) \in Nat
    BY <2>1, FS_EmptySet, FS_CardinalityType, FilledAssumption
  <2> QED
    BY <2>1, <2>2, FilledAssumption, ReservingIsFinite DEF StoredRoom
<1>8. FirmIsKept
  BY <1>2 DEF FirmIsKept, Firm, References, Drafts, LibraryIdle
<1>9. CleanupLooked /\ \A d \in Deleters : DeleterLooked(d)
  BY <1>2, IdleCleanup, IdleDeleter DEF CleanupLooked, DeleterLooked, LibraryIdle
<1> QED
  BY <1>5, <1>6, <1>7, <1>8, <1>9 DEF RemovalInv

\* One step of a request, of a client, or the death of the server.
LEMMA StepUploads == UploadInv /\ UploadsNext => UploadInv'
<1> SUFFICES ASSUME UploadInv, UploadsNext PROVE UploadInv'
  OBVIOUS
<1>1. ASSUME NEW u \in MediaRequests,
             StartUpload(u) \/ SaveFile(u) \/ InsertRow(u) \/ CountUpload(u)
      PROVE  UploadInv'
  <2>1. CASE CountUpload(u)
    BY <2>1, ReplyKeeps DEF CountUpload
  <2> QED
    BY <1>1, <2>1, StartUploadKeeps, SaveFileKeeps, InsertRowKeeps
<1>2. ASSUME NEW u \in MediaRequests,
             StartSession(u) \/ ReserveUpload(u) \/ LoadSession(u) \/ ReadFile(u)
      PROVE  UploadInv'
  BY <1>2, StartSessionKeeps, ReserveUploadKeeps, LoadSessionKeeps, ReadFileKeeps
<1>3. ASSUME NEW u \in MediaRequests,
             SearchDuplicate(u) \/ DropDuplicateFile(u) \/ DropDuplicateRow(u) \/ Finalize(u)
      PROVE  UploadInv'
  BY <1>3, SearchDuplicateKeeps, DropDuplicateFileKeeps, DropDuplicateRowKeeps, FinalizeKeeps
<1>4. ASSUME NEW m \in MediaIds, ClientPuts(m) PROVE UploadInv'
  BY <1>4, ClientPutsKeeps
<1>5. CASE UploadServerDies
  BY <1>5, UploadServerDiesKeeps
<1> QED
  BY <1>1, <1>2, <1>3, <1>4, <1>5 DEF UploadsNext

\* One step of an edit, of a deletion, of the cleanup, or the death of the server.
LEMMA StepRemovals == ASSUME RemovalInv, LibraryNext, UNCHANGED upload PROVE RemovalInv'
<1>1. CASE ValidateMedia \/ WriteMedia \/ \E p \in MediaPosts : PostIsPublished(p)
  BY <1>1, ValidateMediaKeeps, WriteMediaKeeps, PostIsPublishedKeeps
<1>2. CASE \E m \in MediaIds : ToggleFavorite(m) \/ Ages(m)
  BY <1>2, ToggleFavoriteKeeps, AgesKeeps
<1>3. ASSUME NEW d \in Deleters,
             StartDelete(d) \/ ReadPosts(d) \/ ReadVariants(d) \/ DeleteFiles(d)
      PROVE  RemovalInv'
  BY <1>3, StartDeleteKeeps, ReadPostsKeeps, ReadVariantsKeeps, DeleteFilesKeeps
<1>4. ASSUME NEW d \in Deleters,
             DeleteFilesFails(d) \/ RemovePostMedia(d) \/ RewriteVariant(d) \/ DeleteRow(d)
      PROVE  RemovalInv'
  BY <1>4, DeleteFilesFailsKeeps, RemovePostMediaKeeps, RewriteVariantKeeps, DeleteRowKeeps
<1>5. CASE SelectUnused \/ SkipVariantMedia \/ DeleteUnusedFile \/ DeleteUnusedRow \/ EndCleanup
  BY <1>5, SelectUnusedKeeps, SkipVariantMediaKeeps, DeleteUnusedFileKeeps, DeleteUnusedRowKeeps,
     EndCleanupKeeps
<1>6. CASE LibraryServerDies
  BY <1>6, LibraryServerDiesKeeps
<1> QED
  BY <1>1, <1>2, <1>3, <1>4, <1>5, <1>6 DEF LibraryNext

LEMMA UploadsUnchanged == UploadInv /\ UNCHANGED mediaVars => UploadInv'
  BY DEF UploadInv, FilesTypeOK, FileInHand, ReadyMediaHasFile, StoredRoom, NothingAttached,
     Stored, Exists, Reserving, mediaVars, libraryVars, uploadVars

LEMMA RemovalsUnchanged == ASSUME RemovalInv, UNCHANGED mediaVars PROVE RemovalInv'
<1>1. UNCHANGED <<row, object, attached, inVariant, published, editor, deleter, cleanup, late, removing, upload>>
  BY DEF mediaVars, libraryVars, uploadVars
<1>2. RemovalTypeOK'
  BY <1>1 DEF RemovalInv, RemovalTypeOK, FilesTypeOK
<1>3. FirmGrows /\ LossIsLooked /\ RowsShrink
  BY <1>1, SameReferences, SameFiles
<1> QED
  BY <1>1, <1>2, <1>3, RemovalMoves

LEMMA RemovalsAreSafe == RemovalInv => LibrarySafety
<1> SUFFICES ASSUME RemovalInv PROVE LibrarySafety
  OBVIOUS
<1>1. AttachedMediaIsKept
  BY DEF AttachedMediaIsKept, RemovalInv, FirmIsKept, Firm, References, Kinds
<1> QED
  BY <1>1, RoomIsNear DEF RemovalInv, LibrarySafety

LEMMA UploadsAreSafe == UploadInv => LibrarySafety
<1> SUFFICES ASSUME UploadInv PROVE LibrarySafety
  OBVIOUS
<1>1. AttachedMediaIsKept
  BY DEF AttachedMediaIsKept, UploadInv, NothingAttached, Drafts
<1> QED
  BY <1>1, RoomIsNear DEF UploadInv, LibrarySafety

\* What holds while media are removed, and what holds while they are uploaded.
MediaAreaInv ==
  /\ area \in {"deleting", "cleaning"} => RemovalInv
  /\ area \notin {"deleting", "cleaning"} => UploadInv

LEMMA StepMediaAreas ==
  ASSUME MediaAreaInv, [WorkspaceNext]_workspaceVars PROVE MediaAreaInv'
<1>1. area' = area
  BY DEF WorkspaceNext, workspaceVars
<1>2. CASE UNCHANGED mediaVars
  BY <1>1, <1>2, UploadsUnchanged, RemovalsUnchanged DEF MediaAreaInv
<1>3. CASE area = "uploads" /\ UploadsNext
  BY <1>1, <1>3, StepUploads DEF MediaAreaInv
<1>4. CASE area = "sessions" /\ (UploadsNext \/ ((Cleanup \/ \E m \in Pending : Ages(m)) /\ UNCHANGED uploadVars))
  BY <1>1, <1>4, StepUploads, CleanupBesideUploads DEF MediaAreaInv
<1>5. CASE area \in {"deleting", "cleaning"} /\ LibraryNext /\ UNCHANGED uploadVars
  <2>1. RemovalInv /\ UNCHANGED upload
    BY <1>5 DEF MediaAreaInv, uploadVars
  <2>2. RemovalInv'
    BY <1>5, <2>1, StepRemovals
  <2> QED
    BY <1>1, <1>5, <2>2 DEF MediaAreaInv
<1>6. CASE Team \/ Settings \/ UNCHANGED workspaceVars
  <2>1. UNCHANGED mediaVars
    BY <1>6 DEF Team, Settings, workspaceVars
  <2> QED
    BY <1>2, <2>1
<1>7. CASE Media
  BY <1>3, <1>4, <1>5, <1>7 DEF Media
<1> QED
  BY <1>6, <1>7 DEF WorkspaceNext

\* What posts wait to publish with is kept, whoever deletes or cleans up beside
\* the edit; a medium that is ready has its file until a removal of it begins;
\* and requests that are checked at once pass the quota by one file each.
THEOREM LibrarySafetyHolds == WorkspaceSpec => []LibrarySafety
<1>1. WorkspaceInit => MediaAreaInv
  BY FilledKeeps, InitUploads DEF WorkspaceInit, MediaAreaInv
<1>2. MediaAreaInv /\ [WorkspaceNext]_workspaceVars => MediaAreaInv'
  BY StepMediaAreas
<1>3. MediaAreaInv => LibrarySafety
  BY RemovalsAreSafe, UploadsAreSafe DEF MediaAreaInv
<1> QED
  BY <1>1, <1>2, <1>3, PTL DEF WorkspaceSpec
=============================================================================
