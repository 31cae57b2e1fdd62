----------------------------- MODULE AccountSets -----------------------------
(* Sets of social accounts: one of them is the default the composer starts  *)
(* with (handlers/sets.go).  Requests validate accounts, or read the set,   *)
(* before the transaction that writes; disconnecting an account takes it    *)
(* out of every set (handlers/oauth.go).  Transactions run one at a time,   *)
(* as on SQLite's one connection.                                           *)
EXTENDS Naturals, FiniteSets

CONSTANTS
  SetIds,
  SetAccounts,  \* social accounts of the workspace
  SetRequests   \* requests that create, update or extend a set

VARIABLES
  set,       \* rows of social_media_sets
  inSet,     \* social_media_set_accounts
  connected, \* accounts with is_active
  setRequest,
  carried,   \* sets whose default flag an update wrote from what it had read
  lateIn     \* accounts put in a set that were disconnected after the check

setVars == <<set, inSet, connected, setRequest, carried, lateIn>>

-----------------------------------------------------------------------------
NoSet == [exists |-> FALSE, default |-> FALSE]
NoSetRequest == [pc |-> "idle", id |-> "none", default |-> FALSE, accounts |-> {}]

SetsInit ==
  /\ set = [s \in SetIds |-> NoSet]
  /\ inSet = [s \in SetIds |-> {}]
  /\ connected = SetAccounts
  /\ setRequest = [r \in SetRequests |-> NoSetRequest]
  /\ carried = {} /\ lateIn = {}

InDefault == {s \in SetIds : set[s].default}
UnusedSets == {s \in SetIds : ~set[s].exists /\ inSet[s] = {}
                               /\ \A r \in SetRequests : setRequest[r].id # s}

\* Accounts of a request that were disconnected since they were validated.
Late(s, accounts) == {<<s, a>> : a \in accounts \ connected}

Begin(r, pc, s, default, accounts) ==
  /\ setRequest[r].pc = "idle"
  /\ setRequest' = [setRequest EXCEPT ![r] =
       [pc |-> pc, id |-> s, default |-> default, accounts |-> accounts]]
  /\ UNCHANGED <<set, inSet, connected, carried, lateIn>>

Finish(r) == setRequest' = [setRequest EXCEPT ![r] = NoSetRequest]

\* validateAccountsBelongToWorkspace, before the transaction.
StartCreateSet(r) ==
  \E default \in BOOLEAN, accounts \in SUBSET connected :
    Begin(r, "create", "none", default, accounts)

\* Mutant: the new default is written, and the old one stays.
ClearedNever(rows) == rows

\* The default of the workspace is taken from every set.
Cleared(rows) == [s \in SetIds |-> [rows[s] EXCEPT !.default = FALSE]]

CreateSet(r) ==
  LET q == setRequest[r] IN
  /\ q.pc = "create" /\ UnusedSets # {}
  /\ LET s == CHOOSE x \in UnusedSets : TRUE
     IN  /\ set' = [(IF q.default THEN Cleared(set) ELSE set) EXCEPT
                      ![s] = [exists |-> TRUE, default |-> q.default]]
         /\ inSet' = [inSet EXCEPT ![s] = q.accounts]
         /\ lateIn' = lateIn \cup Late(s, q.accounts)
         /\ carried' = IF q.default THEN {} ELSE carried
  /\ Finish(r)
  /\ UNCHANGED connected

\* The set is read before the transaction, and written as a whole row.
StartUpdateSet(r) ==
  \E s \in {x \in SetIds : set[x].exists} : Begin(r, "update", s, set[s].default, {})

\* The request gives a default or, as a change of the name does, leaves it:
\* then the flag is written as it was read.
UpdateSet(r) ==
  LET q == setRequest[r]
      write(rows, default) ==
        set' = [rows EXCEPT ![q.id].default = rows[q.id].exists /\ default]
  IN  /\ q.pc = "update"
      /\ \/ write(Cleared(set), TRUE) /\ carried' = {}
         \/ write(set, FALSE) /\ carried' = carried \ {q.id}
         \/ /\ write(set, q.default)
            /\ carried' = IF q.default /\ set[q.id].exists /\ ~set[q.id].default
                          THEN carried \cup {q.id} ELSE carried
      /\ Finish(r)
      /\ UNCHANGED <<inSet, connected, lateIn>>

\* Posting times of the set stay (posting_schedules.set_id).
DeleteSet(s) ==
  /\ set[s].exists
  /\ set' = [set EXCEPT ![s] = NoSet]
  /\ inSet' = [inSet EXCEPT ![s] = {}]
  /\ lateIn' = {l \in lateIn : l[1] # s}
  /\ carried' = carried \ {s}
  /\ UNCHANGED <<connected, setRequest>>

StartAddAccounts(r) ==
  \E s \in {x \in SetIds : set[x].exists}, accounts \in (SUBSET connected) \ {{}} :
    Begin(r, "add", s, FALSE, accounts)

\* Nothing tells that the set is still there.
AddSetAccounts(r) ==
  LET q == setRequest[r] IN
  /\ q.pc = "add"
  /\ inSet' = [inSet EXCEPT ![q.id] = @ \cup q.accounts]
  /\ lateIn' = lateIn \cup Late(q.id, q.accounts \ inSet[q.id])
  /\ Finish(r)
  /\ UNCHANGED <<set, connected, carried>>

RemoveSetAccount(s, a) ==
  /\ set[s].exists
  /\ inSet' = [inSet EXCEPT ![s] = @ \ {a}]
  /\ lateIn' = lateIn \ {<<s, a>>}
  /\ UNCHANGED <<set, connected, setRequest, carried>>

\* Mutant: the account is only marked, and stays where it is.
DisconnectKeepsSets(a) ==
  /\ a \in connected
  /\ connected' = connected \ {a}
  /\ UNCHANGED <<set, inSet, setRequest, carried, lateIn>>

\* An account is not connected again: that makes a new one.
DisconnectAccount(a) ==
  /\ a \in connected
  /\ connected' = connected \ {a}
  /\ inSet' = [s \in SetIds |-> inSet[s] \ {a}]
  /\ lateIn' = {l \in lateIn : l[2] # a}
  /\ UNCHANGED <<set, setRequest, carried>>

SetsNext ==
  \/ \E r \in SetRequests :
       \/ StartCreateSet(r) \/ CreateSet(r) \/ StartUpdateSet(r) \/ UpdateSet(r)
       \/ StartAddAccounts(r) \/ AddSetAccounts(r)
  \/ \E s \in SetIds : DeleteSet(s) \/ \E a \in SetAccounts : RemoveSetAccount(s, a)
  \/ \E a \in SetAccounts : DisconnectAccount(a)

SetsSpec == SetsInit /\ [][SetsNext]_setVars

-----------------------------------------------------------------------------
(* Properties *)

\* A workspace has one default set at most, but for sets whose flag an update
\* of something else wrote back from what it had read.
OneDefaultSet == Cardinality(InDefault \ carried) <= 1

\* An account in a set is connected, unless it was disconnected between the
\* check of the request that put it there and its transaction.
SetsHoldConnectedAccounts ==
  \A s \in SetIds : \A a \in inSet[s] : a \in connected \/ <<s, a>> \in lateIn

\* The safety of account sets (UpdateSet, AddSetAccounts, DisconnectAccount).
SetSafety == OneDefaultSet /\ SetsHoldConnectedAccounts
=============================================================================
