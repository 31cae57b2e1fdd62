------------------------------ MODULE OneShot -------------------------------
(* What the one-time codes of the server promise: a ticket is granted by a  *)
(* user at most once, and buys at most one thing, after it was granted.  A  *)
(* ticket may be lost: granted and never spent.                             *)
EXTENDS Naturals

CONSTANT Tickets

VARIABLES
  granted,   \* tickets a user agreed to
  spent      \* how many things each ticket bought

OneShotInit == granted = {} /\ spent = [k \in Tickets |-> 0]

Grant(k) == k \notin granted /\ granted' = granted \cup {k} /\ UNCHANGED spent

Spend(k) ==
  /\ k \in granted
  /\ spent[k] = 0
  /\ spent' = [spent EXCEPT ![k] = 1]
  /\ UNCHANGED granted

OneShotNext == \E k \in Tickets : Grant(k) \/ Spend(k)

OneShotSpec == OneShotInit /\ [][OneShotNext]_<<granted, spent>>
=============================================================================
