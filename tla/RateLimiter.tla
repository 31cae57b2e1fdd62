---------------------------- MODULE RateLimiter -----------------------------
(* services/ratelimit: a counter per key and fixed window, used by the      *)
(* sign-in handlers.  One key is modelled; keys do not interact.            *)
EXTENDS Naturals, Sequences

CONSTANTS
  Limit,      \* attempts a window takes
  Window,     \* length of a window, in ticks of the clock
  MaxClock    \* bound: the clock stops here

ASSUME LimiterAssumption == Limit \in Nat \ {0} /\ Window \in Nat \ {0} /\ MaxClock \in Nat

VARIABLES
  now,        \* the clock
  bucket,     \* the window of the key, {} before the first attempt
  accepted    \* history: when each attempt was let through, in order

limiterVars == <<now, bucket, accepted>>

LimiterInit ==
  /\ now = 0
  /\ bucket = {}
  /\ accepted = <<>>

Tick == now < MaxClock /\ now' = now + 1 /\ UNCHANGED <<bucket, accepted>>

\* The window of the last attempt has passed.
WindowPassed(b) == now - b.windowStart >= Window

\* Mutant: one attempt more.
FullTooLate(b) == b.count > Limit

\* The window has taken its attempts.
Full(b) == b.count >= Limit

\* Allow: a fresh window, one more attempt in the window, or a refusal
\* (which changes nothing).
Allow ==
  /\ \/ /\ \A b \in bucket : WindowPassed(b)
        /\ bucket' = {[windowStart |-> now, count |-> 1]}
     \/ \E b \in bucket :
          /\ ~WindowPassed(b) /\ ~Full(b)
          /\ bucket' = {[b EXCEPT !.count = @ + 1]}
  /\ accepted' = Append(accepted, now)
  /\ UNCHANGED now

LimiterNext == Tick \/ Allow

-----------------------------------------------------------------------------

\* Windows are fixed, not sliding, so a stretch as long as a window may see
\* the end of one and the start of the next.  It still lets through fewer than
\* twice the limit, because the earlier window was opened before the stretch:
\* of twice as many attempts, the last comes a window after the first.
AttemptsBounded ==
  \A i, j \in DOMAIN accepted :
    j >= i + 2 * Limit - 1 => accepted[j] >= accepted[i] + Window
=============================================================================
