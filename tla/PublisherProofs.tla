--------------------------- MODULE PublisherProofs --------------------------
(***************************************************************************)
(* Safety of the publisher for threads of any length, any set of accounts, *)
(* any limits and any number of faults.                                    *)
(***************************************************************************)
EXTENDS Publisher, TLAPS

\* A destination has been taken from the list and is being published.
InHand(r) == r.pc \in {"record", "call", "failed", "save", "saved"}

\* What a run still has to publish, and what it is publishing, did not succeed
\* before, and nothing is published twice by one pass over the list.
Fresh(r) ==
  /\ \A a \in Accounts : a \in r.todo => dest[r.at][a].status # "success"
  /\ InHand(r) => /\ r.acct \in Accounts
                  /\ r.acct \notin r.todo
                  /\ dest[r.at][r.acct].status # "success"

\* The platform has answered and the row does not say so yet.
Landed(r, p, a) == r.pc \in {"save", "saved"} /\ r.at = p /\ r.acct = a

\* No edit replaces the rows under a run.
RowsStay ==
  /\ \A p \in Posts : gen[p] = 0
  /\ \A w \in Workers : run[w].gen = 0

\* A destination that has neither succeeded nor just been published is not at
\* the platform, except for one publication per fault.
Accounted ==
  \A w \in Workers, p \in Posts, a \in Accounts :
    dest[p][a].status # "success" /\ ~Landed(run[w], p, a) => live[p][a] <= faults

DupInv ==
  /\ PublisherTypeOK
  /\ RowsStay
  /\ \A w \in Workers : Fresh(run[w])
  /\ Accounted
  /\ DuplicatesCostFaults

OneWorker == \A v, w \in Workers : v = w

-----------------------------------------------------------------------------
(* Types of the pieces.                                                    *)

LEMMA NextPostRun ==
  ASSUME NEW r \in Run
  PROVE  /\ NextPost(r) \in Run
         /\ NextPost(r).pc \in {"dests", "return"}
         /\ NextPost(r).gen = r.gen
         /\ NextPost(r).ok = r.ok
         /\ NextPost(r).last = r.last
         /\ NextPost(r).pc = "dests" =>
              /\ r.at < r.last /\ NextPost(r).at = r.at + 1
              /\ NextPost(r).todo = {} /\ NextPost(r).okNow = {}
         /\ NextPost(r).pc = "return" =>
              NextPost(r).at = r.at /\ NextPost(r).todo = r.todo
<1> DEFINE n == r.at + 1
<1>1. CASE r.at < r.last
  <2>1. n \in Posts
    BY <1>1, PublisherAssumption DEF Run, Posts
  <2>2. NextPost(r) = [r EXCEPT !.pc = "dests", !.at = n, !.todo = {}, !.okNow = {},
                                !.acct = NoAccount, !.reply = FALSE, !.again = FALSE]
    BY <1>1 DEF NextPost
  <2> HIDE DEF n
  <2>3. FALSE \in BOOLEAN /\ {} \in SUBSET Accounts /\ NoAccount \in Accounts \cup {NoAccount}
    OBVIOUS
  <2>4. "dests" \in RunPC /\ "dests" # "return"
    BY DEF RunPC
  <2>5. NextPost(r) \in Run
    BY <2>1, <2>2, <2>3, <2>4 DEF Run
  <2>6. /\ NextPost(r).pc = "dests" /\ NextPost(r).gen = r.gen /\ NextPost(r).ok = r.ok
        /\ NextPost(r).last = r.last /\ NextPost(r).at = n
    BY <2>2 DEF Run
  <2>7. NextPost(r).todo = {} /\ NextPost(r).okNow = {}
    BY <2>2 DEF Run
  <2> QED
    BY <1>1, <2>4, <2>5, <2>6, <2>7 DEF n
<1>2. CASE ~(r.at < r.last)
  BY <1>2 DEF NextPost, Run, RunPC
<1> QED
  BY <1>1, <1>2

LEMMA RunStep ==
  ASSUME run \in [Workers -> Run], NEW w \in Workers, NEW r \in Run,
         run' = [run EXCEPT ![w] = r]
  PROVE  /\ run' \in [Workers -> Run]
         /\ run'[w] = r
         /\ \A v \in Workers : v # w => run'[v] = run[v]
  OBVIOUS

LEMMA InitDupInv == PublisherInit => DupInv
  BY PublisherAssumption
  DEF PublisherInit, CreatedAs, DupInv, PublisherTypeOK, RowsStay, Fresh, InHand, Accounted, Landed,
      DuplicatesCostFaults, Posts, PostStatus, DestRow, NewDest, Run, RunPC, Idle

-----------------------------------------------------------------------------
(* Three kinds of step.                                                    *)

\* The destinations and the platforms are left alone.
LEMMA LocalStep ==
  ASSUME OneWorker, DupInv, NEW w \in Workers, NEW r \in Run,
         run' = [run EXCEPT ![w] = r], UNCHANGED <<dest, gen, live, detached>>,
         post' \in [Posts -> PostStatus], published' \in Nat, writes' \in Nat,
         counted' \in [Posts -> Nat],
         faults' \in Nat, faults' >= faults,
         r.gen = 0, Fresh(r),
         \A p \in Posts, a \in Accounts :
           Landed(run[w], p, a) => Landed(r, p, a) \/ faults' > faults
  PROVE  DupInv'
<1>1. run' \in [Workers -> Run] /\ \A v \in Workers : v = w /\ run'[v] = r
  BY RunStep DEF OneWorker, DupInv, PublisherTypeOK
<1>2. PublisherTypeOK'
  BY <1>1 DEF DupInv, PublisherTypeOK
<1>3. RowsStay'
  BY <1>1 DEF DupInv, RowsStay
<1>4. \A v \in Workers : Fresh(run[v])'
  BY <1>1 DEF Fresh, InHand
<1>5. DuplicatesCostFaults'
  BY DEF DupInv, DuplicatesCostFaults, PublisherTypeOK
<1>6. Accounted'
  <2> SUFFICES ASSUME NEW p \in Posts, NEW a \in Accounts,
                      dest[p][a].status # "success", ~Landed(r, p, a)
               PROVE  live[p][a] <= faults'
    BY <1>1 DEF Accounted, Landed
  <2>1. live[p][a] \in Nat /\ faults \in Nat
    BY DEF DupInv, PublisherTypeOK
  <2>2. CASE Landed(run[w], p, a)
    BY <2>1, <2>2 DEF DupInv, DuplicatesCostFaults
  <2>3. CASE ~Landed(run[w], p, a)
    BY <2>1, <2>3 DEF DupInv, Accounted
  <2> QED
    BY <2>2, <2>3
<1> QED
  BY <1>2, <1>3, <1>4, <1>5, <1>6 DEF DupInv

\* One row of post_destinations is written.
LEMMA RowStep ==
  ASSUME OneWorker, DupInv, NEW w \in Workers, NEW r \in Run,
         NEW a \in Accounts, NEW row \in DestRow,
         run' = [run EXCEPT ![w] = r], UNCHANGED <<post, gen, published, writes, counted, live, detached, faults>>,
         SetDest(w, run[w].at, a, row),
         r.gen = 0, r.at = run[w].at, r.todo \subseteq run[w].todo, a \notin r.todo,
         InHand(r) => InHand(run[w]) /\ r.acct = run[w].acct /\ r.acct = a /\ row.status # "success",
         \/ row.status = "success"
         \/ Landed(r, run[w].at, a)
         \/ dest[run[w].at][a].status # "success" /\ ~Landed(run[w], run[w].at, a),
         \A p \in Posts, b \in Accounts :
           Landed(run[w], p, b) => Landed(r, p, b) \/ (p = run[w].at /\ b = a)
  PROVE  DupInv'
<1> DEFINE at == run[w].at
<1>1. run' \in [Workers -> Run] /\ \A v \in Workers : v = w /\ run'[v] = r
  BY RunStep DEF OneWorker, DupInv, PublisherTypeOK
<1>2. at \in Posts /\ dest \in [Posts -> [Accounts -> DestRow]] /\ gen[at] = run[w].gen
  BY DEF DupInv, PublisherTypeOK, RowsStay, Run
<1>3. dest' = [dest EXCEPT ![at][a] = row]
  BY <1>2 DEF SetDest
<1> HIDE DEF at
<1>4. /\ dest' \in [Posts -> [Accounts -> DestRow]]
      /\ dest'[at][a] = row
      /\ \A p \in Posts, b \in Accounts : p # at \/ b # a => dest'[p][b] = dest[p][b]
  BY <1>2, <1>3
<1>5. PublisherTypeOK'
  BY <1>1, <1>4 DEF DupInv, PublisherTypeOK
<1>6. RowsStay'
  BY <1>1 DEF DupInv, RowsStay
<1>7. \A v \in Workers : Fresh(run[v])'
  <2>1. Fresh(run[w]) /\ r.at = at /\ at = run[w].at
    BY DEF DupInv, at
  <2>2. \A b \in Accounts : b \in r.todo => dest'[r.at][b].status # "success"
    BY <2>1, <1>2, <1>4 DEF Fresh
  <2>3. InHand(r) => /\ r.acct \in Accounts
                     /\ r.acct \notin r.todo
                     /\ dest'[r.at][r.acct].status # "success"
    BY <2>1, <1>4
  <2> QED
    BY <1>1, <2>2, <2>3 DEF Fresh, InHand
<1>8. DuplicatesCostFaults'
  BY DEF DupInv, DuplicatesCostFaults
<1>9. Accounted'
  <2> SUFFICES ASSUME NEW p \in Posts, NEW b \in Accounts,
                      dest'[p][b].status # "success", ~Landed(r, p, b)
               PROVE  live[p][b] <= faults
    BY <1>1 DEF Accounted, Landed
  <2>1. CASE p = at /\ b = a
    BY <2>1, <1>4 DEF DupInv, Accounted, at
  <2>2. CASE ~(p = at /\ b = a)
    <3>1. ~Landed(run[w], p, b)
      BY <2>2 DEF at
    <3> QED
      BY <2>2, <3>1, <1>4 DEF DupInv, Accounted
  <2> QED
    BY <2>1, <2>2
<1> QED
  BY <1>5, <1>6, <1>7, <1>8, <1>9 DEF DupInv

\* The platform publishes the destination in hand.
LEMMA AppearStep ==
  ASSUME OneWorker, DupInv, NEW w \in Workers, NEW r \in Run,
         At(w, "call"), Appear(w),
         run' = [run EXCEPT ![w] = r], UNCHANGED dbVars,
         r.gen = 0, r.at = run[w].at, r.acct = run[w].acct, r.todo = run[w].todo,
         \/ r.pc \in {"save", "saved"} /\ faults' \in {faults, faults + 1}
         \/ r.pc = "failed" /\ faults' = faults + 1
  PROVE  DupInv'
<1> DEFINE at == run[w].at
           acct == run[w].acct
<1>1. run' \in [Workers -> Run] /\ \A v \in Workers : v = w /\ run'[v] = r
  BY RunStep DEF OneWorker, DupInv, PublisherTypeOK
<1>2. Fresh(run[w]) /\ InHand(run[w]) /\ at \in Posts /\ acct \in Accounts
      /\ live \in [Posts -> [Accounts -> Nat]] /\ detached \subseteq Posts \X Accounts /\ faults \in Nat
  BY DEF DupInv, PublisherTypeOK, Run, Fresh, InHand, At
<1>3. dest[at][acct].status # "success"
  BY <1>2 DEF Fresh
<1>4. live' = [live EXCEPT ![at][acct] = live[at][acct] + 1]
      /\ detached' \subseteq Posts \X Accounts
  BY <1>2 DEF Appear
<1>5. live[at][acct] <= faults
  BY <1>2, <1>3 DEF DupInv, Accounted, Landed, At
<1>6. r.pc \in {"save", "saved", "failed"} /\ r.at = at /\ r.acct = acct /\ r.todo = run[w].todo
  OBVIOUS
<1> HIDE DEF at, acct
<1>7. /\ live' \in [Posts -> [Accounts -> Nat]]
      /\ live'[at][acct] = live[at][acct] + 1
      /\ \A p \in Posts, b \in Accounts : p # at \/ b # acct => live'[p][b] = live[p][b]
  BY <1>2, <1>4
<1>8. faults' \in Nat /\ faults' >= faults /\ faults' <= faults + 1
  BY <1>2
<1>9. PublisherTypeOK'
  BY <1>1, <1>4, <1>7, <1>8 DEF DupInv, PublisherTypeOK, dbVars
<1>10. RowsStay'
  BY <1>1 DEF DupInv, RowsStay, dbVars
<1>11. \A v \in Workers : Fresh(run[v])'
  <2>1. \A b \in Accounts : b \in r.todo => dest[r.at][b].status # "success"
    BY <1>2, <1>6 DEF Fresh, at
  <2>2. r.acct \in Accounts /\ r.acct \notin r.todo /\ dest[r.at][r.acct].status # "success"
    BY <1>2, <1>6 DEF Fresh, at, acct
  <2> QED
    BY <1>1, <2>1, <2>2 DEF Fresh, InHand, dbVars
<1>12. DuplicatesCostFaults'
  <2> SUFFICES ASSUME NEW p \in Posts, NEW b \in Accounts
               PROVE  live'[p][b] <= 1 + faults'
    BY DEF DuplicatesCostFaults
  <2>1. CASE p = at /\ b = acct
    BY <2>1, <1>2, <1>5, <1>7, <1>8
  <2>2. CASE ~(p = at /\ b = acct)
    BY <2>2, <1>2, <1>7, <1>8 DEF DupInv, DuplicatesCostFaults
  <2> QED
    BY <2>1, <2>2
<1>13. Accounted'
  <2> SUFFICES ASSUME NEW p \in Posts, NEW b \in Accounts,
                      dest[p][b].status # "success", ~Landed(r, p, b)
               PROVE  live'[p][b] <= faults'
    BY <1>1 DEF Accounted, Landed, dbVars
  <2>1. CASE p = at /\ b = acct
    BY <2>1, <1>2, <1>5, <1>6, <1>7 DEF Landed
  <2>2. CASE ~(p = at /\ b = acct)
    <3>1. ~Landed(run[w], p, b)
      BY DEF At, Landed
    <3>2. live[p][b] <= faults
      BY <3>1 DEF DupInv, Accounted
    <3> QED
      BY <2>2, <3>2, <1>2, <1>7, <1>8
  <2> QED
    BY <2>1, <2>2
<1> QED
  BY <1>9, <1>10, <1>11, <1>12, <1>13 DEF DupInv

-----------------------------------------------------------------------------
(* One step per action.                                                    *)

LEMMA GotoRun ==
  ASSUME DupInv, NEW w \in Workers, NEW pc \in RunPC, Goto(w, pc)
  PROVE  \E r \in Run :
           /\ run' = [run EXCEPT ![w] = r]
           /\ r.pc = pc /\ r.gen = 0
           /\ r.at = run[w].at /\ r.last = run[w].last /\ r.todo = run[w].todo
           /\ r.ok = run[w].ok /\ r.okNow = run[w].okNow /\ r.acct = run[w].acct
<1>1. run \in [Workers -> Run] /\ run[w] \in Run /\ run[w].gen = 0
  BY DEF DupInv, PublisherTypeOK, RowsStay
<1> DEFINE r == [run[w] EXCEPT !.pc = pc]
<1>2. run' = [run EXCEPT ![w] = r]
  BY <1>1 DEF Goto
<1>3. r \in Run
  BY <1>1 DEF Run
<1>4. /\ r.pc = pc /\ r.gen = 0
      /\ r.at = run[w].at /\ r.last = run[w].last /\ r.todo = run[w].todo
      /\ r.ok = run[w].ok /\ r.okNow = run[w].okNow /\ r.acct = run[w].acct
  BY <1>1 DEF Run
<1> QED
  BY <1>2, <1>3, <1>4

LEMMA SetPostType ==
  ASSUME DupInv, NEW p \in Posts, NEW status \in PostStatus, SetPost(p, status)
  PROVE  post' \in [Posts -> PostStatus]
  BY DEF DupInv, PublisherTypeOK, SetPost

\* The run goes on with nothing in hand and nothing new to do, and no
\* publication is forgotten without a fault.
Rests(w, r) ==
  /\ r \in Run /\ r.gen = 0
  /\ run' = [run EXCEPT ![w] = r]
  /\ ~InHand(r)
  /\ r.todo = {} \/ (r.at = run[w].at /\ r.todo \subseteq run[w].todo)
  /\ run[w].pc \in {"save", "saved"} => faults' > faults

FaultsGrow == faults' \in Nat /\ faults' >= faults

LEMMA QuietStep ==
  ASSUME OneWorker, DupInv, NEW w \in Workers, NEW r, Rests(w, r), FaultsGrow,
         UNCHANGED <<dest, gen, live, detached>>,
         post' \in [Posts -> PostStatus], published' \in Nat, writes' \in Nat,
         counted' \in [Posts -> Nat]
  PROVE  DupInv'
<1>1. Fresh(r)
  BY DEF DupInv, Fresh, Rests
<1>2. \A p \in Posts, a \in Accounts : Landed(run[w], p, a) => faults' > faults
  BY DEF Landed, Rests
<1>3. r \in Run /\ r.gen = 0 /\ run' = [run EXCEPT ![w] = r] /\ faults' \in Nat /\ faults' >= faults
  BY DEF Rests, FaultsGrow
<1> QED
  BY <1>1, <1>2, <1>3, LocalStep

\* The same for a step that writes nothing.
LEMMA SilentStep ==
  ASSUME OneWorker, DupInv, NEW w \in Workers, NEW r, Rests(w, r), FaultsGrow,
         UNCHANGED <<dbVars, worldVars>>
  PROVE  DupInv'
<1>1. UNCHANGED <<post, dest, gen, published, writes, counted, live, detached>>
  BY DEF dbVars, worldVars
<1>2. /\ post \in [Posts -> PostStatus] /\ published \in Nat /\ writes \in Nat
      /\ counted \in [Posts -> Nat]
  BY DEF DupInv, PublisherTypeOK
<1> QED
  BY <1>1, <1>2, QuietStep

\* What the invariant says of the run that takes a step.
LEMMA RunFacts ==
  ASSUME DupInv, NEW w \in Workers
  PROVE  /\ run \in [Workers -> Run] /\ run[w] \in Run /\ run[w].gen = 0
         /\ run[w].at \in Posts /\ run[w].last \in Posts /\ run[w].todo \subseteq Accounts
         /\ gen[run[w].at] = 0 /\ Fresh(run[w]) /\ faults \in Nat
         /\ dest \in [Posts -> [Accounts -> DestRow]]
  BY DEF DupInv, PublisherTypeOK, RowsStay, Run

LEMMA GotoRests ==
  ASSUME DupInv, NEW w \in Workers, NEW pc \in RunPC, Goto(w, pc), UNCHANGED faults,
         run[w].pc \notin {"save", "saved"},
         pc \notin {"record", "call", "failed", "save", "saved"}
  PROVE  \E r : Rests(w, r)
<1>1. PICK s \in Run : /\ run' = [run EXCEPT ![w] = s]
                       /\ s.pc = pc /\ s.gen = 0 /\ s.at = run[w].at /\ s.todo = run[w].todo
  BY GotoRun
<1>2. Rests(w, s)
  BY <1>1 DEF Rests, InHand
<1> QED
  BY <1>2

LEMMA HandlerDup ==
  ASSUME OneWorker, DupInv, NEW w \in Workers,
         Load(w) \/ MarkPublishing(w) \/ LoadDests(w) \/ CheckPublishedQuota(w) \/ EndDests(w)
  PROVE  DupInv'
<1> DEFINE r == run[w]
<1>0. /\ run \in [Workers -> Run] /\ r \in Run /\ r.gen = 0
      /\ r.at \in Posts /\ gen[r.at] = 0 /\ faults \in Nat
  BY RunFacts
<1>1. CASE Load(w)
  <2>1. r.pc = "load" /\ UNCHANGED <<dbVars, worldVars>> /\ UNCHANGED faults
    BY <1>1 DEF Load, At
  <2>2. CASE Return(w, TRUE)
    <3> DEFINE s == [r EXCEPT !.pc = "return", !.err = TRUE]
    <3>1. run' = [run EXCEPT ![w] = s]
      BY <1>0, <2>2 DEF Return
    <3>2. s \in Run /\ s.pc = "return" /\ s.gen = 0 /\ s.at = r.at /\ s.todo = r.todo
      BY <1>0 DEF Run, RunPC
    <3>3. Rests(w, s)
      BY <2>1, <3>1, <3>2 DEF Rests, InHand
    <3> QED
      BY <1>0, <2>1, <3>3, SilentStep DEF FaultsGrow
  <2>3. CASE Goto(w, "mark")
    BY <1>0, <2>1, <2>3, GotoRests, SilentStep DEF RunPC, FaultsGrow
  <2> QED
    BY <1>1, <2>2, <2>3 DEF Load
<1>2. CASE MarkPublishing(w)
  <2>1. PICK n \in Posts : Become(w, [r EXCEPT !.pc = "dests", !.last = n])
    BY <1>2 DEF MarkPublishing
  <2> DEFINE s == [r EXCEPT !.pc = "dests", !.last = n]
  <2>2. run' = [run EXCEPT ![w] = s]
    BY <2>1 DEF Become
  <2>3. s \in Run /\ s.pc = "dests" /\ s.gen = 0 /\ s.at = r.at /\ s.todo = r.todo
    BY <1>0, <2>1 DEF Run, RunPC
  <2>4. r.pc = "mark" /\ UNCHANGED <<dest, gen, published, writes, counted, live, detached, faults>>
    BY <1>2 DEF MarkPublishing, At, worldVars
  <2>5. post' \in [Posts -> PostStatus]
    BY <1>0, <1>2, SetPostType DEF MarkPublishing, PostStatus
  <2> HIDE DEF s
  <2>6. Rests(w, s)
    BY <2>2, <2>3, <2>4 DEF Rests, InHand
  <2>7. published \in Nat /\ writes \in Nat /\ counted \in [Posts -> Nat]
    BY DEF DupInv, PublisherTypeOK
  <2> QED
    BY <1>0, <2>4, <2>5, <2>6, <2>7, QuietStep DEF FaultsGrow
<1>3. CASE LoadDests(w)
  <2> DEFINE o == Open(r.at)
             g == gen[r.at]
             s == [r EXCEPT !.todo = o, !.gen = g]
             t == AfterDests(s)
  <2>1. o \subseteq Accounts /\ \A a \in o : dest[r.at][a].status # "success"
    BY DEF Open
  <2>2. run' = [run EXCEPT ![w] = t]
    BY <1>3 DEF LoadDests, Become
  <2> HIDE DEF o
  <2>3. s \in Run /\ s.gen = 0 /\ s.at = r.at /\ s.todo = o
    BY <1>0, <2>1 DEF Run
  <2> HIDE DEF s
  <2>4. t \in {[s EXCEPT !.pc = "finalize"], [s EXCEPT !.pc = "block"], [s EXCEPT !.pc = "quota"]}
    BY DEF AfterDests
  <2> HIDE DEF t
  <2>5. t \in Run /\ t.gen = 0 /\ t.at = r.at /\ t.todo = o /\ t.pc \in {"finalize", "block", "quota"}
    BY <2>3, <2>4 DEF Run, RunPC
  <2>6. Fresh(t)
    BY <2>1, <2>5 DEF Fresh, InHand
  <2>7. \A p \in Posts, a \in Accounts : ~Landed(r, p, a)
    BY <1>3 DEF LoadDests, At, Landed
  <2>8. UNCHANGED <<post, dest, gen, published, writes, counted, live, detached, faults>>
    BY <1>3 DEF LoadDests, dbVars, worldVars
  <2>9. /\ post \in [Posts -> PostStatus] /\ published \in Nat /\ writes \in Nat
        /\ counted \in [Posts -> Nat] /\ faults' \in Nat /\ faults' >= faults
    BY <2>8 DEF DupInv, PublisherTypeOK
  <2> QED
    BY <2>2, <2>5, <2>6, <2>7, <2>8, <2>9, LocalStep
<1>4. CASE CheckPublishedQuota(w)
  <2>1. PICK s \in {[r EXCEPT !.pc = "next"], [r EXCEPT !.pc = "reject", !.err = TRUE]} :
          run' = [run EXCEPT ![w] = s]
    BY <1>4 DEF CheckPublishedQuota, Become
  <2>2. s \in Run /\ s.pc \in {"next", "reject"} /\ s.gen = 0 /\ s.at = r.at /\ s.todo = r.todo
    BY <1>0, <2>1 DEF Run, RunPC
  <2>3. r.pc = "quota" /\ UNCHANGED <<dbVars, worldVars>> /\ UNCHANGED faults
    BY <1>4 DEF CheckPublishedQuota, At
  <2>4. Rests(w, s)
    BY <2>1, <2>2, <2>3 DEF Rests, InHand
  <2> QED
    BY <1>0, <2>3, <2>4, SilentStep DEF FaultsGrow
<1>5. CASE EndDests(w)
  <2>1. r.pc = "next" /\ UNCHANGED <<dbVars, worldVars>> /\ UNCHANGED faults /\ Goto(w, "finalize")
    BY <1>5 DEF EndDests, At
  <2> QED
    BY <1>0, <2>1, GotoRests, SilentStep DEF RunPC, FaultsGrow
<1> QED
  BY <1>1, <1>2, <1>3, <1>4, <1>5

\* The run takes a destination from its list, or goes on with the one in hand.
Handles(w, r) ==
  /\ r \in Run /\ r.gen = 0 /\ r.at = run[w].at
  /\ run' = [run EXCEPT ![w] = r]
  /\ \/ /\ run[w].pc = "next"
        /\ r.acct \in run[w].todo
        /\ r.todo = run[w].todo \ {r.acct}
     \/ /\ InHand(run[w])
        /\ r.acct = run[w].acct
        /\ r.todo = run[w].todo
        /\ run[w].pc = "save" => r.pc = "saved"
        /\ run[w].pc # "saved"

LEMMA HandStep ==
  ASSUME OneWorker, DupInv, NEW w \in Workers, NEW r, Handles(w, r), FaultsGrow,
         UNCHANGED <<post, dest, gen, published, counted, live, detached>>, writes' \in Nat
  PROVE  DupInv'
<1>1. Fresh(run[w]) /\ run[w].todo \subseteq Accounts
  BY RunFacts
<1>2. Fresh(r)
  BY <1>1 DEF Handles, Fresh
<1>3. \A p \in Posts, a \in Accounts : Landed(run[w], p, a) => Landed(r, p, a)
  BY DEF Handles, Landed
<1>4. r \in Run /\ r.gen = 0 /\ run' = [run EXCEPT ![w] = r] /\ faults' \in Nat /\ faults' >= faults
  BY DEF Handles, FaultsGrow
<1>5. post \in [Posts -> PostStatus] /\ published \in Nat /\ counted \in [Posts -> Nat]
  BY DEF DupInv, PublisherTypeOK
<1> QED
  BY <1>2, <1>3, <1>4, <1>5, LocalStep

LEMMA HandSilentStep ==
  ASSUME OneWorker, DupInv, NEW w \in Workers, NEW r, Handles(w, r), FaultsGrow,
         UNCHANGED <<dbVars, worldVars>>
  PROVE  DupInv'
<1>1. UNCHANGED <<post, dest, gen, published, writes, counted, live, detached>>
  BY DEF dbVars, worldVars
<1>2. writes \in Nat
  BY DEF DupInv, PublisherTypeOK
<1> QED
  BY <1>1, <1>2, HandStep

LEMMA GotoHandles ==
  ASSUME DupInv, NEW w \in Workers, NEW pc \in RunPC, Goto(w, pc),
         run[w].pc \in {"record", "call", "save"}, run[w].pc = "save" => pc = "saved"
  PROVE  \E r : Handles(w, r)
<1>1. PICK s \in Run : /\ run' = [run EXCEPT ![w] = s]
                       /\ s.pc = pc /\ s.gen = 0 /\ s.at = run[w].at /\ s.todo = run[w].todo
                       /\ s.acct = run[w].acct
  BY GotoRun
<1>2. Handles(w, s)
  BY <1>1 DEF Handles, InHand
<1> QED
  BY <1>2

LEMMA TakeRun ==
  ASSUME DupInv, NEW w \in Workers, NEW a \in Accounts, NEW pc \in RunPC,
         run[w].pc = "next", a \in run[w].todo
  PROVE  /\ Take(w, a, pc) \in Run
         /\ run' = [run EXCEPT ![w] = Take(w, a, pc)] => Handles(w, Take(w, a, pc))
         /\ Take(w, a, pc).acct = a /\ Take(w, a, pc).todo = run[w].todo \ {a}
         /\ Take(w, a, pc).at = run[w].at /\ Take(w, a, pc).gen = 0
<1> DEFINE r == run[w]
           d == r.todo \ {a}
           s == [r EXCEPT !.pc = pc, !.acct = a, !.todo = d, !.again = FALSE]
<1>1. r \in Run /\ r.gen = 0 /\ d \in SUBSET Accounts
  BY RunFacts
<1>2. Take(w, a, pc) = s
  BY DEF Take
<1> HIDE DEF d
<1>3. s \in Run
  BY <1>1 DEF Run
<1>4. s.gen = 0 /\ s.at = r.at /\ s.acct = a /\ s.todo = d
  BY <1>1 DEF Run
<1> HIDE DEF s
<1>5. run' = [run EXCEPT ![w] = s] => Handles(w, s)
  BY <1>1, <1>3, <1>4 DEF Handles, d
<1> QED
  BY <1>2, <1>3, <1>4, <1>5 DEF d

LEMMA DestinationDup ==
  ASSUME OneWorker, DupInv, NEW w \in Workers,
         \/ \E a \in Accounts : Prepare(w, a) \/ PrepareError(w, a) \/ Skip(w, a)
         \/ RecordWrite(w) \/ Accept(w) \/ Refuse(w) \/ Expired(w)
  PROVE  DupInv'
<1> DEFINE r == run[w]
<1>0. /\ run \in [Workers -> Run] /\ r \in Run /\ r.gen = 0 /\ r.at \in Posts /\ faults \in Nat
  BY RunFacts
<1>1. ASSUME NEW a \in Accounts, Prepare(w, a) PROVE DupInv'
  <2> DEFINE s == Take(w, a, "record")
             b == r.at > 0 /\ dest[r.at - 1][a].ext
             t == [s EXCEPT !.reply = b]
  <2>0. r.pc = "next" /\ a \in r.todo /\ "record" \in RunPC
    BY <1>1 DEF Prepare, At, RunPC
  <2>1. run' = [run EXCEPT ![w] = t] /\ UNCHANGED <<dbVars, worldVars>> /\ UNCHANGED faults
    BY <1>1 DEF Prepare, Become
  <2>2. s \in Run /\ s.acct = a /\ s.todo = r.todo \ {a} /\ s.at = r.at /\ s.gen = 0
    BY <2>0, TakeRun
  <2>3. b \in BOOLEAN
    OBVIOUS
  <2> HIDE DEF s, b
  <2>4. t \in Run
    BY <2>2, <2>3 DEF Run
  <2>5. t.acct = a /\ t.todo = r.todo \ {a} /\ t.at = r.at /\ t.gen = 0
    BY <2>2 DEF Run
  <2> HIDE DEF t
  <2>6. Handles(w, t)
    BY <2>0, <2>1, <2>4, <2>5 DEF Handles
  <2> QED
    BY <1>0, <2>1, <2>6, HandSilentStep DEF FaultsGrow
<1>2. ASSUME NEW a \in Accounts, PrepareError(w, a) PROVE DupInv'
  <2>1. /\ run' = [run EXCEPT ![w] = Take(w, a, "failed")]
        /\ UNCHANGED <<dbVars, worldVars>> /\ UNCHANGED faults
        /\ r.pc = "next" /\ a \in r.todo
    BY <1>2 DEF PrepareError, Become, At
  <2>2. Handles(w, Take(w, a, "failed"))
    BY <2>1, TakeRun DEF RunPC
  <2> QED
    BY <1>0, <2>1, <2>2, HandSilentStep DEF FaultsGrow
<1>3. ASSUME NEW a \in Accounts, Skip(w, a) PROVE DupInv'
  <2>1. PICK pc \in {"saved", "failed"} : run' = [run EXCEPT ![w] = Take(w, a, pc)]
    BY <1>3 DEF Skip, Become
  <2>2. /\ UNCHANGED <<dbVars, worldVars>> /\ UNCHANGED faults
        /\ r.pc = "next" /\ a \in r.todo
    BY <1>3 DEF Skip, At
  <2>3. Handles(w, Take(w, a, pc))
    BY <2>1, <2>2, TakeRun DEF RunPC
  <2> QED
    BY <1>0, <2>2, <2>3, HandSilentStep DEF FaultsGrow
<1>4. CASE RecordWrite(w)
  <2>1. /\ r.pc = "record" /\ Goto(w, "call") /\ writes' = writes + 1
        /\ UNCHANGED <<post, dest, gen, published, counted, live, detached, faults>>
    BY <1>4 DEF RecordWrite, At, worldVars
  <2>2. writes' \in Nat
    BY <2>1 DEF DupInv, PublisherTypeOK
  <2>3. PICK s : Handles(w, s)
    BY <2>1, GotoHandles DEF RunPC
  <2> QED
    BY <1>0, <2>1, <2>2, <2>3, HandStep DEF FaultsGrow
<1>5. CASE Accept(w)
  <2>1. At(w, "call") /\ Appear(w) /\ Goto(w, "save") /\ UNCHANGED dbVars /\ faults' = faults
    BY <1>5 DEF Accept
  <2>2. PICK s \in Run : /\ run' = [run EXCEPT ![w] = s]
                         /\ s.pc = "save" /\ s.gen = 0 /\ s.at = r.at /\ s.acct = r.acct /\ s.todo = r.todo
    BY <2>1, GotoRun DEF RunPC
  <2> QED
    BY <2>1, <2>2, AppearStep
<1>6. CASE Refuse(w)
  <2>1. r.pc = "call" /\ Goto(w, "failed") /\ UNCHANGED <<dbVars, worldVars>> /\ UNCHANGED faults
    BY <1>6 DEF Refuse, At
  <2>2. PICK s : Handles(w, s)
    BY <2>1, GotoHandles DEF RunPC
  <2> QED
    BY <1>0, <2>1, <2>2, HandSilentStep DEF FaultsGrow
<1>7. CASE Expired(w)
  <2> DEFINE s == [r EXCEPT !.pc = "record", !.again = TRUE]
  <2>1. /\ r.pc = "call" /\ run' = [run EXCEPT ![w] = s]
        /\ UNCHANGED <<dbVars, worldVars>> /\ UNCHANGED faults
    BY <1>7 DEF Expired, At, Become
  <2>2. s \in Run /\ s.gen = 0 /\ s.at = r.at /\ s.acct = r.acct /\ s.todo = r.todo
    BY <1>0 DEF Run, RunPC
  <2>3. Handles(w, s)
    BY <2>1, <2>2 DEF Handles, InHand
  <2> QED
    BY <1>0, <2>1, <2>3, HandSilentStep DEF FaultsGrow
<1> QED
  BY <1>1, <1>2, <1>3, <1>4, <1>5, <1>6, <1>7

\* One row is written and nothing is in hand afterwards.
LEMMA RowDone ==
  ASSUME OneWorker, DupInv, NEW w \in Workers, NEW r \in Run,
         NEW a \in Accounts, NEW row \in DestRow,
         run' = [run EXCEPT ![w] = r],
         UNCHANGED <<post, gen, published, writes, counted, live, detached, faults>>,
         SetDest(w, run[w].at, a, row),
         r.gen = 0, r.at = run[w].at, r.todo \subseteq run[w].todo, a \notin r.todo, ~InHand(r),
         \/ row.status = "success" /\ run[w].acct = a
         \/ run[w].pc \notin {"save", "saved"} /\ dest[run[w].at][a].status # "success"
  PROVE  DupInv'
<1>1. InHand(r) => InHand(run[w]) /\ r.acct = run[w].acct /\ r.acct = a /\ row.status # "success"
  OBVIOUS
<1>2. \/ row.status = "success"
      \/ Landed(r, run[w].at, a)
      \/ dest[run[w].at][a].status # "success" /\ ~Landed(run[w], run[w].at, a)
  BY DEF Landed
<1>3. \A p \in Posts, b \in Accounts :
        Landed(run[w], p, b) => Landed(r, p, b) \/ (p = run[w].at /\ b = a)
  BY DEF Landed
<1> QED
  BY <1>1, <1>2, <1>3, RowStep

LEMMA FailedRow ==
  ASSUME NEW row \in DestRow, NEW b \in BOOLEAN
  PROVE  Failed(row, b) \in DestRow /\ Failed(row, b).status # "success"
<1>1. Failed(row, b) = [row EXCEPT !.status = "failed", !.blocked = b]
  BY DEF Failed
<1> QED
  BY <1>1 DEF DestRow

LEMMA ExtRow ==
  ASSUME NEW row \in DestRow
  PROVE  /\ [row EXCEPT !.ext = TRUE] \in DestRow
         /\ [row EXCEPT !.ext = TRUE].status = row.status
  BY DEF DestRow

LEMMA SucceededRow ==
  ASSUME NEW row \in DestRow, NEW skipped \in BOOLEAN
  PROVE  Succeeded(row, skipped) \in DestRow /\ Succeeded(row, skipped).status = "success"
<1> DEFINE b == row.blocked /\ ~skipped
<1>1. Succeeded(row, skipped) = [row EXCEPT !.status = "success", !.blocked = b]
  BY DEF Succeeded
<1>2. b \in BOOLEAN
  OBVIOUS
<1> HIDE DEF b
<1> QED
  BY <1>1, <1>2 DEF DestRow

\* What the lists look like after one row.
LEMMA AfterRowRun ==
  ASSUME NEW r \in Run, NEW a \in Accounts, r.pc \in {"block", "reject"}
  PROVE  /\ AfterBlock(r, a) \in Run /\ AfterReject(r, a) \in Run
         /\ \A s \in {AfterBlock(r, a), AfterReject(r, a)} :
              s.gen = r.gen /\ s.at = r.at /\ s.todo = r.todo \ {a} /\ ~InHand(s)
<1> DEFINE d == r.todo \ {a}
           p == IF Blocked(r) = {a} THEN "quota" ELSE r.pc
           q == IF r.todo = {a} THEN "finalize" ELSE r.pc
<1>1. /\ AfterBlock(r, a) = [r EXCEPT !.todo = d, !.pc = p]
      /\ AfterReject(r, a) = [r EXCEPT !.todo = d, !.pc = q]
  BY DEF AfterBlock, AfterReject
<1>2. d \in SUBSET Accounts /\ p \in {"block", "reject", "quota"} /\ q \in {"block", "reject", "finalize"}
  BY DEF Run
<1> HIDE DEF d, p, q
<1>3. p \in RunPC /\ q \in RunPC
  BY <1>2 DEF RunPC
<1>4. AfterBlock(r, a) \in Run /\ AfterReject(r, a) \in Run
  BY <1>1, <1>2, <1>3 DEF Run
<1>5. LET s == [r EXCEPT !.todo = d, !.pc = p]
      IN  s.gen = r.gen /\ s.at = r.at /\ s.todo = d /\ s.pc = p
  BY DEF Run
<1>6. LET s == [r EXCEPT !.todo = d, !.pc = q]
      IN  s.gen = r.gen /\ s.at = r.at /\ s.todo = d /\ s.pc = q
  BY DEF Run
<1> QED
  BY <1>1, <1>2, <1>4, <1>5, <1>6 DEF d, InHand

LEMMA AfterHandRun ==
  ASSUME NEW r \in Run, r.acct \in Accounts
  PROVE  /\ AfterSuccess(r) \in Run /\ AfterFailure(r) \in Run
         /\ \A s \in {AfterSuccess(r), AfterFailure(r)} :
              s.gen = r.gen /\ s.at = r.at /\ s.todo = r.todo /\ s.pc = "next"
<1> DEFINE o == r.okNow \cup {r.acct}
           e == r.err \/ ~InThread(r)
<1>1. /\ AfterSuccess(r) = [r EXCEPT !.pc = "next", !.okNow = o]
      /\ AfterFailure(r) = [r EXCEPT !.pc = "next", !.err = e]
  BY DEF AfterSuccess, AfterFailure
<1>2. o \in SUBSET Accounts /\ e \in BOOLEAN /\ "next" \in RunPC
  BY DEF Run, RunPC
<1> HIDE DEF o, e
<1>3. AfterSuccess(r) \in Run /\ AfterFailure(r) \in Run
  BY <1>1, <1>2 DEF Run
<1>4. LET s == [r EXCEPT !.pc = "next", !.okNow = o]
      IN  s.gen = r.gen /\ s.at = r.at /\ s.todo = r.todo /\ s.pc = "next"
  BY DEF Run
<1>5. LET s == [r EXCEPT !.pc = "next", !.err = e]
      IN  s.gen = r.gen /\ s.at = r.at /\ s.todo = r.todo /\ s.pc = "next"
  BY DEF Run
<1> QED
  BY <1>1, <1>3, <1>4, <1>5

LEMMA RowDup ==
  ASSUME OneWorker, DupInv, NEW w \in Workers,
         \/ \E a \in Accounts : Block(w, a) \/ Reject(w, a)
         \/ SaveExternalID(w) \/ MarkSuccess(w) \/ MarkFailed(w)
  PROVE  DupInv'
<1> DEFINE r == run[w]
           at == run[w].at
           acct == run[w].acct
<1>0. /\ r \in Run /\ r.gen = 0 /\ at \in Posts /\ r.todo \subseteq Accounts /\ Fresh(r)
      /\ dest \in [Posts -> [Accounts -> DestRow]]
  BY RunFacts
<1>1. ASSUME NEW a \in Accounts, Block(w, a) PROVE DupInv'
  <2>1. /\ r.pc = "block" /\ a \in r.todo /\ run' = [run EXCEPT ![w] = AfterBlock(r, a)]
        /\ SetDest(w, at, a, Failed(dest[at][a], TRUE))
        /\ UNCHANGED <<post, gen, published, writes, counted, live, detached, faults>>
    BY <1>1 DEF Block, At, Blocked, Become, worldVars
  <2>2. Failed(dest[at][a], TRUE) \in DestRow /\ dest[at][a].status # "success"
    BY <1>0, <2>1, FailedRow DEF Fresh
  <2>3. /\ AfterBlock(r, a) \in Run /\ AfterBlock(r, a).gen = 0 /\ AfterBlock(r, a).at = at
        /\ AfterBlock(r, a).todo = r.todo \ {a} /\ ~InHand(AfterBlock(r, a))
    BY <1>0, <2>1, AfterRowRun
  <2> QED
    BY <2>1, <2>2, <2>3, RowDone
<1>2. ASSUME NEW a \in Accounts, Reject(w, a) PROVE DupInv'
  <2>1. /\ r.pc = "reject" /\ a \in r.todo /\ run' = [run EXCEPT ![w] = AfterReject(r, a)]
        /\ SetDest(w, at, a, Failed(dest[at][a], FALSE))
        /\ UNCHANGED <<post, gen, published, writes, counted, live, detached, faults>>
    BY <1>2 DEF Reject, At, Become, worldVars
  <2>2. Failed(dest[at][a], FALSE) \in DestRow /\ dest[at][a].status # "success"
    BY <1>0, <2>1, FailedRow DEF Fresh
  <2>3. /\ AfterReject(r, a) \in Run /\ AfterReject(r, a).gen = 0 /\ AfterReject(r, a).at = at
        /\ AfterReject(r, a).todo = r.todo \ {a} /\ ~InHand(AfterReject(r, a))
    BY <1>0, <2>1, AfterRowRun
  <2> QED
    BY <2>1, <2>2, <2>3, RowDone
<1>3. CASE SaveExternalID(w)
  <2> DEFINE row == [dest[at][acct] EXCEPT !.ext = TRUE]
  <2>1. /\ r.pc = "save" /\ Goto(w, "saved") /\ SetDest(w, at, acct, row)
        /\ UNCHANGED <<post, gen, published, writes, counted, live, detached, faults>>
    BY <1>3 DEF SaveExternalID, At, worldVars
  <2>2. acct \in Accounts /\ acct \notin r.todo /\ dest[at][acct].status # "success"
    BY <1>0, <2>1 DEF Fresh, InHand
  <2>3. row \in DestRow /\ row.status # "success"
    <3>1. dest[at][acct] \in DestRow
      BY <1>0, <2>2
    <3> QED
      BY <2>2, <3>1, ExtRow
  <2>4. PICK s \in Run : /\ run' = [run EXCEPT ![w] = s]
                         /\ s.pc = "saved" /\ s.gen = 0 /\ s.at = at /\ s.acct = acct /\ s.todo = r.todo
    BY <2>1, GotoRun DEF RunPC
  <2> HIDE DEF row
  <2>5. /\ InHand(s) => InHand(r) /\ s.acct = acct /\ row.status # "success"
        /\ Landed(s, at, acct)
        /\ \A p \in Posts, b \in Accounts : Landed(r, p, b) => Landed(s, p, b)
    BY <2>1, <2>3, <2>4 DEF InHand, Landed
  <2> QED
    BY <2>1, <2>2, <2>3, <2>4, <2>5, RowStep
<1>4. CASE MarkSuccess(w)
  <2> DEFINE row == Succeeded(dest[at][acct], SkipReply(r, acct))
  <2>1. /\ r.pc = "saved" /\ run' = [run EXCEPT ![w] = AfterSuccess(r)] /\ SetDest(w, at, acct, row)
        /\ UNCHANGED <<post, gen, published, writes, counted, live, detached, faults>>
    BY <1>4 DEF MarkSuccess, At, Become, worldVars
  <2>2. acct \in Accounts /\ acct \notin r.todo /\ SkipReply(r, acct) \in BOOLEAN
    BY <1>0, <2>1 DEF Fresh, InHand, SkipReply
  <2>3. row \in DestRow /\ row.status = "success"
    BY <1>0, <2>2, SucceededRow
  <2>4. /\ AfterSuccess(r) \in Run /\ AfterSuccess(r).gen = 0 /\ AfterSuccess(r).at = at
        /\ AfterSuccess(r).todo = r.todo /\ ~InHand(AfterSuccess(r))
    BY <1>0, <2>2, AfterHandRun DEF InHand
  <2> HIDE DEF row
  <2> QED
    BY <2>1, <2>2, <2>3, <2>4, RowDone
<1>5. CASE MarkFailed(w)
  <2> DEFINE row == Failed(dest[at][acct], FALSE)
  <2>1. /\ r.pc = "failed" /\ run' = [run EXCEPT ![w] = AfterFailure(r)] /\ SetDest(w, at, acct, row)
        /\ UNCHANGED <<post, gen, published, writes, counted, live, detached, faults>>
    BY <1>5 DEF MarkFailed, At, Become, worldVars
  <2>2. acct \in Accounts /\ acct \notin r.todo /\ dest[at][acct].status # "success"
    BY <1>0, <2>1 DEF Fresh, InHand
  <2>3. row \in DestRow
    BY <1>0, <2>2, FailedRow
  <2>4. /\ AfterFailure(r) \in Run /\ AfterFailure(r).gen = 0 /\ AfterFailure(r).at = at
        /\ AfterFailure(r).todo = r.todo /\ ~InHand(AfterFailure(r))
    BY <1>0, <2>2, AfterHandRun DEF InHand
  <2> HIDE DEF row
  <2> QED
    BY <2>1, <2>2, <2>3, <2>4, RowDone
<1> QED
  BY <1>1, <1>2, <1>3, <1>4, <1>5

LEMMA FinalizeDup ==
  ASSUME OneWorker, DupInv, NEW w \in Workers,
         CountDests(w) \/ Conclude(w) \/ CountPublished(w)
  PROVE  DupInv'
<1> DEFINE r == run[w]
<1>0. /\ run \in [Workers -> Run] /\ r \in Run /\ r.gen = 0 /\ r.at \in Posts /\ faults \in Nat
      /\ published \in Nat /\ writes \in Nat /\ counted \in [Posts -> Nat]
  BY RunFacts DEF DupInv, PublisherTypeOK
<1>1. NextPost(r) \in Run /\ NextPost(r).gen = 0 /\ ~InHand(NextPost(r))
      /\ (NextPost(r).todo = {} \/ (NextPost(r).at = r.at /\ NextPost(r).todo \subseteq r.todo))
  BY <1>0, NextPostRun DEF InHand
<1>2. CASE CountDests(w)
  <2> DEFINE v == Verdict(r.at)
             o == r.okNow
             s == [r EXCEPT !.pc = "conclude", !.verdict = v, !.ok = o]
  <2>1. /\ r.pc = "finalize" /\ run' = [run EXCEPT ![w] = s]
        /\ UNCHANGED <<dbVars, worldVars>> /\ UNCHANGED faults
    BY <1>2 DEF CountDests, At, Become
  <2>2. v \in {"empty", "failed", "published"} /\ o \in SUBSET Accounts
    BY <1>0 DEF Verdict, Run
  <2> HIDE DEF v, o
  <2>3. s \in Run /\ s.gen = 0 /\ s.at = r.at /\ s.todo = r.todo /\ s.pc = "conclude"
    BY <1>0, <2>2 DEF Run, RunPC
  <2>4. Rests(w, s)
    BY <2>1, <2>3 DEF Rests, InHand
  <2> QED
    BY <1>0, <2>1, <2>4, SilentStep DEF FaultsGrow
<1>3. CASE Conclude(w)
  <2> DEFINE s == IF r.verdict = "published" THEN [r EXCEPT !.pc = "count"] ELSE NextPost(r)
  <2>1. /\ r.pc = "conclude" /\ run' = [run EXCEPT ![w] = s]
        /\ UNCHANGED <<dest, gen, published, writes, counted, live, detached, faults>>
    BY <1>3 DEF Conclude, At, Become, worldVars
  <2>2. /\ [r EXCEPT !.pc = "count"] \in Run /\ [r EXCEPT !.pc = "count"].gen = 0
        /\ [r EXCEPT !.pc = "count"].pc = "count"
        /\ [r EXCEPT !.pc = "count"].at = r.at /\ [r EXCEPT !.pc = "count"].todo = r.todo
    BY <1>0 DEF Run, RunPC
  <2>3. Rests(w, s)
    BY <1>1, <2>1, <2>2 DEF Rests, InHand
  <2>4. post' \in [Posts -> PostStatus]
    <3>1. PICK status \in PostStatus : SetPost(r.at, status)
      BY <1>3 DEF Conclude, PostStatus
    <3> QED
      BY <1>0, <3>1, SetPostType
  <2> QED
    BY <1>0, <2>1, <2>3, <2>4, QuietStep DEF FaultsGrow
<1>4. CASE CountPublished(w)
  <2>1. /\ r.pc = "count" /\ run' = [run EXCEPT ![w] = NextPost(r)]
        /\ UNCHANGED <<post, dest, gen, writes, live, detached, faults>>
        /\ published' = published + 1 /\ counted' = [counted EXCEPT ![r.at] = counted[r.at] + 1]
    BY <1>4 DEF CountPublished, At, Become, worldVars
  <2>2. published' \in Nat /\ counted' \in [Posts -> Nat]
    BY <1>0, <2>1
  <2>3. Rests(w, NextPost(r))
    BY <1>1, <2>1 DEF Rests
  <2>4. post \in [Posts -> PostStatus]
    BY DEF DupInv, PublisherTypeOK
  <2> QED
    BY <1>0, <2>1, <2>2, <2>3, <2>4, QuietStep DEF FaultsGrow
<1> QED
  BY <1>2, <1>3, <1>4

LEMMA StepDup ==
  ASSUME OneWorker, DupInv, NEW w \in Workers, Step(w)
  PROVE  DupInv'
BY HandlerDup, RowDup, DestinationDup, FinalizeDup DEF Step

\* The faults of the calls on the platform.
LEMMA PlatformFaultDup ==
  ASSUME OneWorker, DupInv, NEW w \in Workers,
         LoseReply(w) \/ AcceptWithoutID(w)
  PROVE  DupInv'
<1>1. CASE LoseReply(w)
  <2>1. At(w, "call") /\ Appear(w) /\ Goto(w, "failed") /\ UNCHANGED dbVars /\ faults' = faults + 1
    BY <1>1 DEF LoseReply, Fault
  <2>2. PICK s \in Run : /\ run' = [run EXCEPT ![w] = s]
                         /\ s.pc = "failed" /\ s.gen = 0 /\ s.at = run[w].at
                         /\ s.acct = run[w].acct /\ s.todo = run[w].todo
    BY <2>1, GotoRun DEF RunPC
  <2> QED
    BY <2>1, <2>2, AppearStep
<1>2. CASE AcceptWithoutID(w)
  <2>1. At(w, "call") /\ Appear(w) /\ Goto(w, "saved") /\ UNCHANGED dbVars /\ faults' = faults + 1
    BY <1>2 DEF AcceptWithoutID, Fault
  <2>2. PICK s \in Run : /\ run' = [run EXCEPT ![w] = s]
                         /\ s.pc = "saved" /\ s.gen = 0 /\ s.at = run[w].at
                         /\ s.acct = run[w].acct /\ s.todo = run[w].todo
    BY <2>1, GotoRun DEF RunPC
  <2> QED
    BY <2>1, <2>2, AppearStep
<1> QED
  BY <1>1, <1>2

\* Failed statements that leave the tables as they were.
LEMMA StatementFaultDup ==
  ASSUME OneWorker, DupInv, NEW w \in Workers,
         \/ LoadError(w) \/ MarkPublishingError(w) \/ LoadDestsError(w)
         \/ CheckPublishedQuotaError(w) \/ (\E a \in Accounts : PassOverError(w, a))
         \/ RecordWriteError(w) \/ SaveExternalIDError(w) \/ MarkError(w)
         \/ CountDestsError(w) \/ ConcludeError(w)
  PROVE  DupInv'
<1> DEFINE r == run[w]
<1>0. /\ r \in Run /\ r.gen = 0 /\ r.at \in Posts /\ faults \in Nat /\ Fresh(r)
      /\ r.todo \subseteq Accounts
  BY RunFacts
<1>1. faults' = faults + 1 /\ UNCHANGED <<dbVars, worldVars>>
  BY DEF LoadError, MarkPublishingError, LoadDestsError, CheckPublishedQuotaError, PassOverError,
         RecordWriteError, SaveExternalIDError, MarkError, CountDestsError, ConcludeError, DbFault, Fault
<1>2. FaultsGrow /\ faults' > faults
  BY <1>0, <1>1 DEF FaultsGrow
<1>3. SUFFICES \E s : Rests(w, s) \/ Handles(w, s)
  BY <1>1, <1>2, SilentStep, HandSilentStep
<1>4. ASSUME NEW s \in Run, s.gen = 0, s.at = r.at, s.todo \subseteq r.todo, ~InHand(s),
             run' = [run EXCEPT ![w] = s]
      PROVE  Rests(w, s)
  BY <1>2, <1>4 DEF Rests
<1>5. CASE LoadError(w)
  <2> DEFINE s == [r EXCEPT !.pc = "return", !.err = TRUE]
  <2>1. run' = [run EXCEPT ![w] = s]
    BY <1>0, <1>5, RunFacts DEF LoadError, Return
  <2>2. s \in Run /\ s.pc = "return" /\ s.gen = 0 /\ s.at = r.at /\ s.todo = r.todo
    BY <1>0 DEF Run, RunPC
  <2> QED
    BY <1>4, <2>1, <2>2 DEF InHand
<1>6. CASE MarkPublishingError(w)
  <2>1. PICK n \in Posts : Become(w, [r EXCEPT !.pc = "dests", !.last = n])
    BY <1>6 DEF MarkPublishingError
  <2> DEFINE s == [r EXCEPT !.pc = "dests", !.last = n]
  <2>2. run' = [run EXCEPT ![w] = s]
    BY <2>1 DEF Become
  <2>3. s \in Run /\ s.pc = "dests" /\ s.gen = 0 /\ s.at = r.at /\ s.todo = r.todo
    BY <1>0, <2>1 DEF Run, RunPC
  <2> QED
    BY <1>4, <2>2, <2>3 DEF InHand
<1>7. CASE LoadDestsError(w)
  <2>1. CASE InThread(r)
    <3> DEFINE o == r.ok
               s == [r EXCEPT !.pc = "finalize", !.okNow = o]
    <3>1. run' = [run EXCEPT ![w] = s] /\ o \in SUBSET Accounts
      BY <1>0, <1>7, <2>1 DEF LoadDestsError, Become, Run
    <3> HIDE DEF o
    <3>2. s \in Run /\ s.pc = "finalize" /\ s.gen = 0 /\ s.at = r.at /\ s.todo = r.todo
      BY <1>0, <3>1 DEF Run, RunPC
    <3> QED
      BY <1>4, <3>1, <3>2 DEF InHand
  <2>2. CASE ~InThread(r)
    <3> DEFINE s == [r EXCEPT !.pc = "return", !.err = TRUE]
    <3>1. run' = [run EXCEPT ![w] = s]
      BY <1>0, <1>7, <2>2, RunFacts DEF LoadDestsError, Return
    <3>2. s \in Run /\ s.pc = "return" /\ s.gen = 0 /\ s.at = r.at /\ s.todo = r.todo
      BY <1>0 DEF Run, RunPC
    <3> QED
      BY <1>4, <3>1, <3>2 DEF InHand
  <2> QED
    BY <2>1, <2>2
<1>8. CASE CheckPublishedQuotaError(w)
  <2> DEFINE s == [r EXCEPT !.pc = "reject", !.err = TRUE]
  <2>1. run' = [run EXCEPT ![w] = s]
    BY <1>8 DEF CheckPublishedQuotaError, Become
  <2>2. s \in Run /\ s.pc = "reject" /\ s.gen = 0 /\ s.at = r.at /\ s.todo = r.todo
    BY <1>0 DEF Run, RunPC
  <2> QED
    BY <1>4, <2>1, <2>2 DEF InHand
<1>9. ASSUME NEW a \in Accounts, PassOverError(w, a) PROVE \E s : Rests(w, s) \/ Handles(w, s)
  <2>1. PICK s \in {AfterBlock(r, a), AfterReject(r, a)} :
          r.pc \in {"block", "reject"} /\ run' = [run EXCEPT ![w] = s]
    BY <1>9 DEF PassOverError, At, Become
  <2>2. s \in Run /\ s.gen = 0 /\ s.at = r.at /\ s.todo \subseteq r.todo /\ ~InHand(s)
    BY <1>0, <2>1, AfterRowRun
  <2> QED
    BY <1>4, <2>1, <2>2
<1>10. CASE RecordWriteError(w)
  <2>1. r.pc = "record" /\ Goto(w, "call")
    BY <1>10 DEF RecordWriteError, At
  <2> QED
    BY <2>1, GotoHandles DEF RunPC
<1>11. CASE SaveExternalIDError(w)
  <2>1. r.pc = "save" /\ Goto(w, "saved")
    BY <1>11 DEF SaveExternalIDError, At
  <2> QED
    BY <2>1, GotoHandles DEF RunPC
<1>12. CASE MarkError(w)
  <2>1. PICK s \in {AfterSuccess(r), AfterFailure(r)} :
          r.pc \in {"saved", "failed"} /\ run' = [run EXCEPT ![w] = s]
    BY <1>12 DEF MarkError, At, Become
  <2>2. r.acct \in Accounts
    BY <1>0, <2>1 DEF Fresh, InHand
  <2>3. s \in Run /\ s.gen = 0 /\ s.at = r.at /\ s.todo = r.todo /\ s.pc = "next"
    BY <1>0, <2>1, <2>2, AfterHandRun
  <2> QED
    BY <1>4, <2>1, <2>3 DEF InHand
<1>13. CASE CountDestsError(w)
  <2> DEFINE o == r.okNow
  <2>1. PICK v \in {"empty", "published"} :
          run' = [run EXCEPT ![w] = [r EXCEPT !.pc = "conclude", !.verdict = v, !.ok = o]]
    BY <1>13 DEF CountDestsError, Become
  <2> DEFINE s == [r EXCEPT !.pc = "conclude", !.verdict = v, !.ok = o]
  <2>2. v \in {"empty", "failed", "published"} /\ o \in SUBSET Accounts
    BY <1>0 DEF Run
  <2> HIDE DEF o
  <2>3. s \in Run /\ s.gen = 0 /\ s.at = r.at /\ s.todo = r.todo /\ s.pc = "conclude"
    BY <1>0, <2>2 DEF Run, RunPC
  <2> QED
    BY <1>4, <2>1, <2>3 DEF InHand
<1>14. CASE ConcludeError(w)
  <2>1. run' = [run EXCEPT ![w] = NextPost(r)]
    BY <1>14 DEF ConcludeError, Become
  <2>2. NextPost(r) \in Run /\ NextPost(r).gen = 0 /\ ~InHand(NextPost(r))
        /\ (NextPost(r).todo = {} \/ (NextPost(r).at = r.at /\ NextPost(r).todo \subseteq r.todo))
    BY <1>0, NextPostRun DEF InHand
  <2> QED
    BY <1>2, <2>1, <2>2 DEF Rests
<1> QED
  BY <1>5, <1>6, <1>7, <1>8, <1>9, <1>10, <1>11, <1>12, <1>13, <1>14

\* The thread is taken to end too early.
LEMMA LoadThreadErrorDup ==
  ASSUME OneWorker, DupInv, NEW w \in Workers, LoadThreadError(w)
  PROVE  DupInv'
<1> DEFINE r == run[w]
<1>0. r \in Run /\ r.gen = 0 /\ r.at \in Posts /\ faults \in Nat
  BY RunFacts
<1>1. /\ r.pc = "mark" /\ faults' = faults + 2 /\ SetPost(r.at, "publishing")
      /\ UNCHANGED <<dest, gen, published, writes, counted, live, detached>>
  BY DEF LoadThreadError, At, worldVars
<1>2. PICK n \in Posts : run' = [run EXCEPT ![w] = [r EXCEPT !.pc = "dests", !.last = n]]
  BY DEF LoadThreadError, Become
<1> DEFINE s == [r EXCEPT !.pc = "dests", !.last = n]
<1>3. s \in Run /\ s.pc = "dests" /\ s.gen = 0 /\ s.at = r.at /\ s.todo = r.todo
  BY <1>0 DEF Run, RunPC
<1>4. Rests(w, s)
  BY <1>1, <1>2, <1>3 DEF Rests, InHand
<1>5. post' \in [Posts -> PostStatus]
  BY <1>0, <1>1, SetPostType DEF PostStatus
<1>6. published \in Nat /\ writes \in Nat /\ counted \in [Posts -> Nat]
  BY DEF DupInv, PublisherTypeOK
<1>7. FaultsGrow
  BY <1>0, <1>1 DEF FaultsGrow
<1> QED
  BY <1>1, <1>4, <1>5, <1>6, <1>7, QuietStep

\* The locals of a run are lost, by a crash or by a fault of its worker.
Dies(w) ==
  /\ Become(w, Idle)
  /\ faults' = faults + 1
  /\ UNCHANGED <<dbVars, worldVars>>

\* A call, an end and a crash.
LEMMA EnvironmentDup ==
  ASSUME OneWorker, DupInv, NEW w \in Workers,
         Begin(w, 0) \/ End(w) \/ Dies(w)
  PROVE  DupInv'
<1>0. faults \in Nat /\ 0 \in Posts
  BY RunFacts, PublisherAssumption DEF Posts
<1>1. Idle \in Run /\ Idle.gen = 0 /\ Idle.pc = "idle" /\ Idle.todo = {}
  BY <1>0 DEF Idle, Run, RunPC
<1>2. CASE Begin(w, 0)
  <2> DEFINE s == [Idle EXCEPT !.pc = "load", !.at = 0]
  <2>1. /\ run[w].pc = "idle" /\ run' = [run EXCEPT ![w] = s]
        /\ UNCHANGED <<dbVars, worldVars>> /\ UNCHANGED faults
    BY <1>2 DEF Begin, At, Become
  <2>2. s \in Run /\ s.gen = 0 /\ s.pc = "load" /\ s.todo = {}
    BY <1>0 DEF Idle, Run, RunPC
  <2>3. Rests(w, s)
    BY <2>1, <2>2 DEF Rests, InHand
  <2> QED
    BY <1>0, <2>1, <2>3, SilentStep DEF FaultsGrow
<1>3. CASE End(w) \/ Dies(w)
  <2>1. /\ run' = [run EXCEPT ![w] = Idle] /\ UNCHANGED <<dbVars, worldVars>>
        /\ \/ run[w].pc = "return" /\ UNCHANGED faults
           \/ faults' = faults + 1
    BY <1>3 DEF End, Dies, At, Become
  <2>2. FaultsGrow /\ (run[w].pc \in {"save", "saved"} => faults' > faults)
    BY <1>0, <2>1 DEF FaultsGrow
  <2>3. Rests(w, Idle)
    BY <1>1, <2>1, <2>2 DEF Rests, InHand
  <2> QED
    BY <2>1, <2>2, <2>3, SilentStep
<1> QED
  BY <1>2, <1>3

LEMMA NextDup ==
  ASSUME OneWorker, DupInv, [PublisherNext]_pubVars
  PROVE  DupInv'
<1>1. ASSUME NEW w \in Workers, StepFault(w) PROVE DupInv'
  BY <1>1, PlatformFaultDup, StatementFaultDup, LoadThreadErrorDup DEF StepFault
<1>2. CASE UNCHANGED pubVars
  BY <1>2 DEF pubVars, DupInv, PublisherTypeOK, RowsStay, Fresh, InHand, Accounted, Landed, DuplicatesCostFaults
<1> QED
  BY <1>1, <1>2, StepDup, EnvironmentDup DEF PublisherNext, Deliver, Crash, Fault, Dies

\* One server process publishes a post at most once on an account, plus once
\* per fault, however long the thread, however many accounts, retries, quota
\* rejections and failed statements: types and the strengthened invariant.
THEOREM PublisherInvariant == ASSUME OneWorker PROVE PublisherSpec => []DupInv
<1>1. DupInv /\ [PublisherNext]_pubVars => DupInv'
  BY NextDup
<1> QED
  BY <1>1, InitDupInv, PTL DEF PublisherSpec

\* DuplicatesCostFaults: a retry never publishes again what succeeded.
THEOREM DuplicatesCostFaultsHolds == ASSUME OneWorker PROVE PublisherSpec => []DuplicatesCostFaults
<1>1. DupInv => DuplicatesCostFaults
  BY DEF DupInv
<1> QED
  BY <1>1, PublisherInvariant, PTL

-----------------------------------------------------------------------------
(* Types alone, with any number of servers and under edits.                *)

TypeInv ==
  /\ PublisherTypeOK
  /\ \A w \in Workers : InHand(run[w]) => run[w].acct \in Accounts

Moved(w, s) == s \in Run /\ (InHand(s) => s.acct \in Accounts) /\ run' = [run EXCEPT ![w] = s]

LEMMA TypedRun ==
  ASSUME TypeInv, NEW w \in Workers
  PROVE  /\ run[w] \in Run /\ run[w].at \in Posts /\ run[w].todo \subseteq Accounts
         /\ InHand(run[w]) => run[w].acct \in Accounts
  BY DEF TypeInv, PublisherTypeOK, Run

LEMMA GotoMoved ==
  ASSUME TypeInv, NEW w \in Workers, NEW pc \in RunPC, Goto(w, pc),
         InHand(run[w]) \/ pc \notin {"record", "call", "failed", "save", "saved"}
  PROVE  \E s : Moved(w, s)
<1> DEFINE s == [run[w] EXCEPT !.pc = pc]
<1>1. run' = [run EXCEPT ![w] = s]
  BY DEF Goto, TypeInv, PublisherTypeOK
<1>2. s \in Run /\ s.pc = pc /\ s.acct = run[w].acct
  BY TypedRun DEF Run
<1> HIDE DEF s
<1> QED
  BY <1>1, <1>2, TypedRun DEF Moved, InHand

LEMMA ReturnMoved ==
  ASSUME TypeInv, NEW w \in Workers, Return(w, TRUE)
  PROVE  \E s : Moved(w, s)
<1> DEFINE s == [run[w] EXCEPT !.pc = "return", !.err = TRUE]
<1>1. run' = [run EXCEPT ![w] = s]
  BY DEF Return, TypeInv, PublisherTypeOK
<1>2. s \in Run /\ s.pc = "return"
  BY TypedRun DEF Run, RunPC
<1> HIDE DEF s
<1> QED
  BY <1>1, <1>2 DEF Moved, InHand

\* A step to a record that differs from r in the program counter and in fields
\* of the right types.
LEMMA BecomeMoved ==
  ASSUME TypeInv, NEW w \in Workers, NEW s \in Run, ~InHand(s) \/ s.acct \in Accounts, Become(w, s)
  PROVE  \E r : Moved(w, r)
  BY DEF Moved, Become

LEMMA HandlerMoved ==
  ASSUME TypeInv, NEW w \in Workers,
         \/ Load(w) \/ MarkPublishing(w) \/ LoadDests(w) \/ CheckPublishedQuota(w) \/ EndDests(w)
         \/ LoadError(w) \/ MarkPublishingError(w) \/ LoadThreadError(w) \/ LoadDestsError(w)
         \/ CheckPublishedQuotaError(w)
  PROVE  \E s : Moved(w, s)
<1> DEFINE r == run[w]
<1>0. r \in Run /\ r.at \in Posts /\ gen \in [Posts -> Nat]
  BY TypedRun DEF TypeInv, PublisherTypeOK
<1>1. CASE Load(w) \/ LoadError(w) \/ EndDests(w)
  <2>1. Return(w, TRUE) \/ Goto(w, "mark") \/ Goto(w, "finalize")
    BY <1>1 DEF Load, LoadError, EndDests
  <2>2. "mark" \in RunPC /\ "finalize" \in RunPC
    BY DEF RunPC
  <2> QED
    BY <2>1, <2>2, ReturnMoved, GotoMoved
<1>2. CASE MarkPublishing(w) \/ MarkPublishingError(w) \/ LoadThreadError(w)
  <2>1. PICK n \in Posts : Become(w, [r EXCEPT !.pc = "dests", !.last = n])
    BY <1>2 DEF MarkPublishing, MarkPublishingError, LoadThreadError
  <2> DEFINE s == [r EXCEPT !.pc = "dests", !.last = n]
  <2>2. s \in Run /\ s.pc = "dests"
    BY <1>0, <2>1 DEF Run, RunPC
  <2> QED
    BY <2>1, <2>2, BecomeMoved DEF InHand
<1>3. CASE LoadDests(w)
  <2> DEFINE o == Open(r.at)
             g == gen[r.at]
             t == [r EXCEPT !.todo = o, !.gen = g]
  <2>1. Become(w, AfterDests(t))
    BY <1>3 DEF LoadDests
  <2>2. o \in SUBSET Accounts /\ g \in Nat
    BY <1>0 DEF Open
  <2> HIDE DEF o, g
  <2>3. t \in Run
    BY <1>0, <2>2 DEF Run
  <2> HIDE DEF t
  <2>4. \A pc \in {"finalize", "block", "quota"} : [t EXCEPT !.pc = pc] \in Run /\ [t EXCEPT !.pc = pc].pc = pc
    BY <2>3 DEF Run, RunPC
  <2>5. AfterDests(t) \in {[t EXCEPT !.pc = pc] : pc \in {"finalize", "block", "quota"}}
    BY DEF AfterDests
  <2>6. AfterDests(t) \in Run /\ AfterDests(t).pc \in {"finalize", "block", "quota"}
    BY <2>4, <2>5
  <2> QED
    BY <2>1, <2>6, BecomeMoved DEF InHand
<1>4. CASE CheckPublishedQuota(w) \/ CheckPublishedQuotaError(w)
  <2> DEFINE next == [r EXCEPT !.pc = "next"]
             reject == [r EXCEPT !.pc = "reject", !.err = TRUE]
  <2>1. next \in Run /\ next.pc = "next" /\ reject \in Run /\ reject.pc = "reject"
    BY <1>0 DEF Run, RunPC
  <2>2. Become(w, next) \/ Become(w, reject)
    BY <1>4 DEF CheckPublishedQuota, CheckPublishedQuotaError
  <2> HIDE DEF next, reject
  <2> QED
    BY <2>1, <2>2, BecomeMoved DEF InHand
<1>5. CASE LoadDestsError(w)
  <2> DEFINE s == [r EXCEPT !.pc = "finalize", !.okNow = r.ok]
  <2>1. s \in Run /\ s.pc = "finalize"
    BY <1>0 DEF Run, RunPC
  <2>2. Become(w, s) \/ Return(w, TRUE)
    BY <1>5 DEF LoadDestsError
  <2> HIDE DEF s
  <2> QED
    BY <2>1, <2>2, BecomeMoved, ReturnMoved DEF InHand
<1> QED
  BY <1>1, <1>2, <1>3, <1>4, <1>5

LEMMA TypedTake ==
  ASSUME TypeInv, NEW w \in Workers, NEW a \in Accounts, NEW pc \in RunPC
  PROVE  Take(w, a, pc) \in Run /\ Take(w, a, pc).acct = a
<1> DEFINE d == run[w].todo \ {a}
<1>1. Take(w, a, pc) = [run[w] EXCEPT !.pc = pc, !.acct = a, !.todo = d, !.again = FALSE]
  BY DEF Take
<1>2. d \in SUBSET Accounts /\ run[w] \in Run
  BY TypedRun
<1> HIDE DEF d
<1> QED
  BY <1>1, <1>2 DEF Run

LEMMA DestinationMoved ==
  ASSUME TypeInv, NEW w \in Workers,
         \/ \E a \in Accounts : Prepare(w, a) \/ PrepareError(w, a) \/ Skip(w, a)
         \/ \E a \in Accounts : Block(w, a) \/ Reject(w, a) \/ PassOverError(w, a)
         \/ RecordWrite(w) \/ Accept(w) \/ Refuse(w) \/ Expired(w)
         \/ RecordWriteError(w) \/ LoseReply(w) \/ AcceptWithoutID(w)
         \/ SaveExternalID(w) \/ SaveExternalIDError(w)
         \/ MarkSuccess(w) \/ MarkFailed(w) \/ MarkError(w)
  PROVE  \E s : Moved(w, s)
<1> DEFINE r == run[w]
<1>0. r \in Run
  BY TypedRun
<1>1. ASSUME NEW a \in Accounts, Prepare(w, a) PROVE \E s : Moved(w, s)
  <2> DEFINE t == Take(w, a, "record")
             b == r.at > 0 /\ dest[r.at - 1][a].ext
             s == [t EXCEPT !.reply = b]
  <2>1. Become(w, s)
    BY <1>1 DEF Prepare
  <2>2. t \in Run /\ t.acct = a
    BY TypedTake DEF RunPC
  <2>3. b \in BOOLEAN
    OBVIOUS
  <2> HIDE DEF t, b
  <2>4. s \in Run /\ s.acct = a
    BY <2>2, <2>3 DEF Run
  <2> HIDE DEF s
  <2> QED
    BY <2>1, <2>4, BecomeMoved
<1>2. ASSUME NEW a \in Accounts, PrepareError(w, a) \/ Skip(w, a) PROVE \E s : Moved(w, s)
  <2>1. PICK pc \in {"failed", "saved"} : Become(w, Take(w, a, pc))
    BY <1>2 DEF PrepareError, Skip
  <2>2. Take(w, a, pc) \in Run /\ Take(w, a, pc).acct = a
    BY TypedTake DEF RunPC
  <2> QED
    BY <2>1, <2>2, BecomeMoved
<1>3. ASSUME NEW a \in Accounts, Block(w, a) \/ Reject(w, a) \/ PassOverError(w, a) PROVE \E s : Moved(w, s)
  <2>1. r.pc \in {"block", "reject"} /\ (Become(w, AfterBlock(r, a)) \/ Become(w, AfterReject(r, a)))
    BY <1>3 DEF Block, Reject, PassOverError, At
  <2>2. \A s \in {AfterBlock(r, a), AfterReject(r, a)} : s \in Run /\ ~InHand(s)
    BY <1>0, <2>1, AfterRowRun
  <2> QED
    BY <2>1, <2>2, BecomeMoved
<1>4. CASE Expired(w)
  <2> DEFINE s == [r EXCEPT !.pc = "record", !.again = TRUE]
  <2>1. Become(w, s) /\ r.pc = "call"
    BY <1>4 DEF Expired, At
  <2>2. s \in Run /\ s.acct = r.acct
    BY <1>0 DEF Run, RunPC
  <2> HIDE DEF s
  <2> QED
    BY <2>1, <2>2, BecomeMoved, TypedRun DEF InHand
<1>5. CASE \/ RecordWrite(w) \/ Accept(w) \/ Refuse(w) \/ RecordWriteError(w) \/ LoseReply(w) \/ AcceptWithoutID(w)
           \/ SaveExternalID(w) \/ SaveExternalIDError(w)
  <2>1. InHand(r) /\ \E pc \in {"call", "save", "failed", "saved"} : Goto(w, pc)
    BY <1>5 DEF RecordWrite, Accept, Refuse, RecordWriteError, LoseReply, AcceptWithoutID, SaveExternalID, SaveExternalIDError, At, InHand
  <2>2. {"call", "save", "failed", "saved"} \subseteq RunPC
    BY DEF RunPC
  <2> QED
    BY <2>1, <2>2, GotoMoved
<1>6. CASE MarkSuccess(w) \/ MarkFailed(w) \/ MarkError(w)
  <2>1. r.pc \in {"saved", "failed"} /\ (Become(w, AfterSuccess(r)) \/ Become(w, AfterFailure(r)))
    BY <1>6 DEF MarkSuccess, MarkFailed, MarkError, At
  <2>2. r.acct \in Accounts
    BY <2>1, TypedRun DEF InHand
  <2>3. \A s \in {AfterSuccess(r), AfterFailure(r)} : s \in Run /\ s.pc = "next"
    BY <1>0, <2>2, AfterHandRun
  <2> QED
    BY <2>1, <2>3, BecomeMoved DEF InHand
<1> QED
  BY <1>1, <1>2, <1>3, <1>4, <1>5, <1>6

LEMMA FinalizeMoved ==
  ASSUME TypeInv, NEW w \in Workers,
         \/ CountDests(w) \/ Conclude(w) \/ CountPublished(w) \/ CountDestsError(w) \/ ConcludeError(w)
  PROVE  \E s : Moved(w, s)
<1> DEFINE r == run[w]
<1>0. r \in Run
  BY TypedRun
<1>1. CASE CountDests(w) \/ CountDestsError(w)
  <2>1. PICK v \in {"empty", "failed", "published"} : Become(w, [r EXCEPT !.pc = "conclude", !.verdict = v, !.ok = r.okNow])
    BY <1>1 DEF CountDests, CountDestsError, Verdict
  <2> DEFINE o == r.okNow
             s == [r EXCEPT !.pc = "conclude", !.verdict = v, !.ok = o]
  <2>2. o \in SUBSET Accounts
    BY <1>0 DEF Run
  <2>3. Become(w, s)
    BY <2>1
  <2> HIDE DEF o
  <2>4. s \in Run /\ s.pc = "conclude"
    BY <1>0, <2>2 DEF Run, RunPC
  <2> HIDE DEF s
  <2> QED
    BY <2>3, <2>4, BecomeMoved DEF InHand
<1>2. CASE Conclude(w) \/ CountPublished(w) \/ ConcludeError(w)
  <2> DEFINE s == [r EXCEPT !.pc = "count"]
  <2>1. Become(w, s) \/ Become(w, NextPost(r))
    BY <1>2 DEF Conclude, CountPublished, ConcludeError
  <2>2. s \in Run /\ s.pc = "count"
    BY <1>0 DEF Run, RunPC
  <2>3. NextPost(r) \in Run /\ ~InHand(NextPost(r))
    BY <1>0, NextPostRun DEF InHand
  <2> HIDE DEF s
  <2> QED
    BY <2>1, <2>2, <2>3, BecomeMoved DEF InHand
<1> QED
  BY <1>1, <1>2

\* One row is written, or none.
LEMMA SetDestTyped ==
  ASSUME TypeInv, NEW w \in Workers, NEW p \in Posts, NEW a \in Accounts, NEW row \in DestRow, SetDest(w, p, a, row)
  PROVE  dest' \in [Posts -> [Accounts -> DestRow]]
  BY DEF SetDest, TypeInv, PublisherTypeOK

LEMMA SetPostTyped ==
  ASSUME TypeInv, NEW p \in Posts, NEW status \in PostStatus, SetPost(p, status)
  PROVE  post' \in [Posts -> PostStatus]
  BY DEF SetPost, TypeInv, PublisherTypeOK

LEMMA AppearTyped ==
  ASSUME TypeInv, NEW w \in Workers, run[w].acct \in Accounts, Appear(w)
  PROVE  live' \in [Posts -> [Accounts -> Nat]] /\ detached' \subseteq Posts \X Accounts
<1> DEFINE p == run[w].at
           a == run[w].acct
           n == live[p][a] + 1
<1>1. p \in Posts /\ a \in Accounts /\ live \in [Posts -> [Accounts -> Nat]] /\ detached \subseteq Posts \X Accounts
  BY TypedRun DEF TypeInv, PublisherTypeOK
<1>2. live' = [live EXCEPT ![p][a] = n] /\ detached' \in {detached, detached \cup {<<p, a>>}}
  BY DEF Appear
<1>3. n \in Nat
  BY <1>1
<1> HIDE DEF n, p, a
<1> QED
  BY <1>1, <1>2, <1>3

LEMMA RowsTyped ==
  ASSUME TypeInv, NEW w \in Workers, Step(w) \/ StepFault(w)
  PROVE  dest' \in [Posts -> [Accounts -> DestRow]]
<1> DEFINE r == run[w]
<1>0. /\ r.at \in Posts /\ r.todo \subseteq Accounts /\ (InHand(r) => r.acct \in Accounts)
      /\ dest \in [Posts -> [Accounts -> DestRow]]
  BY TypedRun DEF TypeInv, PublisherTypeOK
<1>1. ASSUME NEW a \in Accounts, Block(w, a) \/ Reject(w, a) PROVE dest' \in [Posts -> [Accounts -> DestRow]]
  <2>1. PICK b \in BOOLEAN : SetDest(w, r.at, a, Failed(dest[r.at][a], b))
    BY <1>1 DEF Block, Reject
  <2>2. Failed(dest[r.at][a], b) \in DestRow
    BY <1>0, FailedRow
  <2> QED
    BY <1>0, <2>1, <2>2, SetDestTyped
<1>2. ASSUME SaveExternalID(w) PROVE dest' \in [Posts -> [Accounts -> DestRow]]
  <2>1. r.acct \in Accounts /\ SetDest(w, r.at, r.acct, [dest[r.at][r.acct] EXCEPT !.ext = TRUE])
    BY <1>0, <1>2 DEF SaveExternalID, At, InHand
  <2>2. [dest[r.at][r.acct] EXCEPT !.ext = TRUE] \in DestRow
    BY <1>0, <2>1, ExtRow
  <2> QED
    BY <1>0, <2>1, <2>2, SetDestTyped
<1>3. ASSUME MarkSuccess(w) PROVE dest' \in [Posts -> [Accounts -> DestRow]]
  <2>1. r.acct \in Accounts /\ SetDest(w, r.at, r.acct, Succeeded(dest[r.at][r.acct], SkipReply(r, r.acct)))
    BY <1>0, <1>3 DEF MarkSuccess, At, InHand
  <2>2. SkipReply(r, r.acct) \in BOOLEAN
    BY DEF SkipReply
  <2>3. Succeeded(dest[r.at][r.acct], SkipReply(r, r.acct)) \in DestRow
    BY <1>0, <2>1, <2>2, SucceededRow
  <2> QED
    BY <1>0, <2>1, <2>3, SetDestTyped
<1>4. ASSUME MarkFailed(w) PROVE dest' \in [Posts -> [Accounts -> DestRow]]
  <2>1. r.acct \in Accounts /\ SetDest(w, r.at, r.acct, Failed(dest[r.at][r.acct], FALSE))
    BY <1>0, <1>4 DEF MarkFailed, At, InHand
  <2>2. Failed(dest[r.at][r.acct], FALSE) \in DestRow
    BY <1>0, <2>1, FailedRow
  <2> QED
    BY <1>0, <2>1, <2>2, SetDestTyped
<1>5. \/ UNCHANGED dest \/ SaveExternalID(w) \/ MarkSuccess(w) \/ MarkFailed(w)
      \/ \E a \in Accounts : Block(w, a) \/ Reject(w, a)
  BY DEF dbVars, Step, StepFault, Load, MarkPublishing, LoadDests, CheckPublishedQuota, EndDests, Prepare, PrepareError,
     Skip, RecordWrite, Accept, Refuse, Expired, CountDests, Conclude, CountPublished, LoadError, MarkPublishingError,
     LoadThreadError, LoadDestsError, CheckPublishedQuotaError, PassOverError, RecordWriteError, LoseReply,
     AcceptWithoutID, SaveExternalIDError, MarkError, CountDestsError, ConcludeError
<1> QED
  BY <1>0, <1>1, <1>2, <1>3, <1>4, <1>5

LEMMA TypedFrame ==
  ASSUME NEW w \in Workers, Step(w) \/ StepFault(w)
  PROVE  /\ gen' = gen
         /\ faults' \in {faults, faults + 1, faults + 2}
         /\ published' \in {published, published + 1}
         /\ writes' \in {writes, writes + 1}
         /\ UNCHANGED counted \/ counted' = [counted EXCEPT ![run[w].at] = counted[run[w].at] + 1]
         /\ UNCHANGED post \/ \E status \in {"publishing", "failed", "published"} : SetPost(run[w].at, status)
         /\ UNCHANGED worldVars \/ (At(w, "call") /\ Appear(w))
<1> USE DEF dbVars, Load, MarkPublishing, LoadDests, CheckPublishedQuota, EndDests, Prepare, PrepareError, Skip,
      RecordWrite, Accept, Refuse, Expired, CountDests, Conclude, CountPublished, Block, Reject, SaveExternalID,
      MarkSuccess, MarkFailed, LoadError, MarkPublishingError, LoadThreadError, LoadDestsError,
      CheckPublishedQuotaError, PassOverError, RecordWriteError, LoseReply, AcceptWithoutID, SaveExternalIDError,
      MarkError, CountDestsError, ConcludeError, Fault, DbFault
<1>1. gen' = gen
  BY DEF Step, StepFault
<1>2. faults' \in {faults, faults + 1, faults + 2}
  BY DEF Step, StepFault
<1>3. published' \in {published, published + 1}
  BY DEF Step, StepFault
<1>4. writes' \in {writes, writes + 1}
  BY DEF Step, StepFault
<1>5. UNCHANGED counted \/ counted' = [counted EXCEPT ![run[w].at] = counted[run[w].at] + 1]
  BY DEF Step, StepFault
<1>6. UNCHANGED post \/ \E status \in {"publishing", "failed", "published"} : SetPost(run[w].at, status)
  BY DEF Step, StepFault
<1>7. UNCHANGED worldVars \/ (At(w, "call") /\ Appear(w))
  BY DEF Step, StepFault
<1> QED
  BY <1>1, <1>2, <1>3, <1>4, <1>5, <1>6, <1>7

LEMMA CountersTyped ==
  ASSUME TypeInv, NEW w \in Workers, Step(w) \/ StepFault(w)
  PROVE  /\ post' \in [Posts -> PostStatus] /\ gen' = gen
         /\ published' \in Nat /\ writes' \in Nat /\ counted' \in [Posts -> Nat]
         /\ live' \in [Posts -> [Accounts -> Nat]] /\ detached' \subseteq Posts \X Accounts
         /\ faults' \in Nat
<1> DEFINE r == run[w]
<1>0. /\ r.at \in Posts /\ (InHand(r) => r.acct \in Accounts)
      /\ post \in [Posts -> PostStatus] /\ gen \in [Posts -> Nat]
      /\ published \in Nat /\ writes \in Nat /\ counted \in [Posts -> Nat]
      /\ live \in [Posts -> [Accounts -> Nat]] /\ detached \subseteq Posts \X Accounts /\ faults \in Nat
  BY TypedRun DEF TypeInv, PublisherTypeOK
<1>1. gen' = gen /\ faults' \in Nat /\ published' \in Nat /\ writes' \in Nat
  BY <1>0, TypedFrame
<1>2. counted' \in [Posts -> Nat]
  BY <1>0, TypedFrame
<1>3. post' \in [Posts -> PostStatus]
  <2>1. {"publishing", "failed", "published"} \subseteq PostStatus
    BY DEF PostStatus
  <2> QED
    BY <1>0, <2>1, TypedFrame, SetPostTyped
<1>4. live' \in [Posts -> [Accounts -> Nat]] /\ detached' \subseteq Posts \X Accounts
  <2>1. ASSUME At(w, "call") PROVE r.acct \in Accounts
    BY <1>0, <2>1 DEF At, InHand
  <2> QED
    BY <1>0, <2>1, TypedFrame, AppearTyped DEF worldVars
<1> QED
  BY <1>1, <1>2, <1>3, <1>4

LEMMA MovedTypes ==
  ASSUME TypeInv, NEW w \in Workers, NEW s, Moved(w, s)
  PROVE  /\ run' \in [Workers -> Run]
         /\ \A v \in Workers : InHand(run[v])' => run'[v].acct \in Accounts
<1>1. run' \in [Workers -> Run] /\ run'[w] = s /\ \A v \in Workers : v # w => run'[v] = run[v]
  BY DEF Moved, TypeInv, PublisherTypeOK
<1> QED
  BY <1>1 DEF Moved, TypeInv, InHand

LEMMA StepTypes ==
  ASSUME TypeInv, NEW w \in Workers, Step(w) \/ StepFault(w)
  PROVE  TypeInv'
<1>1. PICK s : Moved(w, s)
  BY HandlerMoved, DestinationMoved, FinalizeMoved DEF Step, StepFault
<1> QED
  BY <1>1, MovedTypes, RowsTyped, CountersTyped DEF TypeInv, PublisherTypeOK

\* A call, an end, a crash.
LEMMA EdgeTypes ==
  ASSUME TypeInv, NEW w \in Workers, NEW p \in Posts, NEW s \in {Idle, [Idle EXCEPT !.pc = "load", !.at = p]},
         run' = [run EXCEPT ![w] = s], UNCHANGED <<dbVars, worldVars>>, faults' \in Nat
  PROVE  TypeInv'
<1>1. s \in Run /\ ~InHand(s)
  <2>1. 0 \in Posts
    BY PublisherAssumption DEF Posts
  <2>2. Idle \in Run /\ Idle.pc = "idle"
    BY <2>1 DEF Idle, Run, RunPC
  <2>3. LET t == [Idle EXCEPT !.pc = "load", !.at = p] IN t \in Run /\ t.pc = "load"
    BY <2>2 DEF Run, RunPC
  <2> QED
    BY <2>2, <2>3 DEF InHand
<1>2. Moved(w, s)
  BY <1>1 DEF Moved
<1> QED
  BY <1>2, MovedTypes DEF TypeInv, PublisherTypeOK, dbVars, worldVars

\* What a step says of the posts: the root of a handler that has not yet marked
\* it, and that nobody but an author makes a post a draft or "scheduled".
LEMMA StepPosts ==
  ASSUME TypeInv, NEW w \in Workers, Step(w) \/ LoseReply(w) \/ AcceptWithoutID(w)
  PROVE  /\ \A v \in Workers : v # w => run'[v] = run[v]
         /\ run[w].pc = "load" =>
              UNCHANGED post /\ (post[run[w].at] = "gone" \/ (run'[w].pc = "mark" /\ run'[w].at = run[w].at))
         /\ run[w].pc = "mark" => post'[run[w].at] # "scheduled"
         /\ \A p \in Posts : post'[p] \in {"draft", "scheduled"} => post'[p] = post[p]
<1> DEFINE r == run[w]
<1>0. /\ r.at \in Posts /\ post \in [Posts -> PostStatus] /\ run \in [Workers -> Run]
      /\ Step(w) \/ StepFault(w)
  BY TypedRun DEF TypeInv, PublisherTypeOK, StepFault
<1>1. \A v \in Workers : v # w => run'[v] = run[v]
  <2>1. PICK s : Moved(w, s)
    BY <1>0, HandlerMoved, DestinationMoved, FinalizeMoved DEF Step, StepFault
  <2> QED
    BY <1>0, <2>1 DEF Moved
<1>2. r.pc = "load" => Load(w)
  BY DEF At, Step, Load, MarkPublishing, LoadDests, CheckPublishedQuota, EndDests, Prepare, PrepareError, Skip,
     RecordWrite, Accept, Refuse, Expired, CountDests, Conclude, CountPublished, Block, Reject, SaveExternalID,
     MarkSuccess, MarkFailed, LoseReply, AcceptWithoutID
<1>3. r.pc = "mark" => MarkPublishing(w)
  BY DEF At, Step, Load, MarkPublishing, LoadDests, CheckPublishedQuota, EndDests, Prepare, PrepareError, Skip,
     RecordWrite, Accept, Refuse, Expired, CountDests, Conclude, CountPublished, Block, Reject, SaveExternalID,
     MarkSuccess, MarkFailed, LoseReply, AcceptWithoutID
<1>4. ASSUME Load(w)
      PROVE  UNCHANGED post /\ (post[r.at] = "gone" \/ (run'[w].pc = "mark" /\ run'[w].at = r.at))
  <2>1. UNCHANGED post /\ (post[r.at] = "gone" \/ run' = [run EXCEPT ![w].pc = "mark"])
    BY <1>4 DEF Load, Goto, dbVars
  <2>2. r \in Run
    BY <1>0
  <2> QED
    BY <1>0, <2>1, <2>2 DEF Run
<1>5. ASSUME MarkPublishing(w) PROVE post'[r.at] # "scheduled"
  BY <1>0, <1>5 DEF MarkPublishing, SetPost
<1>6. \A p \in Posts : post'[p] \in {"draft", "scheduled"} => post'[p] = post[p]
  BY <1>0, TypedFrame DEF SetPost
<1> QED
  BY <1>1, <1>2, <1>3, <1>4, <1>5, <1>6

LEMMA NextTypes ==
  ASSUME TypeInv, [PublisherNext]_pubVars
  PROVE  TypeInv'
<1>1. CASE UNCHANGED pubVars
  BY <1>1 DEF pubVars, TypeInv, PublisherTypeOK, InHand
<1>2. ASSUME NEW w \in Workers, Step(w) \/ StepFault(w) PROVE TypeInv'
  BY <1>2, StepTypes
<1>3. ASSUME NEW w \in Workers, Deliver(w) \/ End(w) \/ Crash(w) PROVE TypeInv'
  <2>1. 0 \in Posts /\ faults \in Nat
    BY PublisherAssumption DEF Posts, TypeInv, PublisherTypeOK
  <2>2. PICK s \in {Idle, [Idle EXCEPT !.pc = "load", !.at = 0]} : run' = [run EXCEPT ![w] = s]
    BY <1>3 DEF Deliver, Begin, End, Crash, Become
  <2>3. UNCHANGED <<dbVars, worldVars>>
    BY <1>3 DEF Deliver, Begin, End, Crash
  <2>4. faults' \in Nat
    BY <1>3, <2>1 DEF Deliver, Begin, End, Crash, Fault
  <2> QED
    BY <2>1, <2>2, <2>3, <2>4, EdgeTypes
<1> QED
  BY <1>1, <1>2, <1>3 DEF PublisherNext

LEMMA CreatedTypes ==
  ASSUME NEW s \in PostStatus, CreatedAs(s)
  PROVE  TypeInv
  BY PublisherAssumption
  DEF CreatedAs, TypeInv, PublisherTypeOK, Posts, PostStatus, DestRow, NewDest, Run, RunPC, Idle, InHand

\* The variables of the publisher keep their types, with any number of servers
\* and after any fault.
THEOREM PublisherTypeHolds == PublisherSpec => []PublisherTypeOK
<1>1. TypeInv /\ [PublisherNext]_pubVars => TypeInv'
  BY NextTypes
<1>2. TypeInv => PublisherTypeOK
  BY DEF TypeInv
<1>3. PublisherInit => TypeInv
  BY CreatedTypes DEF PublisherInit, PostStatus
<1> QED
  BY <1>1, <1>2, <1>3, PTL DEF PublisherSpec
=============================================================================
