----------------------- MODULE PublisherThreadProofs -----------------------
(***************************************************************************)
(* What a publisher that runs on one server delivers: threads in order,    *)
(* replies attached, "published" posts delivered, and the limits of the    *)
(* plan. The first part says what each action does to the run and to the   *)
(* rows it may write; the invariants are then kept by cases on these facts.*)
(***************************************************************************)
EXTENDS PublisherProofs, FiniteSetTheorems

-----------------------------------------------------------------------------
(* What each action does.                                                  *)

\* A run goes on with the same post of the same thread.
Stays(r, s) == s.at = r.at /\ s.last = r.last /\ s.ok = r.ok

\* It changes nothing that others read.
Silent == UNCHANGED <<post, dest, gen, published, writes, counted, live, detached, faults>>
SilentBut(p, a) ==
  /\ UNCHANGED <<post, gen, published, writes, counted, live, detached, faults>>
  /\ dest' \in [Posts -> [Accounts -> DestRow]]
  /\ \A q \in Posts, b \in Accounts : q # p \/ b # a => dest'[q][b] = dest[q][b]

\* What Goto keeps.
Pass(r, s) == Stays(r, s) /\ s.todo = r.todo /\ s.okNow = r.okNow /\ s.acct = r.acct /\ s.reply = r.reply

LEMMA PcFields ==
  ASSUME NEW r \in Run, NEW pc
  PROVE  [r EXCEPT !.pc = pc].pc = pc /\ Pass(r, [r EXCEPT !.pc = pc])
  BY DEF Pass, Stays, Run

LEMMA FailedFields ==
  ASSUME NEW row \in DestRow, NEW b \in BOOLEAN
  PROVE  Failed(row, b) \in DestRow /\ Failed(row, b).status = "failed" /\ Failed(row, b).ext = row.ext
<1>1. Failed(row, b) = [row EXCEPT !.status = "failed", !.blocked = b]
  BY DEF Failed
<1> QED
  BY <1>1 DEF DestRow

LEMMA ExtFields ==
  ASSUME NEW row \in DestRow, NEW b \in BOOLEAN
  PROVE  [row EXCEPT !.ext = TRUE].ext /\ Succeeded(row, b).ext = row.ext
<1> DEFINE c == row.blocked /\ ~b
<1>1. Succeeded(row, b) = [row EXCEPT !.status = "success", !.blocked = c]
  BY DEF Succeeded
<1> HIDE DEF c
<1> QED
  BY <1>1 DEF DestRow

LEMMA RejectFields ==
  ASSUME NEW r \in Run, NEW a
  PROVE  LET s == AfterReject(r, a)
         IN  /\ Stays(r, s) /\ s.okNow = r.okNow /\ s.todo = r.todo \ {a}
             /\ IF r.todo = {a} THEN s.pc = "finalize" ELSE s.pc = r.pc
<1> DEFINE d == r.todo \ {a}
           q == IF r.todo = {a} THEN "finalize" ELSE r.pc
<1>1. AfterReject(r, a) = [r EXCEPT !.todo = d, !.pc = q]
  BY DEF AfterReject
<1> HIDE DEF d, q
<1>2. LET s == [r EXCEPT !.todo = d, !.pc = q]
      IN  Stays(r, s) /\ s.okNow = r.okNow /\ s.todo = d /\ s.pc = q
  BY DEF Stays, Run
<1> QED
  BY <1>1, <1>2 DEF d, q

LEMMA BlockFields ==
  ASSUME NEW r \in Run, NEW a
  PROVE  LET s == AfterBlock(r, a)
         IN  /\ Stays(r, s) /\ s.okNow = r.okNow /\ s.todo = r.todo \ {a}
             /\ IF Blocked(r) = {a} THEN s.pc = "quota" ELSE s.pc = r.pc
<1> DEFINE d == r.todo \ {a}
           q == IF Blocked(r) = {a} THEN "quota" ELSE r.pc
<1>1. AfterBlock(r, a) = [r EXCEPT !.todo = d, !.pc = q]
  BY DEF AfterBlock
<1> HIDE DEF d, q
<1>2. LET s == [r EXCEPT !.todo = d, !.pc = q]
      IN  Stays(r, s) /\ s.okNow = r.okNow /\ s.todo = d /\ s.pc = q
  BY DEF Stays, Run
<1> QED
  BY <1>1, <1>2 DEF d, q

\* A destination is taken.
Taken(r, s, a) ==
  /\ r.pc = "next" /\ a \in r.todo
  /\ Stays(r, s) /\ s.okNow = r.okNow /\ s.acct = a /\ s.todo = r.todo \ {a}

LEMMA TakeFields ==
  ASSUME NEW w \in Workers, run[w] \in Run, run[w].pc = "next", NEW a \in run[w].todo, NEW pc
  PROVE  /\ Taken(run[w], Take(w, a, pc), a) /\ Take(w, a, pc).pc = pc
<1> DEFINE r == run[w]
           d == r.todo \ {a}
           t == [r EXCEPT !.pc = pc, !.acct = a, !.todo = d, !.again = FALSE]
<1>1. Take(w, a, pc) = t
  BY DEF Take
<1> HIDE DEF d
<1>2. t.pc = pc /\ Stays(r, t) /\ t.okNow = r.okNow /\ t.acct = a /\ t.todo = d
  BY DEF Run, Stays
<1> QED
  BY <1>1, <1>2 DEF Taken, d

LEMMA TakeReplyFields ==
  ASSUME NEW w \in Workers, run[w] \in Run, run[w].pc = "next", NEW a \in run[w].todo, NEW pc,
         NEW b \in BOOLEAN
  PROVE  LET s == [Take(w, a, pc) EXCEPT !.reply = b]
         IN  Taken(run[w], s, a) /\ s.pc = pc /\ s.reply = b
<1> DEFINE r == run[w]
           d == r.todo \ {a}
           t == [r EXCEPT !.pc = pc, !.acct = a, !.todo = d, !.again = FALSE]
<1>1. Take(w, a, pc) = t
  BY DEF Take
<1> HIDE DEF d
<1>2. LET s == [t EXCEPT !.reply = b]
      IN s.pc = pc /\ Stays(r, s) /\ s.okNow = r.okNow /\ s.acct = a /\ s.todo = d /\ s.reply = b
  BY DEF Run, Stays
<1> QED
  BY <1>1, <1>2 DEF Taken, d

LEMMA HandFields ==
  ASSUME NEW r \in Run
  PROVE  /\ AfterSuccess(r).pc = "next" /\ Stays(r, AfterSuccess(r)) /\ AfterSuccess(r).todo = r.todo
         /\ AfterSuccess(r).okNow = r.okNow \cup {r.acct}
         /\ AfterFailure(r).pc = "next" /\ Stays(r, AfterFailure(r)) /\ AfterFailure(r).todo = r.todo
         /\ AfterFailure(r).okNow = r.okNow
<1> DEFINE o == r.okNow \cup {r.acct}
           e == r.err \/ ~InThread(r)
<1>1. /\ AfterSuccess(r) = [r EXCEPT !.pc = "next", !.okNow = o]
      /\ AfterFailure(r) = [r EXCEPT !.pc = "next", !.err = e]
  BY DEF AfterSuccess, AfterFailure
<1> HIDE DEF o, e
<1>2. LET s == [r EXCEPT !.pc = "next", !.okNow = o]
      IN  s.pc = "next" /\ Stays(r, s) /\ s.todo = r.todo /\ s.okNow = o
  BY DEF Stays, Run
<1>3. LET s == [r EXCEPT !.pc = "next", !.err = e]
      IN  s.pc = "next" /\ Stays(r, s) /\ s.todo = r.todo /\ s.okNow = r.okNow
  BY DEF Stays, Run
<1> QED
  BY <1>1, <1>2, <1>3 DEF o

LEMMA BecomeRun ==
  ASSUME DupInv, NEW w \in Workers, NEW s, run' = [run EXCEPT ![w] = s]
  PROVE  run'[w] = s /\ \A v \in Workers : v # w => run'[v] = run[v]
  BY DEF DupInv, PublisherTypeOK

LEMMA WroteRow ==
  ASSUME DupInv, NEW w \in Workers, NEW a \in Accounts, NEW row \in DestRow,
         SetDest(w, run[w].at, a, row),
         UNCHANGED <<post, gen, published, writes, counted, live, detached, faults>>
  PROVE  SilentBut(run[w].at, a) /\ dest'[run[w].at][a] = row
<1> DEFINE p == run[w].at
<1>1. p \in Posts /\ gen[p] = run[w].gen /\ dest \in [Posts -> [Accounts -> DestRow]]
  BY RunFacts
<1>2. dest' = [dest EXCEPT ![p][a] = row]
  BY <1>1 DEF SetDest
<1> HIDE DEF p
<1>3. /\ dest' \in [Posts -> [Accounts -> DestRow]] /\ dest'[p][a] = row
      /\ \A q \in Posts, b \in Accounts : q # p \/ b # a => dest'[q][b] = dest[q][b]
  BY <1>1, <1>2
<1> QED
  BY <1>3 DEF SilentBut, p

LEMMA LoadFacts ==
  ASSUME DupInv, NEW w \in Workers, Load(w)
  PROVE  /\ run[w].pc = "load" /\ run'[w].pc \in {"return", "mark"} /\ Stays(run[w], run'[w])
         /\ run'[w].okNow = run[w].okNow /\ Silent
  BY RunFacts DEF Load, At, Return, Goto, Stays, Silent, dbVars, worldVars, Run

LEMMA MarkFacts ==
  ASSUME DupInv, NEW w \in Workers, MarkPublishing(w)
  PROVE  /\ run[w].pc = "mark" /\ run'[w].pc = "dests" /\ run'[w].at = run[w].at
         /\ run'[w].ok = run[w].ok /\ run'[w].okNow = run[w].okNow
         /\ SetPost(run[w].at, "publishing")
         /\ UNCHANGED <<dest, gen, published, writes, counted, live, detached, faults>>
  BY RunFacts DEF MarkPublishing, At, Become, worldVars, Run

LEMMA LoadDestsFacts ==
  ASSUME DupInv, NEW w \in Workers, LoadDests(w)
  PROVE  /\ run[w].pc = "dests" /\ Stays(run[w], run'[w]) /\ run'[w].okNow = run[w].okNow
         /\ run'[w].todo = Open(run[w].at)
         /\ \/ run'[w].pc = "finalize" /\ run'[w].todo = {} /\ ~InThread(run[w])
            \/ run'[w].pc = "block" /\ Blocked(run'[w]) # {}
            \/ run'[w].pc = "quota" /\ Blocked(run'[w]) = {}
         /\ Silent
<1> DEFINE r == run[w]
           g == gen[r.at]
           o == Open(r.at)
           u == [r EXCEPT !.todo = o, !.gen = g]
<1>1. r \in Run /\ o \in SUBSET Accounts
  BY RunFacts DEF Open
<1>2. r.pc = "dests" /\ run' = [run EXCEPT ![w] = AfterDests(u)] /\ Silent
  BY DEF LoadDests, At, Become, Silent, dbVars, worldVars
<1>3. run'[w] = AfterDests(u)
  BY <1>2, BecomeRun
<1> HIDE DEF o, g
<1>4. u.at = r.at /\ u.last = r.last /\ u.ok = r.ok /\ u.okNow = r.okNow /\ u.todo = o
  BY <1>1 DEF Run
<1>5. u \in Run
  BY <1>1, <1>2 DEF Run, g, DupInv, PublisherTypeOK
<1> HIDE DEF u
<1>6. Blocked(u) = Blocked([u EXCEPT !.pc = "block"]) /\ Blocked(u) = Blocked([u EXCEPT !.pc = "quota"])
  BY <1>5 DEF Blocked, InThread, Run
<1>7. CASE u.todo = {} /\ ~InThread(u)
  <2>1. AfterDests(u) = [u EXCEPT !.pc = "finalize"]
    BY <1>7 DEF AfterDests, Blocked
  <2>2. [u EXCEPT !.pc = "finalize"].pc = "finalize" /\ Pass(u, [u EXCEPT !.pc = "finalize"])
    BY <1>5, PcFields
  <2> QED
    BY <1>2, <1>3, <1>4, <1>7, <2>1, <2>2 DEF Pass, Stays, InThread, o
<1>8. CASE ~(u.todo = {} /\ ~InThread(u)) /\ Blocked(u) # {}
  <2>1. AfterDests(u) = [u EXCEPT !.pc = "block"]
    BY <1>8 DEF AfterDests
  <2>2. [u EXCEPT !.pc = "block"].pc = "block" /\ Pass(u, [u EXCEPT !.pc = "block"])
    BY <1>5, PcFields
  <2>3. Blocked(run'[w]) # {}
    BY <1>3, <1>6, <1>8, <2>1
  <2> QED
    BY <1>2, <1>3, <1>4, <2>1, <2>2, <2>3 DEF Pass, Stays, o
<1>9. CASE ~(u.todo = {} /\ ~InThread(u)) /\ Blocked(u) = {}
  <2>1. AfterDests(u) = [u EXCEPT !.pc = "quota"]
    BY <1>9 DEF AfterDests
  <2>2. [u EXCEPT !.pc = "quota"].pc = "quota" /\ Pass(u, [u EXCEPT !.pc = "quota"])
    BY <1>5, PcFields
  <2> QED
    BY <1>2, <1>3, <1>4, <1>6, <1>9, <2>1, <2>2 DEF Pass, Stays, o
<1> QED
  BY <1>7, <1>8, <1>9

LEMMA QuotaFacts ==
  ASSUME DupInv, NEW w \in Workers, CheckPublishedQuota(w)
  PROVE  /\ run[w].pc = "quota" /\ Stays(run[w], run'[w]) /\ run'[w].okNow = run[w].okNow
         /\ run'[w].todo = run[w].todo
         /\ \/ run'[w].pc = "next" /\ (run[w].todo = {} \/ published < PublishedLimit)
            \/ run'[w].pc = "reject" /\ run[w].todo # {}
         /\ Silent
<1> DEFINE r == run[w]
<1>1. r \in Run
  BY RunFacts
<1>2. r.pc = "quota" /\ Silent
  BY DEF CheckPublishedQuota, At, Silent, dbVars, worldVars
<1>3. CASE r.todo = {} \/ published < PublishedLimit
  <2>1. run' = [run EXCEPT ![w] = [r EXCEPT !.pc = "next"]]
    BY <1>3 DEF CheckPublishedQuota, Become
  <2>2. run'[w] = [r EXCEPT !.pc = "next"]
    BY <2>1, BecomeRun
  <2> QED
    BY <1>1, <1>2, <1>3, <2>2 DEF Stays, Run
<1>4. CASE ~(r.todo = {} \/ published < PublishedLimit)
  <2>1. run' = [run EXCEPT ![w] = [r EXCEPT !.pc = "reject", !.err = TRUE]]
    BY <1>4 DEF CheckPublishedQuota, Become
  <2>2. run'[w] = [r EXCEPT !.pc = "reject", !.err = TRUE]
    BY <2>1, BecomeRun
  <2> QED
    BY <1>1, <1>2, <1>4, <2>2 DEF Stays, Run
<1> QED
  BY <1>3, <1>4

LEMMA GotoFacts ==
  ASSUME DupInv, NEW w \in Workers, NEW pc, Goto(w, pc)
  PROVE  run'[w].pc = pc /\ Pass(run[w], run'[w])
  BY RunFacts DEF Goto, Pass, Stays, Run

LEMMA EndDestsFacts ==
  ASSUME DupInv, NEW w \in Workers, EndDests(w)
  PROVE  run[w].pc = "next" /\ run[w].todo = {} /\ run'[w].pc = "finalize" /\ Pass(run[w], run'[w]) /\ Silent
  BY GotoFacts DEF EndDests, At, Silent, dbVars, worldVars

LEMMA BlockFacts ==
  ASSUME DupInv, NEW w \in Workers, NEW a \in Accounts, Block(w, a)
  PROVE  /\ run[w].pc = "block" /\ a \in Blocked(run[w])
         /\ Stays(run[w], run'[w]) /\ run'[w].okNow = run[w].okNow
         /\ run'[w].todo = run[w].todo \ {a}
         /\ IF Blocked(run[w]) = {a} THEN run'[w].pc = "quota" ELSE run'[w].pc = "block"
         /\ SilentBut(run[w].at, a)
         /\ dest'[run[w].at][a].status = "failed" /\ dest'[run[w].at][a].ext = dest[run[w].at][a].ext
<1> DEFINE r == run[w]
           row == Failed(dest[r.at][a], TRUE)
<1>1. r \in Run /\ r.at \in Posts /\ dest \in [Posts -> [Accounts -> DestRow]]
  BY RunFacts
<1>2. /\ r.pc = "block" /\ a \in Blocked(r) /\ SetDest(w, r.at, a, row) /\ run' = [run EXCEPT ![w] = AfterBlock(r, a)]
      /\ UNCHANGED <<post, gen, published, writes, counted, live, detached, faults>>
  BY DEF Block, At, Become, worldVars
<1>3. row \in DestRow /\ row.status = "failed" /\ row.ext = dest[r.at][a].ext
  <2>1. dest[r.at][a] \in DestRow
    BY <1>1
  <2> QED
    BY <2>1, FailedFields
<1> HIDE DEF row
<1>4. run'[w] = AfterBlock(r, a)
  BY <1>2, BecomeRun
<1>5. /\ Stays(r, run'[w]) /\ run'[w].okNow = r.okNow /\ run'[w].todo = r.todo \ {a}
      /\ IF Blocked(r) = {a} THEN run'[w].pc = "quota" ELSE run'[w].pc = "block"
  BY <1>1, <1>2, <1>4, BlockFields
<1> QED
  BY <1>2, <1>3, <1>5, WroteRow

LEMMA RejectFacts ==
  ASSUME DupInv, NEW w \in Workers, NEW a \in Accounts, Reject(w, a)
  PROVE  /\ run[w].pc = "reject" /\ a \in run[w].todo
         /\ Stays(run[w], run'[w]) /\ run'[w].okNow = run[w].okNow
         /\ run'[w].todo = run[w].todo \ {a}
         /\ IF run[w].todo = {a} THEN run'[w].pc = "finalize" ELSE run'[w].pc = "reject"
         /\ SilentBut(run[w].at, a)
         /\ dest'[run[w].at][a].status = "failed" /\ dest'[run[w].at][a].ext = dest[run[w].at][a].ext
<1> DEFINE r == run[w]
           row == Failed(dest[r.at][a], FALSE)
<1>1. r \in Run /\ r.at \in Posts /\ dest \in [Posts -> [Accounts -> DestRow]]
  BY RunFacts
<1>2. /\ r.pc = "reject" /\ a \in r.todo /\ SetDest(w, r.at, a, row) /\ run' = [run EXCEPT ![w] = AfterReject(r, a)]
      /\ UNCHANGED <<post, gen, published, writes, counted, live, detached, faults>>
  BY DEF Reject, At, Become, worldVars
<1>3. row \in DestRow /\ row.status = "failed" /\ row.ext = dest[r.at][a].ext
  <2>1. dest[r.at][a] \in DestRow
    BY <1>1
  <2> QED
    BY <2>1, FailedFields
<1> HIDE DEF row
<1>4. run'[w] = AfterReject(r, a)
  BY <1>2, BecomeRun
<1>5. /\ Stays(r, run'[w]) /\ run'[w].okNow = r.okNow /\ run'[w].todo = r.todo \ {a}
      /\ IF r.todo = {a} THEN run'[w].pc = "finalize" ELSE run'[w].pc = "reject"
  BY <1>1, <1>2, <1>4, RejectFields
<1> QED
  BY <1>2, <1>3, <1>5, WroteRow

LEMMA PrepareFacts ==
  ASSUME DupInv, NEW w \in Workers, NEW a \in Accounts, Prepare(w, a)
  PROVE  /\ Taken(run[w], run'[w], a) /\ run'[w].pc = "record"
         /\ run'[w].reply = (run[w].at > 0 /\ dest[run[w].at - 1][a].ext)
         /\ ~SkipReply(run[w], a) /\ writes < WriteLimit /\ Silent
<1> DEFINE r == run[w]
           reply == r.at > 0 /\ dest[r.at - 1][a].ext
<1>1. r \in Run
  BY RunFacts
<1>2. /\ r.pc = "next" /\ a \in r.todo /\ ~SkipReply(r, a) /\ writes < WriteLimit /\ Silent
      /\ run' = [run EXCEPT ![w] = [Take(w, a, "record") EXCEPT !.reply = reply]]
  BY DEF Prepare, At, Become, WritesLeft, Silent, dbVars, worldVars
<1>5. reply \in BOOLEAN
  BY RunFacts, <1>2 DEF DestRow, Run, Posts
<1> HIDE DEF reply
<1>3. run'[w] = [Take(w, a, "record") EXCEPT !.reply = reply]
  BY <1>2, BecomeRun
<1>4. Taken(r, run'[w], a) /\ run'[w].pc = "record" /\ run'[w].reply = reply
  <2> DEFINE s == [Take(w, a, "record") EXCEPT !.reply = reply]
  <2>1. Taken(r, s, a) /\ s.pc = "record" /\ s.reply = reply
    BY <1>1, <1>2, <1>5, TakeReplyFields
  <2> HIDE DEF s
  <2> QED
    BY <1>3, <2>1 DEF s
<1> QED
  BY <1>2, <1>4 DEF reply

LEMMA PrepareErrorFacts ==
  ASSUME DupInv, NEW w \in Workers, NEW a \in Accounts, PrepareError(w, a)
  PROVE  Taken(run[w], run'[w], a) /\ run'[w].pc = "failed" /\ Silent
<1>1. run[w] \in Run
  BY RunFacts
<1>2. /\ run[w].pc = "next" /\ a \in run[w].todo /\ Silent /\ run' = [run EXCEPT ![w] = Take(w, a, "failed")]
  BY DEF PrepareError, At, Become, Silent, dbVars, worldVars
<1>3. run'[w] = Take(w, a, "failed")
  BY <1>2, BecomeRun
<1> QED
  BY <1>1, <1>2, <1>3, TakeFields

LEMMA SkipFacts ==
  ASSUME DupInv, NEW w \in Workers, NEW a \in Accounts, Skip(w, a)
  PROVE  /\ Taken(run[w], run'[w], a) /\ SkipReply(run[w], a) /\ Silent
         /\ run'[w].pc = IF InThread(run[w]) THEN "saved" ELSE "failed"
<1>1. run[w] \in Run
  BY RunFacts
<1> DEFINE pc == IF InThread(run[w]) THEN "saved" ELSE "failed"
<1>2. /\ run[w].pc = "next" /\ a \in run[w].todo /\ SkipReply(run[w], a) /\ Silent
      /\ run' = [run EXCEPT ![w] = Take(w, a, pc)]
  BY DEF Skip, At, Become, Silent, dbVars, worldVars
<1> HIDE DEF pc
<1>3. run'[w] = Take(w, a, pc)
  BY <1>2, BecomeRun
<1>4. Taken(run[w], run'[w], a) /\ run'[w].pc = pc
  BY <1>1, <1>2, <1>3, TakeFields
<1> QED
  BY <1>2, <1>4 DEF pc

LEMMA RecordFacts ==
  ASSUME DupInv, NEW w \in Workers, RecordWrite(w)
  PROVE  /\ run[w].pc = "record" /\ run'[w].pc = "call" /\ Pass(run[w], run'[w]) /\ writes' = writes + 1
         /\ UNCHANGED <<post, dest, gen, published, counted, live, detached, faults>>
  BY GotoFacts DEF RecordWrite, At, worldVars

\* The destination in hand appears at the platform.
Appears(r) ==
  /\ live' = [live EXCEPT ![r.at][r.acct] = live[r.at][r.acct] + 1]
  /\ detached' = IF r.at > 0 /\ ~r.reply THEN detached \cup {<<r.at, r.acct>>} ELSE detached
  /\ UNCHANGED <<post, dest, gen, published, writes, counted>>

LEMMA AppearFacts ==
  ASSUME DupInv, NEW w \in Workers, Accept(w) \/ LoseReply(w) \/ AcceptWithoutID(w)
  PROVE  /\ run[w].pc = "call" /\ Pass(run[w], run'[w]) /\ Appears(run[w])
         /\ \/ run'[w].pc = "save" /\ faults' = faults
            \/ run'[w].pc = "failed" /\ faults' = faults + 1
            \/ run'[w].pc = "saved" /\ faults' = faults + 1
<1>1. run[w].pc = "call" /\ Appears(run[w])
  BY RunFacts DEF Accept, LoseReply, AcceptWithoutID, Appear, Appears, At, dbVars
<1>2. CASE Accept(w)
  BY <1>1, <1>2, GotoFacts DEF Accept
<1>3. CASE LoseReply(w)
  BY <1>1, <1>3, GotoFacts DEF LoseReply, Fault
<1>4. CASE AcceptWithoutID(w)
  BY <1>1, <1>4, GotoFacts DEF AcceptWithoutID, Fault
<1> QED
  BY <1>2, <1>3, <1>4

LEMMA RefuseFacts ==
  ASSUME DupInv, NEW w \in Workers, Refuse(w)
  PROVE  run[w].pc = "call" /\ run'[w].pc = "failed" /\ Pass(run[w], run'[w]) /\ Silent
  BY GotoFacts DEF Refuse, At, Silent, dbVars, worldVars

LEMMA ExpiredFacts ==
  ASSUME DupInv, NEW w \in Workers, Expired(w)
  PROVE  run[w].pc = "call" /\ run'[w].pc = "record" /\ Pass(run[w], run'[w]) /\ writes < WriteLimit /\ Silent
  BY RunFacts DEF Expired, At, Become, WritesLeft, Pass, Stays, Silent, dbVars, worldVars, Run

LEMMA SaveFacts ==
  ASSUME DupInv, NEW w \in Workers, SaveExternalID(w)
  PROVE  /\ run[w].pc = "save" /\ run'[w].pc = "saved" /\ Pass(run[w], run'[w])
         /\ SilentBut(run[w].at, run[w].acct)
         /\ dest'[run[w].at][run[w].acct].ext
         /\ dest'[run[w].at][run[w].acct].status = dest[run[w].at][run[w].acct].status
<1> DEFINE r == run[w]
           row == [dest[r.at][r.acct] EXCEPT !.ext = TRUE]
<1>1. r \in Run /\ r.at \in Posts /\ dest \in [Posts -> [Accounts -> DestRow]] /\ Fresh(r)
  BY RunFacts
<1>2. /\ r.pc = "save" /\ SetDest(w, r.at, r.acct, row) /\ Goto(w, "saved")
      /\ UNCHANGED <<post, gen, published, writes, counted, live, detached, faults>>
  BY DEF SaveExternalID, At, worldVars
<1>3. r.acct \in Accounts
  BY <1>1, <1>2 DEF Fresh, InHand
<1>4. row \in DestRow /\ row.ext /\ row.status = dest[r.at][r.acct].status
  BY <1>1, <1>3, ExtRow, ExtFields
<1> HIDE DEF row
<1> QED
  BY <1>2, <1>3, <1>4, WroteRow, GotoFacts

LEMMA MarkSuccessFacts ==
  ASSUME DupInv, NEW w \in Workers, MarkSuccess(w)
  PROVE  /\ run[w].pc = "saved" /\ run'[w].pc = "next" /\ Stays(run[w], run'[w])
         /\ run'[w].todo = run[w].todo
         /\ run'[w].okNow = run[w].okNow \cup {run[w].acct}
         /\ SilentBut(run[w].at, run[w].acct)
         /\ dest'[run[w].at][run[w].acct].status = "success"
         /\ dest'[run[w].at][run[w].acct].ext = dest[run[w].at][run[w].acct].ext
<1> DEFINE r == run[w]
           row == Succeeded(dest[r.at][r.acct], SkipReply(r, r.acct))
<1>1. r \in Run /\ r.at \in Posts /\ dest \in [Posts -> [Accounts -> DestRow]] /\ Fresh(r)
  BY RunFacts
<1>2. /\ r.pc = "saved" /\ SetDest(w, r.at, r.acct, row) /\ run' = [run EXCEPT ![w] = AfterSuccess(r)]
      /\ UNCHANGED <<post, gen, published, writes, counted, live, detached, faults>>
  BY DEF MarkSuccess, At, Become, worldVars
<1>3. r.acct \in Accounts /\ SkipReply(r, r.acct) \in BOOLEAN
  BY <1>1, <1>2 DEF Fresh, InHand, SkipReply
<1>4. row \in DestRow /\ row.status = "success"
  BY <1>1, <1>3, SucceededRow
<1>5. row.ext = dest[r.at][r.acct].ext
  BY <1>1, <1>3, ExtFields
<1> HIDE DEF row
<1>6. run'[w] = AfterSuccess(r)
  BY <1>2, BecomeRun
<1>7. /\ run'[w].pc = "next" /\ Stays(r, run'[w]) /\ run'[w].todo = r.todo
      /\ run'[w].okNow = r.okNow \cup {r.acct}
  BY <1>1, <1>6, HandFields
<1> QED
  BY <1>2, <1>3, <1>4, <1>5, <1>7, WroteRow

LEMMA MarkFailedFacts ==
  ASSUME DupInv, NEW w \in Workers, MarkFailed(w)
  PROVE  /\ run[w].pc = "failed" /\ run'[w].pc = "next" /\ Stays(run[w], run'[w])
         /\ run'[w].todo = run[w].todo /\ run'[w].okNow = run[w].okNow
         /\ SilentBut(run[w].at, run[w].acct)
         /\ dest'[run[w].at][run[w].acct].status = "failed"
         /\ dest'[run[w].at][run[w].acct].ext = dest[run[w].at][run[w].acct].ext
<1> DEFINE r == run[w]
           row == Failed(dest[r.at][r.acct], FALSE)
<1>1. r \in Run /\ r.at \in Posts /\ dest \in [Posts -> [Accounts -> DestRow]] /\ Fresh(r)
  BY RunFacts
<1>2. /\ r.pc = "failed" /\ SetDest(w, r.at, r.acct, row) /\ run' = [run EXCEPT ![w] = AfterFailure(r)]
      /\ UNCHANGED <<post, gen, published, writes, counted, live, detached, faults>>
  BY DEF MarkFailed, At, Become, worldVars
<1>3. r.acct \in Accounts
  BY <1>1, <1>2 DEF Fresh, InHand
<1>4. row \in DestRow /\ row.status = "failed" /\ row.ext = dest[r.at][r.acct].ext
  <2>1. dest[r.at][r.acct] \in DestRow
    BY <1>1, <1>3
  <2> QED
    BY <2>1, FailedFields
<1> HIDE DEF row
<1>6. run'[w] = AfterFailure(r)
  BY <1>2, BecomeRun
<1>7. /\ run'[w].pc = "next" /\ Stays(r, run'[w]) /\ run'[w].todo = r.todo
      /\ run'[w].okNow = r.okNow
  BY <1>1, <1>6, HandFields
<1> QED
  BY <1>2, <1>3, <1>4, <1>7, WroteRow

LEMMA CountDestsFacts ==
  ASSUME DupInv, NEW w \in Workers, CountDests(w)
  PROVE  /\ run[w].pc = "finalize" /\ run'[w].pc = "conclude"
         /\ run'[w].at = run[w].at /\ run'[w].last = run[w].last /\ run'[w].ok = run[w].okNow
         /\ run'[w].okNow = run[w].okNow /\ run'[w].verdict = Verdict(run[w].at) /\ Silent
<1> DEFINE r == run[w]
           v == Verdict(r.at)
           o == r.okNow
           s == [r EXCEPT !.pc = "conclude", !.verdict = v, !.ok = o]
<1>1. r \in Run
  BY RunFacts
<1>2. r.pc = "finalize" /\ run' = [run EXCEPT ![w] = s] /\ Silent
  BY DEF CountDests, At, Become, Silent, dbVars, worldVars
<1> HIDE DEF v, o
<1>3. run'[w] = s
  BY <1>2, BecomeRun
<1>4. s.pc = "conclude" /\ s.at = r.at /\ s.last = r.last /\ s.ok = o /\ s.okNow = r.okNow /\ s.verdict = v
  BY <1>1 DEF Run
<1> QED
  BY <1>2, <1>3, <1>4 DEF v, o

\* The run turns to the next post or returns.
Turns(r, s) ==
  \/ /\ s.pc = "dests" /\ r.at < r.last /\ s.at = r.at + 1 /\ s.last = r.last
     /\ s.ok = r.ok /\ s.okNow = {} /\ s.todo = {}
  \/ s.pc = "return" /\ ~(r.at < r.last) /\ Stays(r, s) /\ s.okNow = r.okNow /\ s.todo = r.todo

LEMMA TurnFacts ==
  ASSUME NEW r \in Run
  PROVE  Turns(r, NextPost(r))
<1>1. NextPost(r).pc = "return" => NextPost(r).okNow = r.okNow
  BY DEF NextPost, Run
<1>2. ASSUME r.at < r.last PROVE NextPost(r).pc = "dests"
  BY <1>2 DEF NextPost, Run
<1> QED
  BY <1>1, <1>2, NextPostRun DEF Turns, Stays

LEMMA ConcludeFacts ==
  ASSUME DupInv, NEW w \in Workers, Conclude(w)
  PROVE  /\ run[w].pc = "conclude"
         /\ SetPost(run[w].at, IF run[w].verdict = "failed" THEN "failed" ELSE "published")
         /\ \/ run[w].verdict = "published" /\ run'[w].pc = "count" /\ Stays(run[w], run'[w])
               /\ run'[w].okNow = run[w].okNow /\ run'[w].todo = run[w].todo
            \/ run[w].verdict # "published" /\ Turns(run[w], run'[w])
         /\ UNCHANGED <<dest, gen, published, writes, counted, live, detached, faults>>
<1> DEFINE r == run[w]
<1>1. r \in Run
  BY RunFacts
<1>2. /\ r.pc = "conclude" /\ SetPost(r.at, IF r.verdict = "failed" THEN "failed" ELSE "published")
      /\ run' = [run EXCEPT ![w] = IF r.verdict = "published" THEN [r EXCEPT !.pc = "count"] ELSE NextPost(r)]
      /\ UNCHANGED <<dest, gen, published, writes, counted, live, detached, faults>>
  BY DEF Conclude, At, Become, worldVars
<1>3. CASE r.verdict = "published"
  <2>1. run'[w] = [r EXCEPT !.pc = "count"]
    BY <1>2, <1>3, BecomeRun
  <2>2. [r EXCEPT !.pc = "count"].pc = "count" /\ Pass(r, [r EXCEPT !.pc = "count"])
    BY <1>1, PcFields
  <2> QED
    BY <1>2, <1>3, <2>1, <2>2 DEF Pass
<1>4. CASE r.verdict # "published"
  <2>1. run'[w] = NextPost(r)
    BY <1>2, <1>4, BecomeRun
  <2> QED
    BY <1>1, <1>2, <1>4, <2>1, TurnFacts
<1> QED
  BY <1>3, <1>4

LEMMA CountPublishedFacts ==
  ASSUME DupInv, NEW w \in Workers, CountPublished(w)
  PROVE  /\ run[w].pc = "count" /\ Turns(run[w], run'[w])
         /\ published' = published + 1 /\ counted' = [counted EXCEPT ![run[w].at] = counted[run[w].at] + 1]
         /\ UNCHANGED <<post, dest, gen, writes, live, detached, faults>>
<1> DEFINE r == run[w]
<1>1. r \in Run
  BY RunFacts
<1>2. /\ r.pc = "count" /\ run' = [run EXCEPT ![w] = NextPost(r)]
      /\ published' = published + 1 /\ counted' = [counted EXCEPT ![r.at] = counted[r.at] + 1]
      /\ UNCHANGED <<post, dest, gen, writes, live, detached, faults>>
  BY DEF CountPublished, At, Become, worldVars
<1>3. run'[w] = NextPost(r)
  BY <1>2, BecomeRun
<1> QED
  BY <1>1, <1>2, <1>3, TurnFacts

LEMMA EnvironmentFacts ==
  ASSUME DupInv, NEW w \in Workers, Begin(w, 0) \/ End(w) \/ Dies(w)
  PROVE  /\ run'[w].pc \in {"idle", "load"} /\ run'[w].at = 0 /\ run'[w].okNow = {} /\ run'[w].todo = {}
         /\ UNCHANGED <<post, dest, gen, published, writes, counted, live, detached>>
         /\ \/ run[w].pc \in {"idle", "return"} /\ faults' = faults
            \/ faults' = faults + 1
<1>1. PICK s \in {Idle, [Idle EXCEPT !.pc = "load", !.at = 0]} :
        /\ run' = [run EXCEPT ![w] = s]
        /\ UNCHANGED <<post, dest, gen, published, writes, counted, live, detached>>
        /\ \/ run[w].pc \in {"idle", "return"} /\ faults' = faults
           \/ faults' = faults + 1
  BY DEF Begin, End, Dies, At, Become, dbVars, worldVars
<1>2. run'[w] = s
  BY <1>1, BecomeRun
<1>3. s.pc \in {"idle", "load"} /\ s.at = 0 /\ s.okNow = {} /\ s.todo = {}
  <2>1. CASE s = Idle
    BY <2>1 DEF Idle
  <2>2. CASE s = [Idle EXCEPT !.pc = "load", !.at = 0]
    BY <2>2 DEF Idle
  <2> QED
    BY <1>1, <2>1, <2>2
<1> QED
  BY <1>1, <1>2, <1>3

-----------------------------------------------------------------------------
(* The invariant of the thread.                                            *)

\* The post is where it belongs: at the account, or skipped on purpose.
Skips(p, a) == p > 0 /\ a \in SkipsReplies
Reached(p, a) == live[p][a] > 0 \/ Skips(p, a)

\* A post is in hand between the choice of its destinations and its count.
Choosing(r) == r.pc \in {"block", "quota", "reject", "next"}
Handling(r) == Choosing(r) \/ InHand(r)

\* Where a run is in its thread.
PlaceInv(r) ==
  /\ r.at > 0 => r.last > 0
  /\ r.pc \in {"idle", "load", "mark"} => r.at = 0
  /\ r.pc = "conclude" => r.verdict = "failed" \/ (\A a \in Accounts : dest[r.at][a].status = "success")
  /\ r.pc = "count" => \A a \in Accounts : dest[r.at][a].status = "success"
  /\ r.pc = "finalize" => \A a \in Accounts : dest[r.at][a].status # "pending"
  /\ Handling(r) => \A a \in Accounts :
        dest[r.at][a].status = "pending" => a \in r.todo \/ (InHand(r) /\ a = r.acct)

\* What this run published of the post in hand and of the one before.
OkInv(r) ==
  /\ \A a \in Accounts : a \in r.okNow => Reached(r.at, a) /\ dest[r.at][a].status = "success"
  /\ r.pc \in {"conclude", "count"} =>
       \A a \in Accounts : a \in r.ok => Reached(r.at, a) /\ dest[r.at][a].status = "success"
  /\ r.at > 0 /\ (Handling(r) \/ r.pc \in {"dests", "finalize"}) =>
       \A a \in Accounts : a \in r.ok => Reached(r.at - 1, a) /\ dest[r.at - 1][a].status = "success"

HandInv(r) ==
  /\ r.at > 0 /\ r.pc # "block" /\ Handling(r) => r.todo \subseteq r.ok
  /\ r.at > 0 /\ InHand(r) => r.acct \in r.ok
  /\ r.at > 0 /\ r.pc \in {"record", "call", "save"} => r.acct \notin SkipsReplies
  /\ r.at > 0 /\ r.pc \in {"record", "call"} => r.reply = dest[r.at - 1][r.acct].ext
  /\ r.pc \in {"save", "saved"} => Reached(r.at, r.acct)

ThreadRun(r) == PlaceInv(r) /\ OkInv(r) /\ HandInv(r)

\* Publications whose id never reached the table.
Lost == {x \in Posts \X Accounts :
           /\ ~Skips(x[1], x[2])
           /\ ~dest[x[1]][x[2]].ext
           /\ \/ dest[x[1]][x[2]].status = "success"
              \/ \E w \in Workers : run[w].pc = "saved" /\ run[w].at = x[1] /\ run[w].acct = x[2]}

DetachedInv == \A x \in detached : x[1] > 0 /\ dest[x[1] - 1][x[2]].status = "success" /\ <<x[1] - 1, x[2]>> \in Lost

LostInv == IsFiniteSet(Lost) /\ Cardinality(Lost) <= faults

RowsInv ==
  \A p \in Posts, a \in Accounts :
    /\ dest[p][a].status # "none"
    /\ dest[p][a].status = "success" => Reached(p, a)
    /\ post[p] = "published" \/ counted[p] > 0 => dest[p][a].status = "success"

WriteInv ==
  /\ IsFiniteSet(Publications)
  /\ Cardinality(Publications) <= writes
  /\ writes <= WriteLimit
  /\ \A w \in Workers :
       /\ run[w].pc = "record" => writes < WriteLimit
       /\ run[w].pc = "call" => Cardinality(Publications) < writes

ThreadInv ==
  /\ \A w \in Workers : ThreadRun(run[w])
  /\ RowsInv
  /\ ThreadOrder
  /\ DetachedInv
  /\ LostInv
  /\ WriteInv

\* Successes and publications stay.
Grows ==
  \A p \in Posts, a \in Accounts :
    /\ dest[p][a].status = "success" => dest'[p][a].status = "success"
    /\ live[p][a] > 0 => live'[p][a] > 0

LEMMA PostBefore ==
  ASSUME NEW p \in Posts
  PROVE  p \in Nat /\ (p > 0 => p - 1 \in Posts) /\ (p < ThreadLen - 1 => p + 1 \in Posts)
  BY PublisherAssumption DEF Posts

Closing(r) == r.pc \in {"conclude", "count"}
Within(r) == Handling(r) \/ r.pc \in {"dests", "finalize"}

\* A post is reached, and its row says so.
Done(p, a) == Reached(p, a) /\ dest[p][a].status = "success"

LEMMA OkKept ==
  ASSUME DupInv, NEW w \in Workers, OkInv(run[w]), Grows,
         Stays(run[w], run'[w]), run'[w].okNow \subseteq run[w].okNow,
         Closing(run'[w]) => Closing(run[w]), Within(run'[w]) => Within(run[w])
  PROVE  OkInv(run[w])'
<1> DEFINE r == run[w]
           s == run'[w]
           ReachedNow(p, a) == live'[p][a] > 0 \/ Skips(p, a)
           DoneNow(p, a) == ReachedNow(p, a) /\ dest'[p][a].status = "success"
<1>1. r.at \in Posts /\ Posts \subseteq Nat
  BY RunFacts DEF Posts
<1>2. s.at = r.at /\ s.ok = r.ok /\ s.last = r.last
  BY DEF Stays
<1>3. \A p \in Posts, a \in Accounts : Reached(p, a) /\ dest[p][a].status = "success" => DoneNow(p, a)
  BY DEF Reached, Skips, Grows
<1>4. r.at > 0 => r.at - 1 \in Posts
  BY <1>1, PostBefore
<1>5. /\ \A a \in Accounts : a \in r.okNow => Reached(r.at, a) /\ dest[r.at][a].status = "success"
      /\ Closing(r) => \A a \in Accounts : a \in r.ok => Reached(r.at, a) /\ dest[r.at][a].status = "success"
      /\ r.at > 0 /\ Within(r) =>
           \A a \in Accounts : a \in r.ok => Reached(r.at - 1, a) /\ dest[r.at - 1][a].status = "success"
  BY DEF OkInv, Closing, Within
<1> HIDE DEF r, s, DoneNow
<1>6. \A a \in Accounts : a \in s.okNow => DoneNow(r.at, a)
  BY <1>1, <1>3, <1>5 DEF r, s
<1>7. Closing(s) => \A a \in Accounts : a \in s.ok => DoneNow(r.at, a)
  BY <1>1, <1>2, <1>3, <1>5 DEF r, s
<1>8. r.at > 0 /\ Within(s) => \A a \in Accounts : a \in s.ok => DoneNow(r.at - 1, a)
  BY <1>1, <1>2, <1>3, <1>4, <1>5 DEF r, s
<1> QED
  BY <1>2, <1>6, <1>7, <1>8 DEF OkInv, Closing, Within, Handling, Choosing, InHand, DoneNow, r, s, Reached

\* One step of a run, with at most a fault of the platform or a crash.
RunStepped(w) ==
  \/ Step(w) \/ LoseReply(w) \/ AcceptWithoutID(w)
  \/ Begin(w, 0) \/ End(w) \/ Dies(w)

\* The steps that write a row, and those that do not.
LEMMA RowGrows ==
  ASSUME DupInv, NEW p \in Posts, NEW a \in Accounts, SilentBut(p, a),
         dest[p][a].status = "success" => dest'[p][a].status = "success"
  PROVE  Grows
  BY DEF Grows, SilentBut

LEMMA SilentGrows == ASSUME UNCHANGED <<dest, live>> PROVE Grows
  BY DEF Grows

LEMMA AppearsGrows ==
  ASSUME DupInv, NEW r \in Run, Appears(r), r.acct \in Accounts
  PROVE  /\ Grows /\ live'[r.at][r.acct] = live[r.at][r.acct] + 1
         /\ \A p \in Posts, a \in Accounts : p # r.at \/ a # r.acct => live'[p][a] = live[p][a]
<1>1. live \in [Posts -> [Accounts -> Nat]] /\ r.at \in Posts /\ dest' = dest
  BY DEF DupInv, PublisherTypeOK, Run, Appears
<1> DEFINE p == r.at
           a == r.acct
           n == live[p][a] + 1
<1>2. live' = [live EXCEPT ![p][a] = n]
  BY DEF Appears
<1>3. n \in Nat /\ n > 0
  BY <1>1
<1> HIDE DEF n, p, a
<1>4. live'[p][a] = n
  BY <1>1, <1>2 DEF p, a
<1>5. \A q \in Posts, b \in Accounts : q # p \/ b # a => live'[q][b] = live[q][b]
  BY <1>1, <1>2 DEF p, a
<1>6. Grows
  BY <1>1, <1>3, <1>4, <1>5 DEF Grows
<1> QED
  BY <1>4, <1>5, <1>6 DEF n, p, a

LEMMA StepGrows ==
  ASSUME DupInv, NEW w \in Workers, RunStepped(w)
  PROVE  Grows
<1> DEFINE r == run[w]
<1>0. r \in Run /\ Fresh(r) /\ r.at \in Posts /\ r.todo \subseteq Accounts
  BY RunFacts
<1>1. CASE Load(w) \/ MarkPublishing(w) \/ LoadDests(w) \/ CheckPublishedQuota(w) \/ EndDests(w)
  BY <1>1, SilentGrows, LoadFacts, MarkFacts, LoadDestsFacts, QuotaFacts, EndDestsFacts DEF Silent
<1>2. CASE RecordWrite(w) \/ Refuse(w) \/ Expired(w)
  BY <1>2, SilentGrows, RecordFacts, RefuseFacts, ExpiredFacts DEF Silent
<1>3. CASE Accept(w) \/ LoseReply(w) \/ AcceptWithoutID(w)
  <2>1. r.acct \in Accounts /\ Appears(r)
    BY <1>0, <1>3, AppearFacts DEF Fresh, InHand
  <2> QED
    BY <1>0, <2>1, AppearsGrows
<1>4. CASE SaveExternalID(w)
  <2>1. r.acct \in Accounts
    BY <1>0, <1>4, SaveFacts DEF Fresh, InHand
  <2> QED
    BY <1>0, <1>4, <2>1, SaveFacts, RowGrows
<1>5. CASE MarkSuccess(w)
  <2>1. r.acct \in Accounts
    BY <1>0, <1>5, MarkSuccessFacts DEF Fresh, InHand
  <2> QED
    BY <1>0, <1>5, <2>1, MarkSuccessFacts, RowGrows
<1>6. CASE MarkFailed(w)
  <2>1. r.acct \in Accounts /\ dest[r.at][r.acct].status # "success"
    BY <1>0, <1>6, MarkFailedFacts DEF Fresh, InHand
  <2> QED
    BY <1>0, <1>6, <2>1, MarkFailedFacts, RowGrows
<1>7. CASE CountDests(w) \/ Conclude(w) \/ CountPublished(w)
  BY <1>7, SilentGrows, CountDestsFacts, ConcludeFacts, CountPublishedFacts DEF Silent
<1>8. CASE Begin(w, 0) \/ End(w) \/ Dies(w)
  BY <1>8, SilentGrows, EnvironmentFacts
<1>9. ASSUME NEW a \in Accounts, Block(w, a) PROVE Grows
  <2>1. dest[r.at][a].status # "success"
    BY <1>0, <1>9, BlockFacts DEF Fresh, Blocked
  <2> QED
    BY <1>0, <1>9, <2>1, BlockFacts, RowGrows
<1>10. ASSUME NEW a \in Accounts, Reject(w, a) PROVE Grows
  <2>1. dest[r.at][a].status # "success"
    BY <1>0, <1>10, RejectFacts DEF Fresh
  <2> QED
    BY <1>0, <1>10, <2>1, RejectFacts, RowGrows
<1>11. ASSUME NEW a \in Accounts, Prepare(w, a) \/ PrepareError(w, a) \/ Skip(w, a) PROVE Grows
  BY <1>11, SilentGrows, PrepareFacts, PrepareErrorFacts, SkipFacts DEF Silent
<1> QED
  BY <1>1, <1>2, <1>3, <1>4, <1>5, <1>6, <1>7, <1>8, <1>9, <1>10, <1>11 DEF RunStepped, Step

LEMMA RunThread ==
  ASSUME OneWorker, DupInv, DupInv', ThreadInv, NEW w \in Workers, RunStepped(w)
  PROVE  ThreadRun(run[w])'
<1> DEFINE r == run[w]
           s == run'[w]
<1>0. /\ r \in Run /\ Fresh(r) /\ r.at \in Posts /\ r.last \in Posts /\ r.todo \subseteq Accounts
      /\ r.at \in Nat /\ r.last \in Nat
      /\ dest \in [Posts -> [Accounts -> DestRow]] /\ live \in [Posts -> [Accounts -> Nat]]
  BY RunFacts, PostBefore DEF DupInv, PublisherTypeOK
<1>a. PlaceInv(r) /\ OkInv(r) /\ HandInv(r) /\ RowsInv
  BY DEF ThreadInv, ThreadRun
<1>b. Grows
  BY StepGrows
<1>c. r.at > 0 => r.at - 1 \in Posts
  BY <1>0, PostBefore
<1> USE DEF Handling, Choosing, InHand, Closing, Within
<1>1. CASE Load(w)
  BY <1>0, <1>a, <1>1, LoadFacts DEF ThreadRun, PlaceInv, OkInv, HandInv, Stays, Silent, Reached
<1>2. CASE MarkPublishing(w)
  BY <1>0, <1>a, <1>2, MarkFacts DEF ThreadRun, PlaceInv, OkInv, HandInv, Reached
<1>3. CASE LoadDests(w)
  <2>1. PlaceInv(run[w])'
    <3>1. \A a \in Accounts : dest[r.at][a].status = "pending" => a \in s.todo
      BY <1>3, LoadDestsFacts DEF Open
    <3>2. s.pc = "finalize" => s.todo = {}
      BY <1>3, LoadDestsFacts
    <3> QED
      BY <1>0, <1>a, <1>3, <3>1, <3>2, LoadDestsFacts DEF PlaceInv, Stays, Silent
  <2>2. OkInv(run[w])'
    BY <1>a, <1>b, <1>3, LoadDestsFacts, OkKept
  <2>3. HandInv(run[w])'
    BY <1>0, <1>a, <1>3, LoadDestsFacts DEF HandInv, PlaceInv, Blocked, InThread, Stays
  <2> QED
    BY <2>1, <2>2, <2>3 DEF ThreadRun
<1>4. CASE CheckPublishedQuota(w)
  BY <1>0, <1>a, <1>4, QuotaFacts DEF ThreadRun, PlaceInv, OkInv, HandInv, Stays, Silent, Reached
<1>5. CASE EndDests(w)
  BY <1>0, <1>a, <1>5, EndDestsFacts DEF ThreadRun, PlaceInv, OkInv, HandInv, Pass, Stays, Silent, Reached
<1>6. CASE RecordWrite(w)
  BY <1>0, <1>a, <1>6, RecordFacts DEF ThreadRun, PlaceInv, OkInv, HandInv, Pass, Stays, Reached
<1>7. CASE Refuse(w)
  BY <1>0, <1>a, <1>7, RefuseFacts DEF ThreadRun, PlaceInv, OkInv, HandInv, Pass, Stays, Silent, Reached
<1>8. CASE Expired(w)
  BY <1>0, <1>a, <1>8, ExpiredFacts DEF ThreadRun, PlaceInv, OkInv, HandInv, Pass, Stays, Silent, Reached
<1>9. CASE Accept(w) \/ LoseReply(w) \/ AcceptWithoutID(w)
  <2>1. r.acct \in Accounts /\ Appears(r) /\ Pass(r, s) /\ r.pc = "call" /\ s.pc \in {"save", "failed", "saved"}
    BY <1>0, <1>9, AppearFacts DEF Fresh
  <2>2. PlaceInv(run[w])'
    BY <1>0, <1>a, <2>1 DEF PlaceInv, Pass, Stays, Appears
  <2>3. OkInv(run[w])'
    BY <1>a, <1>b, <2>1, OkKept DEF Pass
  <2>4. live'[s.at][s.acct] > 0
    BY <1>0, <2>1, AppearsGrows DEF Pass, Stays
  <2>5. HandInv(run[w])'
    BY <1>0, <1>a, <2>1, <2>4 DEF HandInv, Pass, Stays, Appears, Reached
  <2> QED
    BY <2>2, <2>3, <2>5 DEF ThreadRun
<1>10. CASE SaveExternalID(w)
  <2>1. /\ r.acct \in Accounts /\ Pass(r, s) /\ r.pc = "save" /\ s.pc = "saved"
        /\ \A p \in Posts, a \in Accounts : dest'[p][a].status = dest[p][a].status
        /\ live' = live
    BY <1>0, <1>10, SaveFacts DEF Fresh, SilentBut
  <2>2. PlaceInv(run[w])'
    <3>1. \A a \in Accounts : dest'[r.at][a].status = "pending" => a \in r.todo \/ a = r.acct
      BY <1>0, <1>a, <2>1 DEF PlaceInv
    <3> QED
      BY <1>0, <1>a, <2>1, <3>1 DEF PlaceInv, Pass, Stays
  <2>3. OkInv(run[w])'
    BY <1>a, <1>b, <2>1, OkKept DEF Pass
  <2>5. HandInv(run[w])'
    BY <1>0, <1>a, <2>1 DEF HandInv, Pass, Stays, Reached
  <2> QED
    BY <2>2, <2>3, <2>5 DEF ThreadRun
<1>11. CASE MarkSuccess(w)
  <2>1. /\ r.acct \in Accounts /\ r.pc = "saved" /\ s.pc = "next" /\ Stays(r, s) /\ s.todo = r.todo
        /\ s.okNow = r.okNow \cup {r.acct} /\ SilentBut(r.at, r.acct) /\ dest'[r.at][r.acct].status = "success"
    BY <1>0, <1>11, MarkSuccessFacts DEF Fresh
  <2>2. PlaceInv(run[w])'
    BY <1>0, <1>a, <2>1 DEF PlaceInv, Stays, SilentBut
  <2>3. \A a \in Accounts : a \in s.okNow => (live'[s.at][a] > 0 \/ Skips(s.at, a)) /\ dest'[s.at][a].status = "success"
    BY <1>0, <1>a, <1>b, <2>1 DEF OkInv, HandInv, Stays, SilentBut, Reached, Grows
  <2>4. s.at > 0 => \A a \in Accounts : a \in s.ok =>
          (live'[s.at - 1][a] > 0 \/ Skips(s.at - 1, a)) /\ dest'[s.at - 1][a].status = "success"
    BY <1>0, <1>a, <1>b, <1>c, <2>1 DEF OkInv, Stays, SilentBut, Reached, Grows
  <2>5. OkInv(run[w])'
    BY <2>1, <2>3, <2>4 DEF OkInv, Reached, Stays
  <2>6. HandInv(run[w])'
    BY <1>0, <1>a, <2>1 DEF HandInv, Stays
  <2> QED
    BY <2>2, <2>5, <2>6 DEF ThreadRun
<1>12. CASE MarkFailed(w)
  <2>1. /\ r.acct \in Accounts /\ r.pc = "failed" /\ s.pc = "next" /\ Stays(r, s) /\ s.todo = r.todo
        /\ s.okNow = r.okNow /\ SilentBut(r.at, r.acct) /\ dest'[r.at][r.acct].status = "failed"
    BY <1>0, <1>12, MarkFailedFacts DEF Fresh
  <2>2. PlaceInv(run[w])'
    BY <1>0, <1>a, <2>1 DEF PlaceInv, Stays, SilentBut
  <2>3. OkInv(run[w])'
    BY <1>a, <1>b, <2>1, OkKept
  <2>6. HandInv(run[w])'
    BY <1>0, <1>a, <2>1 DEF HandInv, Stays
  <2> QED
    BY <2>2, <2>3, <2>6 DEF ThreadRun
<1>13. CASE CountDests(w)
  <2>1. /\ r.pc = "finalize" /\ s.pc = "conclude" /\ s.at = r.at /\ s.last = r.last /\ s.ok = r.okNow
        /\ s.okNow = r.okNow /\ s.verdict = Verdict(r.at) /\ UNCHANGED <<dest, live>>
    BY <1>13, CountDestsFacts DEF Silent
  <2>2. s.verdict = "failed" \/ \A a \in Accounts : dest[r.at][a].status = "success"
    <3>1. \A a \in Accounts : dest[r.at][a].status \notin {"none", "pending"}
      BY <1>0, <1>a, <2>1 DEF RowsInv, PlaceInv
    <3>2. CASE \E a \in Accounts : dest[r.at][a].status = "failed"
      BY <2>1, <3>2, <3>1 DEF Verdict, Rows
    <3>3. CASE \A a \in Accounts : dest[r.at][a].status # "failed"
      BY <1>0, <3>1, <3>3 DEF DestRow
    <3> QED
      BY <3>2, <3>3
  <2>3. PlaceInv(run[w])'
    BY <1>0, <1>a, <2>1, <2>2 DEF PlaceInv
  <2>4. OkInv(run[w])'
    BY <1>0, <1>a, <2>1 DEF OkInv, Reached
  <2>5. HandInv(run[w])'
    BY <1>0, <1>a, <2>1 DEF HandInv
  <2> QED
    BY <2>3, <2>4, <2>5 DEF ThreadRun
<1>14. ASSUME Turns(r, s), Closing(r), UNCHANGED <<dest, live>> PROVE ThreadRun(run[w])'
  <2>1. CASE s.pc = "return"
    <3>1. Stays(r, s) /\ s.okNow = r.okNow
      BY <1>14, <2>1 DEF Turns
    <3>2. PlaceInv(run[w])'
      BY <1>0, <1>a, <2>1, <3>1 DEF PlaceInv, Stays
    <3>3. OkInv(run[w])'
      BY <1>a, <1>b, <2>1, <3>1, OkKept
    <3>4. HandInv(run[w])'
      BY <2>1 DEF HandInv
    <3> QED
      BY <3>2, <3>3, <3>4 DEF ThreadRun
  <2>2. CASE s.pc = "dests"
    <3>0. r.at < r.last /\ s.at = r.at + 1 /\ s.last = r.last /\ s.ok = r.ok /\ s.okNow = {}
      BY <1>14, <2>2 DEF Turns
    <3>1. /\ r.at < r.last /\ s.at = r.at + 1 /\ s.last = r.last /\ s.ok = r.ok /\ s.okNow = {}
          /\ s.at - 1 = r.at
      BY <1>0, <3>0
    <3>2. PlaceInv(run[w])'
      BY <1>0, <1>a, <2>2, <3>1 DEF PlaceInv
    <3>3. \A a \in Accounts : a \in r.ok => (live'[r.at][a] > 0 \/ Skips(r.at, a)) /\ dest'[r.at][a].status = "success"
      BY <1>a, <1>14 DEF OkInv, Reached
    <3>4. OkInv(run[w])'
      BY <2>2, <3>1, <3>3 DEF OkInv, Reached
    <3>5. HandInv(run[w])'
      BY <2>2 DEF HandInv
    <3> QED
      BY <3>2, <3>4, <3>5 DEF ThreadRun
  <2> QED
    BY <1>14, <2>1, <2>2 DEF Turns
<1>15. CASE Conclude(w)
  <2>1. /\ r.pc = "conclude" /\ UNCHANGED <<dest, live>>
        /\ \/ r.verdict = "published" /\ s.pc = "count" /\ Stays(r, s) /\ s.okNow = r.okNow
           \/ Turns(r, s)
    BY <1>15, ConcludeFacts
  <2>2. CASE r.verdict = "published" /\ s.pc = "count" /\ Stays(r, s) /\ s.okNow = r.okNow
    <3>1. PlaceInv(run[w])'
      BY <1>0, <1>a, <2>1, <2>2 DEF PlaceInv, Stays
    <3>2. OkInv(run[w])'
      BY <1>a, <1>b, <2>1, <2>2, OkKept
    <3>3. HandInv(run[w])'
      BY <2>2 DEF HandInv
    <3> QED
      BY <3>1, <3>2, <3>3 DEF ThreadRun
  <2> QED
    BY <2>1, <2>2, <1>14
<1>16. CASE CountPublished(w)
  BY <1>14, <1>16, CountPublishedFacts
<1>17. CASE Begin(w, 0) \/ End(w) \/ Dies(w)
  BY <1>0, <1>17, EnvironmentFacts DEF ThreadRun, PlaceInv, OkInv, HandInv
<1>18. ASSUME NEW a \in Accounts, Block(w, a) PROVE ThreadRun(run[w])'
  <2>1. /\ r.pc = "block" /\ a \in Blocked(r) /\ Stays(r, s) /\ s.okNow = r.okNow /\ s.todo = r.todo \ {a}
        /\ (IF Blocked(r) = {a} THEN s.pc = "quota" ELSE s.pc = "block")
        /\ SilentBut(r.at, a) /\ dest'[r.at][a].status = "failed"
    BY <1>18, BlockFacts
  <2>2. PlaceInv(run[w])'
    BY <1>0, <1>a, <2>1 DEF PlaceInv, Stays, SilentBut
  <2>3. OkInv(run[w])'
    BY <1>a, <1>b, <2>1, OkKept
  <2>4. HandInv(run[w])'
    BY <1>0, <1>a, <2>1 DEF HandInv, Stays, Blocked
  <2> QED
    BY <2>2, <2>3, <2>4 DEF ThreadRun
<1>19. ASSUME NEW a \in Accounts, Reject(w, a) PROVE ThreadRun(run[w])'
  <2>1. /\ r.pc = "reject" /\ a \in r.todo /\ Stays(r, s) /\ s.okNow = r.okNow /\ s.todo = r.todo \ {a}
        /\ (IF r.todo = {a} THEN s.pc = "finalize" ELSE s.pc = "reject")
        /\ SilentBut(r.at, a) /\ dest'[r.at][a].status = "failed"
    BY <1>19, RejectFacts
  <2>2. PlaceInv(run[w])'
    <3>1. \A b \in Accounts : dest'[r.at][b].status = "pending" => b \in s.todo
      BY <1>0, <1>a, <2>1 DEF PlaceInv, SilentBut
    <3>2. s.pc = "finalize" => s.todo = {}
      BY <2>1
    <3>3. s.pc \in {"finalize", "reject"} /\ s.at = r.at /\ s.last = r.last
      BY <2>1 DEF Stays
    <3> QED
      BY <1>0, <1>a, <3>1, <3>2, <3>3 DEF PlaceInv
  <2>3. OkInv(run[w])'
    BY <1>a, <1>b, <2>1, OkKept
  <2>4. HandInv(run[w])'
    BY <1>0, <1>a, <2>1 DEF HandInv, Stays
  <2> QED
    BY <2>2, <2>3, <2>4 DEF ThreadRun
<1>20. ASSUME NEW a \in Accounts, Prepare(w, a) \/ PrepareError(w, a) \/ Skip(w, a) PROVE ThreadRun(run[w])'
  <2>1. /\ Taken(r, s, a) /\ UNCHANGED <<dest, live>>
        /\ \/ s.pc = "record" /\ s.reply = (r.at > 0 /\ dest[r.at - 1][a].ext) /\ ~SkipReply(r, a)
           \/ s.pc = "failed"
           \/ s.pc = "saved" /\ SkipReply(r, a)
    BY <1>20, PrepareFacts, PrepareErrorFacts, SkipFacts DEF Silent
  <2>2. r.pc = "next" /\ a \in r.todo /\ Stays(r, s) /\ s.okNow = r.okNow /\ s.acct = a /\ s.todo = r.todo \ {a}
    BY <2>1 DEF Taken
  <2>3. PlaceInv(run[w])'
    BY <1>0, <1>a, <2>1, <2>2 DEF PlaceInv, Stays
  <2>4. OkInv(run[w])'
    BY <1>a, <1>b, <2>1, <2>2, OkKept
  <2>5. r.at > 0 /\ s.pc = "record" => s.reply = dest[r.at - 1][a].ext
    <3> SUFFICES ASSUME r.at > 0, s.pc = "record" PROVE s.reply = dest[r.at - 1][a].ext
      OBVIOUS
    <3>1. dest[r.at - 1][a].ext \in BOOLEAN
      BY <1>0, <1>c DEF DestRow
    <3>2. s.reply = (r.at > 0 /\ dest[r.at - 1][a].ext)
      BY <2>1
    <3> QED
      BY <3>1, <3>2
  <2>6. s.pc \in {"record", "failed", "saved"} /\ (s.pc = "record" => ~SkipReply(r, a)) /\ (s.pc = "saved" => SkipReply(r, a))
    BY <2>1
  <2>7. r.at > 0 => r.todo \subseteq r.ok
    BY <1>a, <2>2 DEF HandInv
  <2>8. HandInv(run[w])'
    BY <1>0, <2>1, <2>2, <2>5, <2>6, <2>7 DEF HandInv, Stays, SkipReply, Reached, Skips
  <2> QED
    BY <2>3, <2>4, <2>8 DEF ThreadRun
<1> QED
  BY <1>1, <1>2, <1>3, <1>4, <1>5, <1>6, <1>7, <1>8, <1>9, <1>10, <1>11, <1>12, <1>13, <1>15, <1>16, <1>17, <1>18, <1>19, <1>20 DEF Step, RunStepped

-----------------------------------------------------------------------------
(* The tables and the platforms.                                           *)

\* A destination that has not succeeded is written.
Writes(w, a) ==
  LET p == run[w].at IN
  /\ SilentBut(p, a)
  /\ dest[p][a].status # "success"
  /\ \/ dest'[p][a].status = "failed"
     \/ /\ run[w].pc = "saved" /\ a = run[w].acct /\ run'[w].pc = "next"
        /\ dest'[p][a].status = "success" /\ dest'[p][a].ext = dest[p][a].ext
     \/ /\ run[w].pc = "save" /\ a = run[w].acct /\ run'[w].pc = "saved"
        /\ run'[w].at = p /\ run'[w].acct = a
        /\ dest'[p][a].status = dest[p][a].status /\ dest'[p][a].ext

LEMMA StepWrites ==
  ASSUME DupInv, NEW w \in Workers, RunStepped(w)
  PROVE  UNCHANGED dest \/ \E a \in Accounts : Writes(w, a) /\ (run'[w].pc = "saved" => run[w].pc = "save")
<1> DEFINE r == run[w]
<1>0. r \in Run /\ Fresh(r) /\ r.at \in Posts /\ r.todo \subseteq Accounts
  BY RunFacts
<1>1. CASE Load(w) \/ MarkPublishing(w) \/ LoadDests(w) \/ CheckPublishedQuota(w) \/ EndDests(w)
  BY <1>1, LoadFacts, MarkFacts, LoadDestsFacts, QuotaFacts, EndDestsFacts DEF Silent
<1>2. CASE RecordWrite(w) \/ Refuse(w) \/ Expired(w)
  BY <1>2, RecordFacts, RefuseFacts, ExpiredFacts DEF Silent
<1>3. CASE Accept(w) \/ LoseReply(w) \/ AcceptWithoutID(w)
  BY <1>3, AppearFacts DEF Appears
<1>4. CASE SaveExternalID(w)
  <2>1. r.acct \in Accounts /\ dest[r.at][r.acct].status # "success"
    BY <1>0, <1>4, SaveFacts DEF Fresh, InHand
  <2>2. Writes(w, r.acct) /\ r.pc = "save"
    BY <1>4, <2>1, SaveFacts DEF Writes, Pass, Stays
  <2> QED
    BY <2>1, <2>2
<1>5. CASE MarkSuccess(w)
  <2>1. r.acct \in Accounts /\ dest[r.at][r.acct].status # "success"
    BY <1>0, <1>5, MarkSuccessFacts DEF Fresh, InHand
  <2>2. Writes(w, r.acct) /\ run'[w].pc = "next"
    BY <1>5, <2>1, MarkSuccessFacts DEF Writes
  <2> QED
    BY <2>1, <2>2
<1>6. CASE MarkFailed(w)
  <2>1. r.acct \in Accounts /\ dest[r.at][r.acct].status # "success"
    BY <1>0, <1>6, MarkFailedFacts DEF Fresh, InHand
  <2>2. Writes(w, r.acct) /\ run'[w].pc = "next"
    BY <1>6, <2>1, MarkFailedFacts DEF Writes
  <2> QED
    BY <2>1, <2>2
<1>7. CASE CountDests(w) \/ Conclude(w) \/ CountPublished(w)
  BY <1>7, CountDestsFacts, ConcludeFacts, CountPublishedFacts DEF Silent
<1>8. CASE Begin(w, 0) \/ End(w) \/ Dies(w)
  BY <1>8, EnvironmentFacts
<1>9. ASSUME NEW a \in Accounts, Block(w, a) PROVE Writes(w, a) /\ run'[w].pc # "saved"
  <2>1. dest[r.at][a].status # "success"
    BY <1>0, <1>9, BlockFacts DEF Fresh, Blocked
  <2>2. run'[w].pc \in {"quota", "block"}
    BY <1>9, BlockFacts
  <2> QED
    BY <1>9, <2>1, <2>2, BlockFacts DEF Writes
<1>10. ASSUME NEW a \in Accounts, Reject(w, a) PROVE Writes(w, a) /\ run'[w].pc # "saved"
  <2>1. dest[r.at][a].status # "success"
    BY <1>0, <1>10, RejectFacts DEF Fresh
  <2>2. run'[w].pc \in {"finalize", "reject"}
    BY <1>10, RejectFacts
  <2> QED
    BY <1>10, <2>1, <2>2, RejectFacts DEF Writes
<1>11. ASSUME NEW a \in Accounts, Prepare(w, a) \/ PrepareError(w, a) \/ Skip(w, a) PROVE UNCHANGED dest
  BY <1>11, PrepareFacts, PrepareErrorFacts, SkipFacts DEF Silent
<1> QED
  BY <1>1, <1>2, <1>3, <1>4, <1>5, <1>6, <1>7, <1>8, <1>9, <1>10, <1>11 DEF RunStepped, Step

\* A row that says "success" is not written again.
LEMMA SuccessStays ==
  ASSUME DupInv, NEW w \in Workers, RunStepped(w)
  PROVE  \A p \in Posts, a \in Accounts : dest[p][a].status = "success" => dest'[p][a] = dest[p][a]
  BY StepWrites DEF Writes, SilentBut

\* What only one kind of step changes.
LEMMA StepFrame ==
  ASSUME DupInv, NEW w \in Workers, RunStepped(w)
  PROVE  /\ UNCHANGED <<live, detached>> \/ Accept(w) \/ LoseReply(w) \/ AcceptWithoutID(w)
         /\ UNCHANGED writes \/ RecordWrite(w)
         /\ UNCHANGED published \/ CountPublished(w)
         /\ UNCHANGED counted \/ CountPublished(w)
         /\ UNCHANGED post \/ MarkPublishing(w) \/ Conclude(w)
         /\ faults' \in Nat /\ faults' >= faults
<1>0. faults \in Nat
  BY RunFacts
<1>1. CASE Load(w) \/ MarkPublishing(w) \/ LoadDests(w) \/ CheckPublishedQuota(w) \/ EndDests(w)
  BY <1>0, <1>1, LoadFacts, MarkFacts, LoadDestsFacts, QuotaFacts, EndDestsFacts DEF Silent
<1>2. CASE RecordWrite(w) \/ Refuse(w) \/ Expired(w)
  BY <1>0, <1>2, RecordFacts, RefuseFacts, ExpiredFacts DEF Silent
<1>3. CASE Accept(w) \/ LoseReply(w) \/ AcceptWithoutID(w)
  <2>1. UNCHANGED <<post, published, writes, counted>>
    BY <1>3, AppearFacts DEF Appears
  <2>2. faults' \in {faults, faults + 1}
    BY <1>3, AppearFacts
  <2>3. faults' \in Nat /\ faults' >= faults
    BY <1>0, <2>2
  <2> QED
    BY <1>3, <2>1, <2>3
<1>4. CASE SaveExternalID(w) \/ MarkSuccess(w) \/ MarkFailed(w)
  BY <1>0, <1>4, SaveFacts, MarkSuccessFacts, MarkFailedFacts DEF SilentBut
<1>5. CASE CountDests(w) \/ Conclude(w) \/ CountPublished(w)
  BY <1>0, <1>5, CountDestsFacts, ConcludeFacts, CountPublishedFacts DEF Silent
<1>6. CASE Begin(w, 0) \/ End(w) \/ Dies(w)
  BY <1>0, <1>6, EnvironmentFacts
<1>7. ASSUME NEW a \in Accounts, Block(w, a) \/ Reject(w, a)
      PROVE UNCHANGED <<post, published, writes, counted, live, detached, faults>>
  BY <1>7, BlockFacts, RejectFacts DEF SilentBut
<1>8. ASSUME NEW a \in Accounts, Prepare(w, a) \/ PrepareError(w, a) \/ Skip(w, a)
      PROVE UNCHANGED <<post, published, writes, counted, live, detached, faults>>
  BY <1>8, PrepareFacts, PrepareErrorFacts, SkipFacts DEF Silent
<1> QED
  BY <1>0, <1>1, <1>2, <1>3, <1>4, <1>5, <1>6, <1>7, <1>8 DEF RunStepped, Step

\* The only ways into three places of the handler.
LEMMA StepPlace ==
  ASSUME DupInv, NEW w \in Workers, RunStepped(w)
  PROVE  /\ run'[w].pc = "record" => writes < WriteLimit /\ UNCHANGED <<writes, live>>
         /\ run'[w].pc = "call" => RecordWrite(w)
         /\ run'[w].pc = "saved" =>
              \/ SaveExternalID(w) \/ AcceptWithoutID(w)
              \/ UNCHANGED dest /\ Skips(run'[w].at, run'[w].acct)
<1>1. CASE Load(w) \/ MarkPublishing(w) \/ LoadDests(w) \/ CheckPublishedQuota(w) \/ EndDests(w)
  <2>1. run'[w].pc \notin {"record", "call", "saved"}
    BY <1>1, LoadFacts, MarkFacts, LoadDestsFacts, QuotaFacts, EndDestsFacts
  <2> QED
    BY <2>1
<1>2. CASE Refuse(w)
  BY <1>2, RefuseFacts
<1>3. CASE RecordWrite(w)
  BY <1>3, RecordFacts
<1>4. CASE Expired(w)
  BY <1>4, ExpiredFacts DEF Silent
<1>5. CASE Accept(w) \/ LoseReply(w)
  <2>1. run'[w].pc \in {"save", "failed"}
    BY <1>5, GotoFacts DEF Accept, LoseReply
  <2> QED
    BY <2>1
<1>6. CASE AcceptWithoutID(w)
  BY <1>6, GotoFacts DEF AcceptWithoutID
<1>7. CASE SaveExternalID(w)
  BY <1>7, SaveFacts
<1>8. CASE MarkSuccess(w) \/ MarkFailed(w)
  BY <1>8, MarkSuccessFacts, MarkFailedFacts
<1>9. CASE CountDests(w) \/ Conclude(w) \/ CountPublished(w)
  <2>1. run'[w].pc \notin {"record", "call", "saved"}
    BY <1>9, CountDestsFacts, ConcludeFacts, CountPublishedFacts DEF Turns
  <2> QED
    BY <2>1
<1>10. CASE Begin(w, 0) \/ End(w) \/ Dies(w)
  <2>1. run'[w].pc \in {"idle", "load"}
    BY <1>10, EnvironmentFacts
  <2> QED
    BY <2>1
<1>11. ASSUME NEW a \in Accounts, Block(w, a) \/ Reject(w, a)
       PROVE  run'[w].pc \notin {"record", "call", "saved"}
  BY <1>11, BlockFacts, RejectFacts
<1>12. ASSUME NEW a \in Accounts, Prepare(w, a)
       PROVE  run'[w].pc = "record" /\ writes < WriteLimit /\ UNCHANGED <<writes, live>>
  BY <1>12, PrepareFacts DEF Silent
<1>13. ASSUME NEW a \in Accounts, PrepareError(w, a)
       PROVE  run'[w].pc = "failed"
  BY <1>13, PrepareErrorFacts
<1>14. ASSUME NEW a \in Accounts, Skip(w, a)
       PROVE  run'[w].pc \in {"failed", "saved"} /\ UNCHANGED dest /\ Skips(run'[w].at, run'[w].acct)
  BY <1>14, SkipFacts DEF Silent, Taken, Stays, SkipReply, Skips
<1> QED
  BY <1>1, <1>2, <1>3, <1>4, <1>5, <1>6, <1>7, <1>8, <1>9, <1>10, <1>11, <1>12, <1>13, <1>14 DEF RunStepped, Step

-----------------------------------------------------------------------------
(* Every part of the invariant is kept.                                    *)

LEMMA OnlyWorker ==
  ASSUME OneWorker, NEW w \in Workers
  PROVE  \A v \in Workers : v = w
  BY DEF OneWorker

LEMMA RowsKept ==
  ASSUME DupInv, ThreadInv, NEW w \in Workers, RunStepped(w)
  PROVE  RowsInv'
<1> DEFINE r == run[w]
<1>0. /\ r \in Run /\ r.at \in Posts /\ dest \in [Posts -> [Accounts -> DestRow]]
      /\ post \in [Posts -> PostStatus] /\ counted \in [Posts -> Nat]
  BY RunFacts DEF DupInv, PublisherTypeOK
<1>a. PlaceInv(r) /\ HandInv(r) /\ RowsInv
  BY DEF ThreadInv, ThreadRun
<1>b. Grows
  BY StepGrows
<1> SUFFICES ASSUME NEW p \in Posts, NEW a \in Accounts
             PROVE  /\ dest'[p][a].status # "none"
                    /\ dest'[p][a].status = "success" => live'[p][a] > 0 \/ Skips(p, a)
                    /\ post'[p] = "published" \/ counted'[p] > 0 => dest'[p][a].status = "success"
  BY DEF RowsInv, Reached
<1>1. /\ dest[p][a].status # "none"
      /\ dest[p][a].status = "success" => live[p][a] > 0 \/ Skips(p, a)
      /\ post[p] = "published" \/ counted[p] > 0 => dest[p][a].status = "success"
  BY <1>a DEF RowsInv, Reached
<1>2. dest'[p][a].status # "none" /\ (dest'[p][a].status = "success" => live'[p][a] > 0 \/ Skips(p, a))
  <2>1. CASE dest'[p][a] = dest[p][a]
    BY <1>1, <1>b, <2>1 DEF Grows
  <2>2. CASE dest'[p][a] # dest[p][a]
    <3>1. p = r.at /\ Writes(w, a)
      BY <2>2, StepWrites DEF Writes, SilentBut
    <3>2. dest'[p][a].status = "success" => live[p][a] > 0 \/ Skips(p, a)
      BY <1>1, <1>a, <3>1 DEF Writes, HandInv, Reached
    <3> QED
      BY <1>1, <1>b, <3>1, <3>2 DEF Writes, Grows
  <2> QED
    BY <2>1, <2>2
<1>3. post'[p] = "published" => dest'[p][a].status = "success"
  <2>1. CASE UNCHANGED post
    BY <1>1, <1>b, <2>1 DEF Grows
  <2>2. CASE MarkPublishing(w)
    <3>1. SetPost(r.at, "publishing") /\ UNCHANGED dest
      BY <2>2, MarkFacts
    <3>2. post'[p] = "published" => post[p] = "published"
      BY <1>0, <3>1 DEF SetPost
    <3> QED
      BY <1>1, <3>1, <3>2
  <2>3. CASE Conclude(w)
    <3>1. /\ r.pc = "conclude" /\ SetPost(r.at, IF r.verdict = "failed" THEN "failed" ELSE "published")
          /\ UNCHANGED dest
      BY <2>3, ConcludeFacts
    <3>2. p # r.at \/ r.verdict = "failed" => post'[p] = post[p] \/ post'[p] # "published"
      BY <1>0, <3>1 DEF SetPost
    <3> QED
      BY <1>1, <1>a, <3>1, <3>2 DEF PlaceInv
  <2> QED
    BY <2>1, <2>2, <2>3, StepFrame
<1>4. counted'[p] > 0 => dest'[p][a].status = "success"
  <2>1. CASE UNCHANGED counted
    BY <1>1, <1>b, <2>1 DEF Grows
  <2>2. CASE CountPublished(w)
    <3>1. r.pc = "count" /\ counted' = [counted EXCEPT ![r.at] = counted[r.at] + 1] /\ UNCHANGED dest
      BY <2>2, CountPublishedFacts
    <3>2. CASE p = r.at
      BY <1>a, <3>1, <3>2 DEF PlaceInv
    <3>3. CASE p # r.at
      BY <1>0, <1>1, <3>1, <3>3
    <3> QED
      BY <3>2, <3>3
  <2> QED
    BY <2>1, <2>2, StepFrame
<1> QED
  BY <1>2, <1>3, <1>4

\* What the invariant knows of a publication about to be made.
LEMMA CallFacts ==
  ASSUME DupInv, ThreadInv, NEW w \in Workers, run[w].pc = "call", run[w].at > 0
  PROVE  LET r == run[w] IN
         /\ r.acct \in Accounts /\ r.at - 1 \in Posts /\ r.acct \notin SkipsReplies
         /\ live[r.at - 1][r.acct] > 0 /\ dest[r.at - 1][r.acct].status = "success"
         /\ r.reply = dest[r.at - 1][r.acct].ext
<1> DEFINE r == run[w]
<1>1. r \in Run /\ Fresh(r) /\ r.at \in Posts
  BY RunFacts
<1>2. r.acct \in Accounts /\ r.at - 1 \in Posts
  BY <1>1, PostBefore DEF Fresh, InHand
<1>3. OkInv(r) /\ HandInv(r)
  BY DEF ThreadInv, ThreadRun
<1>4. r.acct \in r.ok /\ r.acct \notin SkipsReplies /\ r.reply = dest[r.at - 1][r.acct].ext
  BY <1>3 DEF HandInv, InHand
<1>5. Reached(r.at - 1, r.acct) /\ dest[r.at - 1][r.acct].status = "success"
  BY <1>2, <1>3, <1>4 DEF OkInv, Handling, InHand
<1> QED
  BY <1>2, <1>4, <1>5 DEF Reached, Skips

LEMMA OrderKept ==
  ASSUME DupInv, ThreadInv, NEW w \in Workers, RunStepped(w)
  PROVE  ThreadOrder'
<1> DEFINE r == run[w]
<1>0. r \in Run /\ Fresh(r) /\ r.at \in Posts /\ live \in [Posts -> [Accounts -> Nat]]
  BY RunFacts DEF DupInv, PublisherTypeOK
<1>a. ThreadOrder
  BY DEF ThreadInv
<1>1. CASE UNCHANGED <<live, detached>>
  BY <1>a, <1>1 DEF ThreadOrder
<1>2. CASE Accept(w) \/ LoseReply(w) \/ AcceptWithoutID(w)
  <2>1. r.pc = "call" /\ Appears(r) /\ r.acct \in Accounts
    BY <1>0, <1>2, AppearFacts DEF Fresh, InHand
  <2>2. Grows /\ \A p \in Posts, a \in Accounts : p # r.at \/ a # r.acct => live'[p][a] = live[p][a]
    BY <1>0, <2>1, AppearsGrows
  <2> SUFFICES ASSUME NEW p \in Posts \ {0}, NEW a \in Accounts, live'[p][a] > 0
               PROVE  live'[p - 1][a] > 0
    BY DEF ThreadOrder
  <2>3. p > 0 /\ p - 1 \in Posts
    BY PostBefore DEF Posts
  <2>4. live[p - 1][a] > 0
    <3>1. CASE p = r.at /\ a = r.acct
      BY <2>1, <2>3, <3>1, CallFacts
    <3>2. CASE p # r.at \/ a # r.acct
      BY <1>a, <2>2, <3>2 DEF ThreadOrder
    <3> QED
      BY <3>1, <3>2
  <2> QED
    BY <2>2, <2>3, <2>4 DEF Grows
<1> QED
  BY <1>1, <1>2, StepFrame

LEMMA AddOne ==
  ASSUME NEW S, IsFiniteSet(S), NEW x
  PROVE  LET T == S \cup {x}
         IN  IsFiniteSet(T) /\ Cardinality(T) \in Nat /\ Cardinality(T) <= Cardinality(S) + 1
             /\ Cardinality(S) \in Nat /\ Cardinality(S) <= Cardinality(T)
<1> DEFINE T == S \cup {x}
<1>1. IsFiniteSet(T) /\ (Cardinality(T) = Cardinality(S) \/ Cardinality(T) = Cardinality(S) + 1)
  BY FS_AddElement
<1>2. Cardinality(S) \in Nat
  BY FS_CardinalityType
<1> HIDE DEF T
<1>3. Cardinality(T) \in Nat
  BY <1>1, FS_CardinalityType
<1> QED
  BY <1>1, <1>2, <1>3 DEF T

LEMMA SubsetCount ==
  ASSUME NEW T, IsFiniteSet(T), NEW S \in SUBSET T
  PROVE  IsFiniteSet(S) /\ Cardinality(S) \in Nat /\ Cardinality(T) \in Nat /\ Cardinality(S) <= Cardinality(T)
<1>1. IsFiniteSet(S) /\ Cardinality(S) <= Cardinality(T)
  BY FS_Subset
<1> QED
  BY <1>1, FS_CardinalityType

\* A publication without an id is lost by a bad answer only.
LEMMA LostGrows ==
  ASSUME OneWorker, DupInv, ThreadInv, NEW w \in Workers, RunStepped(w)
  PROVE  \/ Lost' \subseteq Lost
         \/ AcceptWithoutID(w) /\ Lost' \subseteq Lost \cup {<<run[w].at, run[w].acct>>}
<1> DEFINE r == run[w]
           s == run'[w]
           InLost(p, a) == <<p, a>> \in Lost
<1>0. r \in Run /\ Fresh(r) /\ dest \in [Posts -> [Accounts -> DestRow]]
  BY RunFacts
<1>1. \A p \in Posts, a \in Accounts :
        InLost(p, a) <=> /\ ~Skips(p, a) /\ ~dest[p][a].ext
                         /\ dest[p][a].status = "success" \/ (r.pc = "saved" /\ r.at = p /\ r.acct = a)
  BY OnlyWorker DEF Lost
<1>2. \A x \in Lost' : \E p \in Posts, a \in Accounts :
        /\ x = <<p, a>> /\ ~Skips(p, a) /\ ~dest'[p][a].ext
        /\ dest'[p][a].status = "success" \/ (s.pc = "saved" /\ s.at = p /\ s.acct = a)
  <2> SUFFICES ASSUME NEW x \in Lost'
               PROVE  \E p \in Posts, a \in Accounts :
                        /\ x = <<p, a>> /\ ~Skips(p, a) /\ ~dest'[p][a].ext
                        /\ dest'[p][a].status = "success" \/ (s.pc = "saved" /\ s.at = p /\ s.acct = a)
    OBVIOUS
  <2>1. PICK p \in Posts, a \in Accounts : x = <<p, a>>
    BY DEF Lost
  <2>2. /\ ~Skips(p, a) /\ ~dest'[p][a].ext
        /\ \/ dest'[p][a].status = "success"
           \/ \E v \in Workers : run'[v].pc = "saved" /\ run'[v].at = p /\ run'[v].acct = a
    BY <2>1 DEF Lost, Skips
  <2> QED
    BY <2>1, <2>2, OnlyWorker
<1> HIDE DEF InLost
<1>3. ASSUME NEW p \in Posts, NEW a \in Accounts, ~Skips(p, a), ~dest'[p][a].ext,
             dest'[p][a].status = "success"
      PROVE  InLost(p, a)
  <2>1. CASE dest'[p][a] = dest[p][a]
    BY <1>1, <1>3, <2>1
  <2>2. CASE dest'[p][a] # dest[p][a]
    <3>1. p = r.at /\ Writes(w, a)
      BY <2>2, StepWrites DEF Writes, SilentBut
    <3>2. r.pc = "saved" /\ a = r.acct /\ dest'[p][a].ext = dest[p][a].ext
      BY <1>3, <3>1 DEF Writes
    <3> QED
      BY <1>1, <1>3, <3>1, <3>2
  <2> QED
    BY <2>1, <2>2
<1>4. ASSUME NEW p \in Posts, NEW a \in Accounts, ~Skips(p, a), ~dest'[p][a].ext,
             s.pc = "saved", s.at = p, s.acct = a
      PROVE  AcceptWithoutID(w) /\ p = r.at /\ a = r.acct
  <2>1. ~SaveExternalID(w)
    BY <1>4, SaveFacts DEF Pass, Stays
  <2>2. AcceptWithoutID(w)
    BY <1>4, <2>1, StepPlace
  <2> QED
    BY <1>4, <2>2, AppearFacts DEF Pass, Stays
<1>5. \A x \in Lost' : x \in Lost \/ (AcceptWithoutID(w) /\ x = <<r.at, r.acct>>)
  BY <1>2, <1>3, <1>4 DEF InLost
<1> QED
  BY <1>5

LEMMA LostKept ==
  ASSUME OneWorker, DupInv, ThreadInv, NEW w \in Workers, RunStepped(w)
  PROVE  LostInv'
<1>0. faults \in Nat /\ faults' \in Nat /\ faults' >= faults
  BY RunFacts, StepFrame
<1>1. IsFiniteSet(Lost) /\ Cardinality(Lost) \in Nat /\ Cardinality(Lost) <= faults
  BY FS_CardinalityType DEF ThreadInv, LostInv
<1>2. CASE Lost' \subseteq Lost
  <2>1. IsFiniteSet(Lost') /\ Cardinality(Lost') \in Nat /\ Cardinality(Lost') <= Cardinality(Lost)
    BY <1>1, <1>2, FS_Subset, FS_CardinalityType
  <2> QED
    BY <1>0, <1>1, <2>1 DEF LostInv
<1>3. CASE AcceptWithoutID(w) /\ Lost' \subseteq Lost \cup {<<run[w].at, run[w].acct>>}
  <2> DEFINE T == Lost \cup {<<run[w].at, run[w].acct>>}
  <2>1. IsFiniteSet(T) /\ Cardinality(T) \in Nat /\ Cardinality(T) <= Cardinality(Lost) + 1
    BY <1>1, AddOne
  <2>2. IsFiniteSet(Lost') /\ Cardinality(Lost') \in Nat /\ Cardinality(Lost') <= Cardinality(T)
    BY <1>3, <2>1, FS_Subset, FS_CardinalityType
  <2>3. faults' = faults + 1
    BY <1>3 DEF AcceptWithoutID, Fault
  <2> HIDE DEF T
  <2> QED
    BY <1>0, <1>1, <2>1, <2>2, <2>3 DEF LostInv
<1> QED
  BY <1>2, <1>3, LostGrows

LEMMA DetachedKept ==
  ASSUME OneWorker, DupInv, ThreadInv, NEW w \in Workers, RunStepped(w)
  PROVE  DetachedInv'
<1> DEFINE r == run[w]
<1>0. r \in Run /\ Fresh(r) /\ r.at \in Posts /\ r.at \in Nat /\ detached \subseteq Posts \X Accounts
      /\ dest \in [Posts -> [Accounts -> DestRow]]
  BY RunFacts, PostBefore DEF DupInv, PublisherTypeOK
<1>1. ASSUME NEW p \in Posts, NEW a \in Accounts,
             dest[p][a].status = "success", ~dest[p][a].ext, ~Skips(p, a)
      PROVE  dest'[p][a].status = "success" /\ <<p, a>> \in Lost'
  <2>1. dest'[p][a] = dest[p][a]
    BY <1>1, SuccessStays
  <2> QED
    BY <1>1, <2>1 DEF Lost, Skips
<1>2. ASSUME NEW x \in detached
      PROVE  x[1] > 0 /\ dest'[x[1] - 1][x[2]].status = "success" /\ <<x[1] - 1, x[2]>> \in Lost'
  <2>1. PICK p \in Posts, a \in Accounts : x = <<p, a>>
    BY <1>0, <1>2
  <2>2. p > 0 /\ dest[p - 1][a].status = "success" /\ <<p - 1, a>> \in Lost
    BY <1>2, <2>1 DEF ThreadInv, DetachedInv
  <2>3. p - 1 \in Posts /\ ~Skips(p - 1, a) /\ ~dest[p - 1][a].ext
    BY <2>2, PostBefore DEF Lost, Skips
  <2>4. dest'[p - 1][a].status = "success" /\ <<p - 1, a>> \in Lost'
    BY <2>2, <2>3, <1>1
  <2> QED
    BY <2>1, <2>2, <2>4
<1>3. CASE UNCHANGED <<live, detached>>
  BY <1>2, <1>3 DEF DetachedInv
<1>4. CASE Accept(w) \/ LoseReply(w) \/ AcceptWithoutID(w)
  <2>1. r.pc = "call" /\ Appears(r) /\ r.acct \in Accounts
    BY <1>0, <1>4, AppearFacts DEF Fresh, InHand
  <2>2. CASE r.at > 0 /\ ~r.reply
    <3>1. detached' = detached \cup {<<r.at, r.acct>>}
      BY <2>1, <2>2 DEF Appears
    <3>2. r.at - 1 \in Posts /\ dest[r.at - 1][r.acct].status = "success" /\ ~dest[r.at - 1][r.acct].ext
          /\ ~Skips(r.at - 1, r.acct)
      BY <2>1, <2>2, CallFacts DEF Skips
    <3>3. dest'[r.at - 1][r.acct].status = "success" /\ <<r.at - 1, r.acct>> \in Lost'
      BY <1>1, <2>1, <3>2
    <3> SUFFICES ASSUME NEW x \in detached'
                 PROVE  x[1] > 0 /\ dest'[x[1] - 1][x[2]].status = "success" /\ <<x[1] - 1, x[2]>> \in Lost'
      BY DEF DetachedInv
    <3>4. CASE x = <<r.at, r.acct>>
      BY <2>2, <3>3, <3>4
    <3> QED
      BY <1>2, <3>1, <3>4
  <2>3. CASE ~(r.at > 0 /\ ~r.reply)
    <3>1. detached' = detached
      BY <2>1, <2>3 DEF Appears
    <3> QED
      BY <1>2, <3>1 DEF DetachedInv
  <2> QED
    BY <2>2, <2>3
<1> QED
  BY <1>3, <1>4, StepFrame

\* Every detached reply has a lost id behind it.
LEMMA DetachedBound ==
  ASSUME DupInv, DetachedInv, LostInv
  PROVE  RepliesAreAttached
<1>0. detached \subseteq Posts \X Accounts /\ faults \in Nat
  BY DEF DupInv, PublisherTypeOK
<1> DEFINE f == [x \in detached |-> <<x[1] - 1, x[2]>>]
<1>1. f \in Injection(detached, Lost)
  <2>1. f \in [detached -> Lost]
    BY DEF DetachedInv
  <2>2. ASSUME NEW x \in detached, NEW y \in detached, f[x] = f[y] PROVE x = y
    <3>1. PICK p \in Posts, a \in Accounts : x = <<p, a>>
      BY <1>0
    <3>2. PICK q \in Posts, b \in Accounts : y = <<q, b>>
      BY <1>0
    <3>3. <<p - 1, a>> = <<q - 1, b>>
      BY <2>2, <3>1, <3>2
    <3>4. p \in Nat /\ q \in Nat
      BY PostBefore
    <3> QED
      BY <3>1, <3>2, <3>3, <3>4
  <2> QED
    BY <2>1, <2>2 DEF Injection, IsInjective
<1>2. IsFiniteSet(detached) /\ Cardinality(detached) <= Cardinality(Lost)
  BY <1>1, FS_Injection DEF LostInv
<1>3. Cardinality(detached) \in Nat /\ Cardinality(Lost) \in Nat
  BY <1>2, FS_CardinalityType DEF LostInv
<1> QED
  BY <1>0, <1>2, <1>3 DEF LostInv, RepliesAreAttached

LEMMA PublicationsOf ==
  ASSUME NEW p \in Posts, NEW a \in Accounts, NEW n \in 1 .. live[p][a]
  PROVE  <<p, a, n>> \in Publications
<1> DEFINE F(x, y) == {<<x, y, j>> : j \in 1 .. live[x][y]}
<1>1. <<p, a, n>> \in F(p, a)
  OBVIOUS
<1>2. Publications = UNION {F(x, y) : x \in Posts, y \in Accounts}
  BY DEF Publications
<1> HIDE DEF F
<1>3. F(p, a) \subseteq UNION {F(x, y) : x \in Posts, y \in Accounts}
  OBVIOUS
<1> QED
  BY <1>1, <1>2, <1>3

\* A call is paid for before it is made.
LEMMA WritesKept ==
  ASSUME OneWorker, DupInv, ThreadInv, NEW w \in Workers, RunStepped(w)
  PROVE  WriteInv'
<1> DEFINE r == run[w]
           s == run'[w]
           n == Cardinality(Publications)
           m == Cardinality(Publications')
<1>0. r \in Run /\ Fresh(r) /\ r.at \in Posts /\ live \in [Posts -> [Accounts -> Nat]] /\ writes \in Nat
      /\ WriteLimit \in Nat
  BY RunFacts, PublisherAssumption DEF DupInv, PublisherTypeOK
<1>1. IsFiniteSet(Publications) /\ n \in Nat /\ n <= writes /\ writes <= WriteLimit
      /\ (r.pc = "record" => writes < WriteLimit) /\ (r.pc = "call" => n < writes)
  BY FS_CardinalityType DEF ThreadInv, WriteInv
<1>2. /\ IsFiniteSet(Publications') /\ m \in Nat
      /\ \/ UNCHANGED live /\ m = n
         \/ (Accept(w) \/ LoseReply(w) \/ AcceptWithoutID(w)) /\ m <= n + 1
  <2>1. CASE UNCHANGED live
    BY <1>1, <2>1 DEF Publications
  <2>2. CASE Accept(w) \/ LoseReply(w) \/ AcceptWithoutID(w)
    <3> DEFINE p == r.at
               a == r.acct
               k == live[p][a] + 1
               T == Publications \cup {<<p, a, k>>}
    <3>1. r.pc = "call" /\ Appears(r) /\ a \in Accounts
      BY <1>0, <2>2, AppearFacts DEF Fresh, InHand
    <3>2. live'[p][a] = k /\ \A q \in Posts, b \in Accounts : q # p \/ b # a => live'[q][b] = live[q][b]
      BY <1>0, <3>1, AppearsGrows
    <3>3. Publications' \subseteq T
      <4> SUFFICES ASSUME NEW q \in Posts, NEW b \in Accounts, NEW i \in 1 .. live'[q][b]
                   PROVE  <<q, b, i>> \in T
        BY DEF Publications
      <4>1. CASE i \in 1 .. live[q][b]
        <5>1. <<q, b, i>> \in Publications
          BY <4>1, PublicationsOf
        <5> QED
          BY <5>1
      <4>2. CASE i \notin 1 .. live[q][b]
        <5>1. q = p /\ b = a
          BY <3>2, <4>2
        <5>2. live[p][a] \in Nat
          BY <1>0, <3>1
        <5>3. i = k
          BY <3>2, <4>2, <5>1, <5>2
        <5> QED
          BY <5>1, <5>3
      <4> QED
        BY <4>1, <4>2
    <3>4. IsFiniteSet(T) /\ Cardinality(T) \in Nat /\ Cardinality(T) <= n + 1
      BY <1>1, AddOne
    <3>5. IsFiniteSet(Publications') /\ m \in Nat /\ m <= Cardinality(T)
      BY <3>3, <3>4, FS_Subset, FS_CardinalityType
    <3> HIDE DEF T, n, m
    <3> QED
      BY <1>1, <2>2, <3>4, <3>5
  <2> QED
    BY <2>1, <2>2, StepFrame
<1>3. CASE RecordWrite(w)
  <2>1. r.pc = "record" /\ s.pc = "call" /\ writes' = writes + 1 /\ UNCHANGED live
    BY <1>3, RecordFacts
  <2>2. m = n
    BY <2>1 DEF Publications
  <2>3. m <= writes' /\ writes' <= WriteLimit /\ m < writes'
    BY <1>0, <1>1, <1>2, <2>1, <2>2
  <2> QED
    BY <1>2, <2>1, <2>3, OnlyWorker DEF WriteInv
<1>4. CASE UNCHANGED writes /\ ~RecordWrite(w)
  <2>1. m <= writes
    <3>1. CASE UNCHANGED live /\ m = n
      BY <1>1, <3>1
    <3>2. CASE (Accept(w) \/ LoseReply(w) \/ AcceptWithoutID(w)) /\ m <= n + 1
      <4>1. r.pc = "call"
        BY <3>2, AppearFacts
      <4> QED
        BY <1>0, <1>1, <1>2, <3>2, <4>1
    <3> QED
      BY <1>2, <3>1, <3>2
  <2>2. s.pc # "call" /\ (s.pc = "record" => writes < WriteLimit)
    BY <1>4, StepPlace
  <2> QED
    BY <1>1, <1>2, <1>4, <2>1, <2>2, OnlyWorker DEF WriteInv
<1> QED
  BY <1>3, <1>4, StepFrame

-----------------------------------------------------------------------------
(* The invariant holds of every thread.                                   *)

LEMMA InitThreadInv ==
  ASSUME PublisherInit
  PROVE  ThreadInv
<1>1. \A w \in Workers : run[w] = Idle
  BY DEF PublisherInit, CreatedAs
<1>2. \A p \in Posts, a \in Accounts : dest[p][a] = NewDest /\ live[p][a] = 0 /\ post[p] = "scheduled" /\ counted[p] = 0
  BY DEF PublisherInit, CreatedAs
<1>3. detached = {} /\ writes = 0 /\ faults = 0 /\ WriteLimit \in Nat
  BY PublisherAssumption DEF PublisherInit, CreatedAs
<1>4. /\ Idle.pc = "idle" /\ Idle.at = 0 /\ Idle.okNow = {}
      /\ NewDest.status = "pending"
  BY DEF Idle, NewDest
<1>5. \A w \in Workers : ThreadRun(run[w])
  BY <1>1, <1>4 DEF ThreadRun, PlaceInv, OkInv, HandInv, Handling, Choosing, InHand
<1>6. RowsInv
  BY <1>2, <1>4 DEF RowsInv
<1>7. ThreadOrder
  <2> SUFFICES ASSUME NEW p \in Posts \ {0}, NEW a \in Accounts PROVE ~(live[p][a] > 0)
    BY DEF ThreadOrder
  <2> QED
    BY <1>2
<1>8. Lost = {}
  BY <1>1, <1>2, <1>4 DEF Lost
<1>9. Publications = {}
  BY <1>2 DEF Publications
<1>10. LostInv /\ DetachedInv
  BY <1>3, <1>8, FS_EmptySet DEF LostInv, DetachedInv
<1>11. WriteInv
  BY <1>1, <1>3, <1>4, <1>9, FS_EmptySet DEF WriteInv
<1> QED
  BY <1>5, <1>6, <1>7, <1>10, <1>11 DEF ThreadInv

LEMMA StepThread ==
  ASSUME OneWorker, DupInv, DupInv', ThreadInv, NEW w \in Workers, RunStepped(w)
  PROVE  ThreadInv'
<1>1. \A v \in Workers : ThreadRun(run[v])'
  BY RunThread, OnlyWorker
<1> QED
  BY <1>1, RowsKept, OrderKept, LostKept, DetachedKept, WritesKept DEF ThreadInv

LEMMA StutterThread ==
  ASSUME ThreadInv, UNCHANGED pubVars
  PROVE  ThreadInv'
<1> USE DEF pubVars
<1>1. \A v \in Workers : ThreadRun(run[v])'
  BY DEF ThreadInv, ThreadRun, PlaceInv, OkInv, HandInv, Reached, Handling, Choosing, InHand
<1>2. RowsInv' /\ ThreadOrder'
  BY DEF ThreadInv, RowsInv, ThreadOrder, Reached
<1>3. Lost' = Lost
  BY DEF Lost, Skips
<1>4. LostInv' /\ DetachedInv'
  BY <1>3 DEF ThreadInv, LostInv, DetachedInv
<1>5. Publications' = Publications
  BY DEF Publications
<1>6. WriteInv'
  BY <1>5 DEF ThreadInv, WriteInv
<1> QED
  BY <1>1, <1>2, <1>4, <1>6 DEF ThreadInv

LEMMA NextThread ==
  ASSUME OneWorker, DbErrors = FALSE, DupInv, ThreadInv, [PublisherNext]_pubVars
  PROVE  ThreadInv'
<1>1. DupInv'
  BY NextDup
<1>2. ASSUME NEW w \in Workers, StepFault(w) PROVE RunStepped(w)
  BY <1>2 DEF StepFault, RunStepped, DbFault, LoadError, MarkPublishingError, LoadThreadError, LoadDestsError,
     CheckPublishedQuotaError, PassOverError, RecordWriteError, SaveExternalIDError, MarkError, CountDestsError, ConcludeError
<1>3. CASE PublisherNext
  <2>1. PICK w \in Workers : RunStepped(w)
    BY <1>2, <1>3 DEF PublisherNext, RunStepped, Deliver, Crash, Fault, Dies
  <2> QED
    BY <1>1, <2>1, StepThread
<1> QED
  BY <1>3, StutterThread

\* One server and no failed statement: the invariant of the thread holds, for
\* threads of any length, any accounts and any crashes and bad answers.
THEOREM ThreadInvariant ==
  ASSUME OneWorker, DbErrors = FALSE
  PROVE  PublisherSpec => []ThreadInv
<1>1. DupInv /\ ThreadInv /\ [PublisherNext]_pubVars => ThreadInv'
  BY NextThread
<1>2. PublisherInit => ThreadInv
  BY InitThreadInv
<1> QED
  BY <1>1, <1>2, PublisherInvariant, PTL DEF PublisherSpec

\* PublishPost publishes a reply on an account only when the post before it is
\* there, or the account's platform takes no replies.
THEOREM ThreadOrderHolds ==
  ASSUME OneWorker, DbErrors = FALSE
  PROVE  PublisherSpec => []ThreadOrder
<1>1. ThreadInv => ThreadOrder
  BY DEF ThreadInv
<1> QED
  BY <1>1, ThreadInvariant, PTL

\* A reply is published without its parent's id at most once per lost id: the
\* prepared target reads the id that SaveExternalID stored.
THEOREM RepliesAreAttachedHolds ==
  ASSUME OneWorker, DbErrors = FALSE
  PROVE  PublisherSpec => []RepliesAreAttached
<1>1. DupInv /\ ThreadInv => RepliesAreAttached
  BY DetachedBound DEF ThreadInv
<1> QED
  BY <1>1, ThreadInvariant, PublisherInvariant, PTL

\* A post that concludePost marks "published", or that was counted in the
\* usage, is at every account that takes it.
THEOREM PublishedMeansDeliveredHolds ==
  ASSUME OneWorker, DbErrors = FALSE
  PROVE  PublisherSpec => []PublishedMeansDelivered
<1>1. ThreadInv => PublishedMeansDelivered
  BY DEF ThreadInv, RowsInv, PublishedMeansDelivered, Reached, Skips
<1> QED
  BY <1>1, ThreadInvariant, PTL

\* Every publication was recorded against the plan's limit of write calls
\* before the call was made: RecordWrite refuses at the limit.
THEOREM WriteCallsStayInPlanHolds ==
  ASSUME OneWorker, DbErrors = FALSE
  PROVE  PublisherSpec => []WriteCallsStayInPlan
<1>1. ThreadInv => WriteCallsStayInPlan
  BY DEF ThreadInv, WriteInv, WriteCallsStayInPlan
<1> QED
  BY <1>1, ThreadInvariant, PTL

-----------------------------------------------------------------------------
(* What the handler leaves behind.                                         *)

\* The post has its verdict and no destination waits.
Disposed(p) ==
  /\ post[p] \in {"published", "failed"}
  /\ \A a \in Accounts : dest[p][a].status # "pending"

Begun(r) == r.pc \notin {"idle", "load", "mark"}
InPost(r) == Begun(r) /\ r.pc \notin {"conclude", "count", "return"}

ProgressRun(r) ==
  /\ Begun(r) => r.last = ThreadLen - 1 /\ \A q \in Posts : q < r.at => Disposed(q)
  /\ r.pc \in {"conclude", "count"} => \A a \in Accounts : dest[r.at][a].status # "pending"
  /\ r.pc = "count" => Disposed(r.at)
  /\ r.pc = "return" => \A q \in Posts : Disposed(q)

ProgressInv ==
  /\ \A p \in Posts : post[p] # "gone"
  /\ \A w \in Workers : ProgressRun(run[w])

\* A row that does not wait never waits again.
LEMMA NeverPending ==
  ASSUME DupInv, NEW w \in Workers, RunStepped(w)
  PROVE  \A p \in Posts, a \in Accounts : dest[p][a].status # "pending" => dest'[p][a].status # "pending"
  BY StepWrites, RunFacts DEF Writes, SilentBut

\* Most steps stay inside one post and leave the statuses of posts alone.
LEMMA InnerStep ==
  ASSUME DupInv, NEW w \in Workers, Step(w) \/ LoseReply(w) \/ AcceptWithoutID(w)
  PROVE  \/ Load(w) \/ MarkPublishing(w) \/ CountDests(w) \/ Conclude(w) \/ CountPublished(w)
         \/ /\ InPost(run[w]) /\ InPost(run'[w])
            /\ run'[w].at = run[w].at /\ run'[w].last = run[w].last /\ UNCHANGED post
<1> USE DEF InPost, Begun
<1>1. CASE LoadDests(w) \/ CheckPublishedQuota(w) \/ EndDests(w)
  BY <1>1, LoadDestsFacts, QuotaFacts, EndDestsFacts DEF Stays, Pass, Silent
<1>2. CASE \E a \in Accounts : Block(w, a) \/ Reject(w, a)
  BY <1>2, BlockFacts, RejectFacts DEF Stays, SilentBut
<1>3. CASE \E a \in Accounts : Prepare(w, a) \/ PrepareError(w, a) \/ Skip(w, a)
  BY <1>3, PrepareFacts, PrepareErrorFacts, SkipFacts DEF Taken, Stays, Silent
<1>4. CASE RecordWrite(w) \/ Refuse(w) \/ Expired(w)
  BY <1>4, RecordFacts, RefuseFacts, ExpiredFacts DEF Pass, Stays, Silent
<1>5. CASE Accept(w) \/ LoseReply(w) \/ AcceptWithoutID(w)
  BY <1>5, AppearFacts DEF Pass, Stays, Appears
<1>6. CASE SaveExternalID(w) \/ MarkSuccess(w) \/ MarkFailed(w)
  BY <1>6, SaveFacts, MarkSuccessFacts, MarkFailedFacts DEF Pass, Stays, SilentBut
<1> QED
  BY <1>1, <1>2, <1>3, <1>4, <1>5, <1>6 DEF Step

LEMMA PostWritten ==
  ASSUME DupInv, NEW p \in Posts, NEW status, SetPost(p, status), post[p] # "gone"
  PROVE  post'[p] = status /\ \A q \in Posts : q # p => post'[q] = post[q]
  BY DEF SetPost, DupInv, PublisherTypeOK

\* The run of the root takes the thread to its end.
LEMMA WholeThread ==
  ASSUME \A p \in Posts : post[p] # "gone", NEW n \in Posts, EndsThread(0, n)
  PROVE  n = ThreadLen - 1
<1>1. n \in Nat /\ ThreadLen \in Nat /\ n <= ThreadLen - 1 /\ 0 \in Posts
  BY PublisherAssumption DEF Posts
<1>2. n + 1 \in Posts => post[n + 1] = "gone"
  BY <1>1 DEF EndsThread
<1>3. n + 1 \notin Posts
  BY <1>2
<1> QED
  BY <1>1, <1>3, PublisherAssumption DEF Posts

\* The last post of the thread is in hand, so all are disposed of.
LEMMA ThreadDone ==
  ASSUME DupInv, NEW r \in Run, ~(r.at < r.last), r.last = ThreadLen - 1
  PROVE  \A q \in Posts : q < r.at \/ q = r.at
  BY PublisherAssumption DEF Posts, Run

LEMMA StepProgress ==
  ASSUME OneWorker, DupInv, ThreadInv, ProgressInv, NEW w \in Workers, RunStepped(w)
  PROVE  ProgressInv'
<1> DEFINE r == run[w]
           s == run'[w]
<1>0. r \in Run /\ r.at \in Posts /\ r.last \in Posts /\ r.at \in Nat /\ r.last \in Nat /\ post[r.at] # "gone"
  BY RunFacts, PostBefore DEF ProgressInv
<1>1. ProgressRun(r) /\ PlaceInv(r)
  BY DEF ProgressInv, ThreadInv, ThreadRun
<1>2. \A p \in Posts : (\A a \in Accounts : dest[p][a].status # "pending") => \A a \in Accounts : dest'[p][a].status # "pending"
  BY NeverPending
<1>3. \A q \in Posts : Disposed(q) /\ post'[q] = post[q] => Disposed(q)'
  BY <1>2 DEF Disposed
<1>4. SUFFICES (\A p \in Posts : post'[p] # "gone") /\ ProgressRun(run[w])'
  BY OnlyWorker DEF ProgressInv
<1>5. CASE Load(w)
  <2>1. s.pc = "mark" /\ UNCHANGED post
    <3>1. Goto(w, "mark") /\ UNCHANGED post
      BY <1>0, <1>5 DEF Load, dbVars
    <3> QED
      BY <3>1, GotoFacts
  <2> QED
    BY <2>1 DEF ProgressRun, Begun, ProgressInv
<1>6. CASE MarkPublishing(w)
  <2>1. s.pc = "dests" /\ s.at = 0 /\ SetPost(0, "publishing") /\ r.at = 0
    BY <1>1, <1>6, MarkFacts DEF PlaceInv
  <2>2. PICK n \in Posts : EndsThread(0, n) /\ Become(w, [r EXCEPT !.pc = "dests", !.last = n])
    BY <1>6, <2>1 DEF MarkPublishing
  <2>3. s.last = n
    <3>1. s = [r EXCEPT !.pc = "dests", !.last = n]
      BY <2>2, BecomeRun DEF Become
    <3> QED
      BY <1>0, <3>1 DEF Run
  <2>4. n = ThreadLen - 1
    BY <2>2, WholeThread DEF ProgressInv
  <2>5. \A q \in Posts : ~(q < 0)
    BY DEF Posts
  <2>6. \A p \in Posts : post'[p] # "gone"
    BY <1>0, <2>1, PostWritten DEF ProgressInv
  <2> QED
    BY <2>1, <2>3, <2>4, <2>5, <2>6 DEF ProgressRun
<1>7. CASE CountDests(w)
  <2>1. r.pc = "finalize" /\ s.pc = "conclude" /\ s.at = r.at /\ s.last = r.last /\ Silent
    BY <1>7, CountDestsFacts
  <2>2. \A q \in Posts : Disposed(q)' <=> Disposed(q)
    BY <2>1 DEF Disposed, Silent
  <2>3. \A a \in Accounts : dest'[r.at][a].status # "pending"
    BY <1>1, <2>1 DEF PlaceInv, Silent
  <2>4. \A p \in Posts : post'[p] # "gone"
    BY <2>1 DEF ProgressInv, Silent
  <2> QED
    BY <1>1, <2>1, <2>2, <2>3, <2>4 DEF ProgressRun, Begun
<1>8. CASE Conclude(w)
  <2> DEFINE v == IF r.verdict = "failed" THEN "failed" ELSE "published"
  <2>1. r.pc = "conclude" /\ SetPost(r.at, v)
        /\ \/ s.pc = "count" /\ s.at = r.at /\ s.last = r.last
           \/ Turns(r, s)
    BY <1>8, ConcludeFacts DEF Stays
  <2>2. post'[r.at] = v /\ \A q \in Posts : q # r.at => post'[q] = post[q]
    BY <1>0, <2>1, PostWritten
  <2>3. \A p \in Posts : post'[p] # "gone"
    BY <2>2 DEF ProgressInv
  <2>4. PICK p \in Posts : p = r.at
    BY <1>0
  <2>5. Disposed(p)'
    BY <1>1, <1>2, <2>1, <2>2, <2>4 DEF Disposed, ProgressRun
  <2>6. r.last = ThreadLen - 1 /\ \A q \in Posts : q < p => Disposed(q)'
    BY <1>0, <1>1, <1>3, <2>1, <2>2, <2>4 DEF ProgressRun, Begun
  <2>7. CASE s.pc = "count" /\ s.at = r.at /\ s.last = r.last
    BY <2>3, <2>4, <2>5, <2>6, <2>7 DEF ProgressRun, Disposed
  <2>8. CASE s.pc = "dests" /\ Turns(r, s)
    <3>1. s.at = p + 1 /\ s.last = r.last
      BY <2>4, <2>8 DEF Turns
    <3>2. \A q \in Posts : q < p + 1 => q < p \/ q = p
      BY <1>0, <2>4 DEF Posts
    <3> QED
      BY <2>3, <2>5, <2>6, <2>8, <3>1, <3>2 DEF ProgressRun
  <2>9. CASE s.pc = "return" /\ Turns(r, s)
    <3>1. s.at = p /\ s.last = r.last /\ ~(r.at < r.last)
      BY <2>4, <2>9 DEF Turns, Stays
    <3>2. \A q \in Posts : Disposed(q)'
      BY <1>0, <2>4, <2>5, <2>6, <3>1, ThreadDone
    <3> QED
      BY <2>3, <2>6, <2>9, <3>1, <3>2 DEF ProgressRun
  <2> QED
    BY <2>1, <2>7, <2>8, <2>9 DEF Turns
<1>9. CASE CountPublished(w)
  <2>1. r.pc = "count" /\ Turns(r, s) /\ UNCHANGED <<post, dest>>
    BY <1>9, CountPublishedFacts
  <2>2. \A q \in Posts : Disposed(q)' <=> Disposed(q)
    BY <2>1 DEF Disposed
  <2>3. \A p \in Posts : post'[p] # "gone"
    BY <2>1 DEF ProgressInv
  <2>4. PICK p \in Posts : p = r.at
    BY <1>0
  <2>5. Disposed(p)' /\ r.last = ThreadLen - 1 /\ \A q \in Posts : q < p => Disposed(q)'
    BY <1>1, <2>1, <2>2, <2>4 DEF ProgressRun, Begun
  <2>8. CASE s.pc = "dests"
    <3>1. s.at = p + 1 /\ s.last = r.last
      BY <2>1, <2>4, <2>8 DEF Turns
    <3>2. \A q \in Posts : q < p + 1 => q < p \/ q = p
      BY <1>0, <2>4 DEF Posts
    <3> QED
      BY <2>3, <2>5, <2>8, <3>1, <3>2 DEF ProgressRun
  <2>9. CASE s.pc = "return"
    <3>1. s.at = p /\ s.last = r.last /\ ~(r.at < r.last)
      BY <2>1, <2>4, <2>9 DEF Turns, Stays
    <3>2. \A q \in Posts : Disposed(q)'
      BY <1>0, <2>4, <2>5, <3>1, ThreadDone
    <3> QED
      BY <2>3, <2>5, <2>9, <3>1, <3>2 DEF ProgressRun
  <2> QED
    BY <2>1, <2>8, <2>9 DEF Turns
<1>10. CASE Begin(w, 0) \/ End(w) \/ Dies(w)
  BY <1>10, EnvironmentFacts DEF ProgressRun, Begun, ProgressInv
<1>11. CASE InPost(r) /\ InPost(s) /\ s.at = r.at /\ s.last = r.last /\ UNCHANGED post
  <2>1. \A q \in Posts : Disposed(q) => Disposed(q)'
    BY <1>3, <1>11
  <2> QED
    BY <1>1, <1>11, <2>1 DEF ProgressRun, InPost, Begun, ProgressInv
<1> QED
  BY <1>5, <1>6, <1>7, <1>8, <1>9, <1>10, <1>11, InnerStep DEF RunStepped

-----------------------------------------------------------------------------
(* The plan's limit of published posts.                                    *)

Complete(p) == \A a \in Accounts : dest[p][a].status = "success"
Barred(p) == \E a \in Accounts : dest[p][a].status = "failed"

\* A post that is published, or will be at the end of the run that completed it.
Reckoned == {p \in Posts : post[p] = "published" \/ Complete(p)}
Reckoning(r) == Handling(r) \/ r.pc \in {"finalize", "conclude", "count"}
Room(p) == Cardinality(Reckoned \cup {p}) <= PublishedLimit + faults

\* What is reckoned was counted, but for the post in hand.
Paid(r) ==
  /\ (IF Reckoning(r) THEN Cardinality(Reckoned \ {r.at}) ELSE Cardinality(Reckoned)) <= published + faults
  /\ r.pc = "conclude" /\ r.verdict = "empty" => Cardinality(Reckoned \cup {r.at}) <= published + faults

\* The plan has room for the post in hand, or it will not be published.
Admitted(r) ==
  /\ r.pc \in {"block", "quota", "reject"} => Room(r.at) \/ r.todo # {} \/ Barred(r.at)
  /\ r.pc = "next" => Room(r.at) \/ (r.todo = {} /\ Barred(r.at))
  /\ InHand(r) => Room(r.at)
  /\ r.pc = "finalize" => Room(r.at) \/ Barred(r.at)
  /\ r.pc = "conclude" => IF r.verdict = "failed" THEN ~Complete(r.at) ELSE Room(r.at)

PlanInv ==
  /\ \A p \in Posts, a \in Accounts : dest[p][a].status # "none"
  /\ Cardinality(Reckoned) <= PublishedLimit + faults
  /\ \A w \in Workers : Paid(run[w]) /\ Admitted(run[w])

LEMMA ReckonedFinite ==
  ASSUME NEW p \in Posts
  PROVE  LET c == Cardinality(Reckoned)
             d == Cardinality(Reckoned \ {p})
             e == Cardinality(Reckoned \cup {p})
         IN  c \in Nat /\ d \in Nat /\ e \in Nat /\ d <= c /\ c <= e /\ e <= d + 1
<1> DEFINE D == Reckoned \ {p}
           E == Reckoned \cup {p}
<1>1. IsFiniteSet(Posts)
  BY FS_Interval, PublisherAssumption DEF Posts
<1>2. IsFiniteSet(E) /\ IsFiniteSet(Reckoned) /\ IsFiniteSet(D)
  <2>1. E \subseteq Posts /\ Reckoned \subseteq Posts /\ D \subseteq Posts
    BY DEF Reckoned
  <2> QED
    BY <1>1, <2>1, FS_Subset
<1>3. E = D \cup {p} /\ Reckoned \subseteq E /\ D \subseteq Reckoned
  OBVIOUS
<1> HIDE DEF D, E
<1>4. Cardinality(E) <= Cardinality(D) + 1
  BY <1>2, <1>3, AddOne
<1>5. Cardinality(Reckoned) <= Cardinality(E) /\ Cardinality(D) <= Cardinality(Reckoned)
  BY <1>2, <1>3, SubsetCount
<1>6. Cardinality(Reckoned) \in Nat /\ Cardinality(D) \in Nat /\ Cardinality(E) \in Nat
  BY <1>2, FS_CardinalityType
<1> QED
  BY <1>4, <1>5, <1>6 DEF D, E

\* What a failed statement and a crash cost.
Costs(w) ==
  /\ UNCHANGED <<post, dest, published>>
  /\ faults' = faults + 1
  /\ ~Reckoning(run'[w]) \/ run'[w].at = run[w].at
  /\ run'[w].pc = "conclude" => run'[w].verdict # "failed"

LEMMA CostsPlan ==
  ASSUME OneWorker, DupInv, PlanInv, NEW w \in Workers, Costs(w), run'[w].at \in Posts
  PROVE  PlanInv'
<1> DEFINE r == run[w]
           s == run'[w]
           c == Cardinality(Reckoned)
           d(p) == Cardinality(Reckoned \ {p})
           e(p) == Cardinality(Reckoned \cup {p})
<1>0. /\ r.at \in Posts /\ faults \in Nat /\ published \in Nat /\ faults' = faults + 1 /\ PublishedLimit \in Nat
      /\ UNCHANGED <<post, dest, published>>
      /\ ~Reckoning(s) \/ s.at = r.at
      /\ s.pc = "conclude" => s.verdict # "failed"
  BY RunFacts, PublisherAssumption DEF Costs, DupInv, PublisherTypeOK
<1>1. Reckoned' = Reckoned
  BY <1>0 DEF Reckoned, Complete
<1>2. ASSUME NEW p \in Posts
      PROVE  c \in Nat /\ d(p) \in Nat /\ e(p) \in Nat /\ d(p) <= c /\ c <= e(p) /\ e(p) <= d(p) + 1
  BY ReckonedFinite
<1>3. c <= PublishedLimit + faults /\ (\A p \in Posts, a \in Accounts : dest[p][a].status # "none")
      /\ (IF Reckoning(r) THEN d(r.at) ELSE c) <= published + faults
  BY DEF PlanInv, Paid
<1> HIDE DEF c, d, e
<1>4. \A p \in Posts : e(p) <= PublishedLimit + (faults + 1)
  BY <1>0, <1>2, <1>3
<1>5. c <= published + (faults + 1)
  BY <1>0, <1>2, <1>3
<1>6. d(s.at) <= published + (faults + 1)
  BY <1>0, <1>2, <1>5
<1>7. s.at = r.at => e(s.at) <= published + (faults + 1)
  <2>1. CASE Reckoning(r)
    BY <1>0, <1>2, <1>3, <2>1
  <2>2. CASE ~Reckoning(r)
    BY <1>0, <1>2, <1>3, <2>2
  <2> QED
    BY <2>1, <2>2
<1>8. Paid(run[w])'
  <2>1. Reckoning(s) => s.at = r.at
    BY <1>0
  <2>2. s.pc = "conclude" => s.at = r.at
    BY <2>1 DEF Reckoning
  <2>3. (IF Reckoning(s) THEN d(s.at) ELSE c) <= published + (faults + 1)
    BY <1>5, <1>6
  <2>4. s.pc = "conclude" /\ s.verdict = "empty" => e(s.at) <= published + (faults + 1)
    BY <1>7, <2>2
  <2> QED
    BY <1>0, <1>1, <2>3, <2>4 DEF Paid, c, d, e, Reckoning, Handling, Choosing, InHand
<1>9. Room(run[w].at)'
  BY <1>0, <1>1, <1>4 DEF Room, e
<1>10. Admitted(run[w])'
  BY <1>0, <1>9 DEF Admitted
<1>11. Cardinality(Reckoned') <= PublishedLimit + faults'
  BY <1>0, <1>1, <1>2, <1>3 DEF c
<1> QED
  BY <1>0, <1>3, <1>8, <1>10, <1>11, OnlyWorker DEF PlanInv

LEMMA ReturnFields ==
  ASSUME DupInv, NEW w \in Workers, Return(w, TRUE)
  PROVE  run'[w].pc = "return" /\ run'[w].at = run[w].at
  BY RunFacts DEF Return, Run

\* Every fault but the one that cuts the thread short.
LEMMA FaultCosts ==
  ASSUME DupInv, NEW w \in Workers, StepFault(w) \/ Crash(w), ~LoadThreadError(w)
  PROVE  Costs(w)
<1> DEFINE r == run[w]
           s == run'[w]
<1>0. r \in Run
  BY RunFacts
<1> SUFFICES /\ UNCHANGED <<post, dest, published>> /\ faults' = faults + 1
             /\ ~Reckoning(s) \/ s.at = r.at
             /\ s.pc = "conclude" => s.verdict # "failed"
  BY DEF Costs
<1> USE DEF Reckoning, Handling, Choosing, InHand
<1>1. CASE LoadError(w) \/ MarkPublishingError(w)
  <2>1. LoadError(w) => s.pc = "return"
    BY ReturnFields DEF LoadError
  <2>2. ASSUME MarkPublishingError(w) PROVE s.pc = "dests"
    <3>1. PICK n \in Posts : run' = [run EXCEPT ![w] = [r EXCEPT !.pc = "dests", !.last = n]]
      BY <2>2 DEF MarkPublishingError, Become
    <3>2. s = [r EXCEPT !.pc = "dests", !.last = n]
      BY <3>1, BecomeRun
    <3> QED
      BY <1>0, <3>2 DEF Run
  <2>3. s.pc \in {"return", "dests"}
    BY <1>1, <2>1, <2>2
  <2> QED
    BY <1>1, <2>3 DEF LoadError, MarkPublishingError, DbFault, Fault, dbVars
<1>2. CASE LoadDestsError(w)
  <2>1. s.pc \in {"return", "finalize"} /\ s.at = r.at
    <3>1. CASE Return(w, TRUE)
      BY <3>1, ReturnFields
    <3>2. CASE Become(w, [r EXCEPT !.pc = "finalize", !.okNow = r.ok])
      <4> DEFINE o == r.ok
      <4>1. run' = [run EXCEPT ![w] = [r EXCEPT !.pc = "finalize", !.okNow = o]]
        BY <3>2 DEF Become
      <4> HIDE DEF o
      <4>2. s = [r EXCEPT !.pc = "finalize", !.okNow = o]
        BY <4>1, BecomeRun
      <4> QED
        BY <1>0, <4>2 DEF Run
    <3> QED
      BY <1>2, <3>1, <3>2 DEF LoadDestsError
  <2> QED
    BY <1>2, <2>1 DEF LoadDestsError, DbFault, Fault, dbVars
<1>3. CASE CheckPublishedQuotaError(w)
  <2>1. s.pc = "reject" /\ s.at = r.at
    BY <1>0, <1>3, RunFacts DEF CheckPublishedQuotaError, Become, Run
  <2> QED
    BY <1>3, <2>1 DEF CheckPublishedQuotaError, DbFault, Fault, dbVars
<1>4. ASSUME NEW a \in Accounts, PassOverError(w, a)
      PROVE  /\ UNCHANGED <<post, dest, published>> /\ faults' = faults + 1
             /\ s.at = r.at /\ s.pc # "conclude"
  <2>1. /\ UNCHANGED <<post, dest, published>> /\ faults' = faults + 1
        /\ \/ r.pc = "block" /\ run' = [run EXCEPT ![w] = AfterBlock(r, a)]
           \/ r.pc = "reject" /\ run' = [run EXCEPT ![w] = AfterReject(r, a)]
    BY <1>4 DEF PassOverError, DbFault, Fault, dbVars, At, Become
  <2>2. \/ r.pc = "block" /\ s = AfterBlock(r, a)
        \/ r.pc = "reject" /\ s = AfterReject(r, a)
    BY <2>1, BecomeRun
  <2>3. s.at = r.at /\ s.pc \in {"block", "quota", "reject", "finalize"}
    BY <1>0, <2>2, BlockFields, RejectFields DEF Stays
  <2> QED
    BY <2>1, <2>3
<1>5. CASE RecordWriteError(w) \/ SaveExternalIDError(w) \/ LoseReply(w) \/ AcceptWithoutID(w)
  <2>1. s.pc \in {"call", "saved", "failed"} /\ s.at = r.at
    BY <1>5, GotoFacts DEF RecordWriteError, SaveExternalIDError, LoseReply, AcceptWithoutID, Pass, Stays
  <2> QED
    BY <1>5, <2>1 DEF RecordWriteError, SaveExternalIDError, LoseReply, AcceptWithoutID, DbFault, Fault, dbVars
<1>6. CASE MarkError(w)
  <2>1. run' = [run EXCEPT ![w] = AfterSuccess(r)] \/ run' = [run EXCEPT ![w] = AfterFailure(r)]
    BY <1>6 DEF MarkError, Become
  <2>2. s = AfterSuccess(r) \/ s = AfterFailure(r)
    BY <2>1, BecomeRun
  <2>3. s.pc = "next" /\ s.at = r.at
    BY <1>0, <2>2, HandFields DEF Stays
  <2> QED
    BY <1>6, <2>3 DEF MarkError, DbFault, Fault, dbVars
<1>7. CASE CountDestsError(w)
  <2> DEFINE o == r.okNow
  <2>1. PICK v \in {"empty", "published"} :
          run' = [run EXCEPT ![w] = [r EXCEPT !.pc = "conclude", !.verdict = v, !.ok = o]]
    BY <1>7 DEF CountDestsError, Become
  <2> HIDE DEF o
  <2>2. s = [r EXCEPT !.pc = "conclude", !.verdict = v, !.ok = o]
    BY <2>1, BecomeRun
  <2>3. s.pc = "conclude" /\ s.at = r.at /\ s.verdict = v
    BY <1>0, <2>2 DEF Run
  <2> QED
    BY <1>7, <2>1, <2>3 DEF CountDestsError, DbFault, Fault, dbVars
<1>8. CASE ConcludeError(w)
  <2>1. run' = [run EXCEPT ![w] = NextPost(r)]
    BY <1>8 DEF ConcludeError, Become
  <2>2. s = NextPost(r)
    BY <2>1, BecomeRun
  <2>3. s.pc \in {"dests", "return"}
    BY <1>0, <2>2, NextPostRun
  <2> QED
    BY <1>8, <2>3 DEF ConcludeError, DbFault, Fault, dbVars
<1>9. CASE Crash(w)
  <2>1. s.pc \in {"idle", "load"}
    BY <1>9, EnvironmentFacts DEF Crash, Dies, Fault
  <2> QED
    BY <1>9, <2>1 DEF Crash, Fault, dbVars
<1> QED
  BY <1>1, <1>2, <1>3, <1>4, <1>5, <1>6, <1>7, <1>8, <1>9 DEF StepFault

LEMMA FromSaved ==
  ASSUME NEW w \in Workers, Step(w) \/ Begin(w, 0) \/ End(w), run[w].pc = "saved"
  PROVE  MarkSuccess(w)
  BY DEF Step, Begin, End, At, Load, MarkPublishing, LoadDests, CheckPublishedQuota, EndDests, Block, Reject,
     Prepare, PrepareError, Skip, RecordWrite, Accept, Refuse, Expired, SaveExternalID, MarkFailed, CountDests, Conclude,
     CountPublished

\* The steps without a fault.
LEMMA ReckonedStep ==
  ASSUME DupInv, NEW w \in Workers, Step(w) \/ Begin(w, 0) \/ End(w)
  PROVE  LET p == run[w].at
         IN  /\ Reckoned' \ {p} = Reckoned \ {p}
             /\ Reckoned' \cup {p} = Reckoned \cup {p}
             /\ \/ Reckoned' \subseteq Reckoned
                \/ MarkSuccess(w) \/ (Conclude(w) /\ run[w].verdict # "failed")
<1> DEFINE r == run[w]
           p == r.at
<1>0. /\ r \in Run /\ p \in Posts /\ dest \in [Posts -> [Accounts -> DestRow]]
      /\ post \in [Posts -> PostStatus]
  BY RunFacts DEF DupInv, PublisherTypeOK
<1>a. RunStepped(w)
  BY DEF RunStepped
<1>1. \A q \in Posts : q # p => (Complete(q)' <=> Complete(q))
  BY <1>a, StepWrites DEF Writes, SilentBut, Complete
<1>2. /\ \A q \in Posts : q # p => post'[q] = post[q]
      /\ post'[p] = "published" => post[p] = "published" \/ (Conclude(w) /\ r.verdict # "failed")
  <2>1. CASE UNCHANGED post
    BY <2>1
  <2>2. CASE MarkPublishing(w)
    <3>1. SetPost(p, "publishing")
      BY <2>2, MarkFacts
    <3> QED
      BY <1>0, <3>1 DEF SetPost
  <2>3. CASE Conclude(w)
    <3>1. SetPost(p, IF r.verdict = "failed" THEN "failed" ELSE "published")
      BY <2>3, ConcludeFacts
    <3> QED
      BY <1>0, <2>3, <3>1 DEF SetPost
  <2> QED
    BY <1>a, <2>1, <2>2, <2>3, StepFrame
<1>3. \A q \in Posts : q # p => (q \in Reckoned' <=> q \in Reckoned)
  BY <1>1, <1>2 DEF Reckoned
<1>4. Reckoned' \subseteq Posts /\ Reckoned \subseteq Posts
  BY DEF Reckoned
<1>5. ASSUME NEW q \in Posts, Complete(q)', ~Complete(q) PROVE MarkSuccess(w)
  <2>1. PICK a \in Accounts : dest[q][a].status # "success"
    BY <1>5 DEF Complete
  <2>2. dest'[q][a].status = "success"
    BY <1>5 DEF Complete
  <2>3. q = p /\ Writes(w, a)
    BY <1>a, <2>1, <2>2, StepWrites DEF Writes, SilentBut
  <2>4. r.pc = "saved"
    BY <2>2, <2>1, <2>3 DEF Writes
  <2> QED
    BY <2>4, FromSaved
<1>6. ASSUME p \in Reckoned', p \notin Reckoned PROVE MarkSuccess(w) \/ (Conclude(w) /\ r.verdict # "failed")
  <2>1. PICK q \in Posts : q = p
    BY <1>0
  <2>2. post[q] # "published" /\ ~Complete(q)
    BY <1>6, <2>1 DEF Reckoned
  <2>3. q \in Reckoned'
    BY <1>6, <2>1
  <2>4. CASE post'[q] = "published"
    BY <1>2, <2>1, <2>2, <2>4
  <2>5. CASE Complete(q)'
    BY <1>5, <2>2, <2>5
  <2> QED
    BY <2>3, <2>4, <2>5 DEF Reckoned
<1> QED
  BY <1>3, <1>4, <1>6

LEMMA MoreFaults ==
  \A x, y, f, g \in Nat : g >= f /\ x <= y + f => x <= y + g
  OBVIOUS

LEMMA FewerPosts ==
  \A x, y, z, f \in Nat : x <= y /\ y <= z + f => x <= z + f
  OBVIOUS

LEMMA OneMorePost ==
  \A x, y, z, f, g \in Nat : x <= y + 1 /\ y <= z + f /\ g >= f => x <= z + 1 + g
  OBVIOUS

\* The numbers after a step without a fault.
LEMMA PlanNumbers ==
  ASSUME OneWorker, DupInv, PlanInv, NEW w \in Workers, Step(w) \/ Begin(w, 0) \/ End(w)
  PROVE  LET p == run[w].at
         IN  /\ Cardinality(Reckoned' \ {p}) = Cardinality(Reckoned \ {p})
             /\ Cardinality(Reckoned' \cup {p}) = Cardinality(Reckoned \cup {p})
             /\ Cardinality(Reckoned') \in Nat
             /\ Cardinality(Reckoned') <= Cardinality(Reckoned \cup {p})
             /\ Cardinality(Reckoned') <= PublishedLimit + faults'
             /\ \/ Cardinality(Reckoned') <= Cardinality(Reckoned)
                \/ MarkSuccess(w) \/ (Conclude(w) /\ run[w].verdict # "failed")
<1> DEFINE r == run[w]
           p == r.at
           C == Reckoned
           N == Reckoned'
           E == Reckoned \cup {p}
<1>0. /\ p \in Posts /\ faults \in Nat /\ faults' \in Nat /\ faults' >= faults /\ PublishedLimit \in Nat
  BY RunFacts, StepFrame, PublisherAssumption DEF RunStepped
<1>1. /\ N \ {p} = C \ {p} /\ N \cup {p} = E
      /\ N \subseteq C \/ MarkSuccess(w) \/ (Conclude(w) /\ r.verdict # "failed")
  BY ReckonedStep
<1>2. IsFiniteSet(E) /\ IsFiniteSet(C)
  <2>1. IsFiniteSet(Posts)
    BY FS_Interval, PublisherAssumption DEF Posts
  <2>2. E \subseteq Posts /\ C \subseteq Posts
    BY <1>0 DEF Reckoned
  <2> QED
    BY <2>1, <2>2, FS_Subset
<1>3. N \subseteq E
  BY <1>1
<1>4. Cardinality(N) \in Nat /\ Cardinality(E) \in Nat /\ Cardinality(N) <= Cardinality(E)
  BY <1>2, <1>3, SubsetCount
<1>5. N \subseteq C => Cardinality(N) <= Cardinality(C) /\ Cardinality(C) \in Nat
  BY <1>2, SubsetCount
<1>6. Cardinality(C) <= PublishedLimit + faults /\ Admitted(r)
  BY DEF PlanInv
<1>7. Cardinality(N) <= PublishedLimit + faults'
  <2>1. CASE N \subseteq C
    BY <1>0, <1>4, <1>5, <1>6, <2>1
  <2>2. CASE MarkSuccess(w)
    <3>1. Room(p)
      BY <1>6, <2>2, MarkSuccessFacts DEF Admitted, InHand
    <3> QED
      BY <1>0, <1>4, <3>1 DEF Room
  <2>3. CASE Conclude(w) /\ r.verdict # "failed"
    <3>1. Room(p)
      BY <1>6, <2>3, ConcludeFacts DEF Admitted
    <3> QED
      BY <1>0, <1>4, <3>1 DEF Room
  <2> QED
    BY <1>1, <2>1, <2>2, <2>3
<1> QED
  BY <1>1, <1>4, <1>5, <1>7

\* Where a step without a fault may lead.
LEMMA StepMoves ==
  ASSUME DupInv, NEW w \in Workers, Step(w) \/ Begin(w, 0) \/ End(w)
  PROVE  LET r == run[w]
             s == run'[w]
         IN  \/ ~Reckoning(r) /\ ~Reckoning(s)
             \/ s.at = r.at /\ Reckoning(s) /\ (s.pc = "conclude" => CountDests(w))
             \/ ~Reckoning(s) /\ Conclude(w) /\ r.verdict # "published"
             \/ ~Reckoning(s) /\ CountPublished(w)
<1> DEFINE r == run[w]
           s == run'[w]
<1> USE DEF Reckoning, Handling, Choosing, InHand
<1>1. CASE Load(w)
  BY <1>1, LoadFacts
<1>2. CASE MarkPublishing(w)
  BY <1>2, MarkFacts
<1>3. CASE LoadDests(w)
  BY <1>3, LoadDestsFacts DEF Stays
<1>4. CASE CheckPublishedQuota(w)
  BY <1>4, QuotaFacts DEF Stays
<1>5. CASE EndDests(w)
  BY <1>5, EndDestsFacts DEF Pass, Stays
<1>6. CASE RecordWrite(w) \/ Refuse(w) \/ Expired(w)
  BY <1>6, RecordFacts, RefuseFacts, ExpiredFacts DEF Pass, Stays
<1>7. CASE Accept(w) \/ SaveExternalID(w)
  BY <1>7, AppearFacts, SaveFacts DEF Pass, Stays
<1>8. CASE MarkSuccess(w) \/ MarkFailed(w)
  BY <1>8, MarkSuccessFacts, MarkFailedFacts DEF Stays
<1>9. CASE CountDests(w)
  BY <1>9, CountDestsFacts
<1>10. CASE Conclude(w)
  BY <1>10, ConcludeFacts DEF Turns, Stays
<1>11. CASE CountPublished(w)
  BY <1>11, CountPublishedFacts DEF Turns
<1>12. CASE Begin(w, 0) \/ End(w)
  <2>1. r.pc \in {"idle", "return"}
    BY <1>12 DEF Begin, End, At
  <2>2. s.pc \in {"idle", "load"}
    BY <1>12, EnvironmentFacts
  <2> QED
    BY <2>1, <2>2
<1>13. ASSUME NEW a \in Accounts, Block(w, a) PROVE s.at = r.at /\ s.pc \in {"block", "quota"}
  BY <1>13, BlockFacts DEF Stays
<1>14. ASSUME NEW a \in Accounts, Reject(w, a) PROVE s.at = r.at /\ s.pc \in {"reject", "finalize"}
  BY <1>14, RejectFacts DEF Stays
<1>15. ASSUME NEW a \in Accounts, Prepare(w, a) \/ PrepareError(w, a) \/ Skip(w, a)
       PROVE  s.at = r.at /\ InHand(s)
  BY <1>15, PrepareFacts, PrepareErrorFacts, SkipFacts DEF Taken, Stays
<1> QED
  BY <1>1, <1>2, <1>3, <1>4, <1>5, <1>6, <1>7, <1>8, <1>9, <1>10, <1>11, <1>12, <1>13, <1>14, <1>15 DEF Step

LEMMA PaidKept ==
  ASSUME OneWorker, Accounts # {}, DupInv, PlanInv, NEW w \in Workers, Step(w) \/ Begin(w, 0) \/ End(w)
  PROVE  Paid(run[w])'
<1> DEFINE r == run[w]
           s == run'[w]
           p == r.at
           c == Cardinality(Reckoned)
           d == Cardinality(Reckoned \ {p})
           e == Cardinality(Reckoned \cup {p})
           c2 == Cardinality(Reckoned')
           d2 == Cardinality(Reckoned' \ {p})
           e2 == Cardinality(Reckoned' \cup {p})
<1>0. /\ p \in Posts /\ faults \in Nat /\ faults' \in Nat /\ faults' >= faults /\ published \in Nat
      /\ published' = published \/ CountPublished(w)
  BY RunFacts, StepFrame DEF RunStepped, DupInv, PublisherTypeOK
<1>1. c \in Nat /\ d \in Nat /\ e \in Nat /\ d <= c /\ c <= e /\ e <= d + 1
  BY <1>0, ReckonedFinite
<1>2. /\ d2 = d /\ e2 = e /\ c2 \in Nat /\ c2 <= e
      /\ c2 <= c \/ MarkSuccess(w) \/ (Conclude(w) /\ r.verdict # "failed")
  BY PlanNumbers
<1>3. /\ (IF Reckoning(r) THEN d ELSE c) <= published + faults
      /\ r.pc = "conclude" /\ r.verdict = "empty" => e <= published + faults
      /\ r.pc = "conclude" /\ r.verdict = "failed" => ~Complete(p)
  BY DEF PlanInv, Paid, Admitted
<1> SUFFICES /\ (IF Reckoning(s) THEN Cardinality(Reckoned' \ {s.at}) ELSE c2) <= published' + faults'
             /\ s.pc = "conclude" /\ s.verdict = "empty" => Cardinality(Reckoned' \cup {s.at}) <= published' + faults'
  BY DEF Paid, Reckoning, Handling, Choosing, InHand
<1>8. ASSUME ~Reckoning(s), c2 <= published' + faults'
      PROVE  /\ (IF Reckoning(s) THEN Cardinality(Reckoned' \ {s.at}) ELSE c2) <= published' + faults'
             /\ s.pc = "conclude" /\ s.verdict = "empty" => Cardinality(Reckoned' \cup {s.at}) <= published' + faults'
  <2>1. s.pc # "conclude"
    BY <1>8 DEF Reckoning
  <2> HIDE DEF c2, s
  <2> QED
    BY <1>8, <2>1
<1>4. CASE ~Reckoning(r) /\ ~Reckoning(s)
  <2>1. ~MarkSuccess(w) /\ ~Conclude(w) /\ ~CountPublished(w)
    BY <1>4, MarkSuccessFacts, ConcludeFacts, CountPublishedFacts DEF Reckoning, Handling, InHand
  <2>2. s.pc # "conclude"
    BY <1>4 DEF Reckoning
  <2> HIDE DEF c, d, e, c2, d2, e2, r, s, p
  <2> QED
    BY <1>0, <1>1, <1>2, <1>3, <1>4, <2>1, <2>2
<1>5. CASE s.at = r.at /\ Reckoning(s) /\ (s.pc = "conclude" => CountDests(w))
  <2>1. s.pc = "conclude" => s.verdict # "empty"
    <3>1. CountDests(w) => s.verdict = Verdict(p)
      BY CountDestsFacts
    <3>2. Rows(p) # {}
      BY <1>0 DEF PlanInv, Rows
    <3>3. Verdict(p) # "empty"
      BY <3>2 DEF Verdict
    <3> QED
      BY <1>5, <3>1, <3>3
  <2>2. d <= published + faults
    BY <1>0, <1>1, <1>3
  <2>3. published' >= published /\ published' \in Nat
    BY <1>0, CountPublishedFacts
  <2>4. d2 <= published' + faults'
    <3> HIDE DEF d, d2
    <3> QED
      BY <1>0, <1>1, <1>2, <2>2, <2>3
  <2> QED
    BY <1>5, <2>1, <2>4
<1>6. CASE ~Reckoning(s) /\ Conclude(w) /\ r.verdict # "published"
  <2>1. /\ r.pc = "conclude" /\ SetPost(p, IF r.verdict = "failed" THEN "failed" ELSE "published")
        /\ UNCHANGED <<dest, published>> /\ s.pc # "conclude"
    BY <1>6, ConcludeFacts DEF Turns, Reckoning
  <2>2. r.verdict \in {"empty", "failed"}
    BY <1>6, RunFacts DEF Run
  <2>5. published' = published /\ s.pc # "conclude"
    BY <2>1
  <2>3. CASE r.verdict = "empty"
    <3>1. e <= published + faults
      BY <1>3, <2>1, <2>3
    <3> HIDE DEF c, d, e, c2, d2, e2
    <3>2. c2 <= published + faults'
      <4>1. e <= published + faults'
        BY <1>0, <1>1, <3>1, MoreFaults
      <4>2. c2 <= e /\ c2 \in Nat /\ e \in Nat
        BY <1>1, <1>2
      <4>3. published \in Nat /\ faults' \in Nat
        BY <1>0
      <4> QED
        BY <4>1, <4>2, <4>3, FewerPosts
    <3> QED
      <4>1. ~Reckoning(s) /\ c2 <= published' + faults'
        BY <1>6, <2>5, <3>2
      <4> QED
        BY <4>1, <1>8
  <2>4. CASE r.verdict = "failed"
    <3>1. p \notin Reckoned'
      <4>1. PICK q \in Posts : q = p
        BY <1>0
      <4>2. Complete(q)' <=> Complete(q)
        BY <2>1 DEF Complete
      <4>3. post'[q] # "published"
        BY <1>0, <2>1, <2>4, <4>1 DEF SetPost, DupInv, PublisherTypeOK
      <4>4. ~Complete(q)'
        BY <1>3, <2>1, <2>4, <4>1, <4>2
      <4>5. q \notin Reckoned'
        BY <4>3, <4>4 DEF Reckoned
      <4> QED
        BY <4>1, <4>5
    <3>2. Reckoned' = Reckoned' \ {p}
      BY <3>1
    <3>3. c2 = d
      BY <1>2, <3>2
    <3>4. Reckoning(r)
      BY <2>1 DEF Reckoning
    <3>6. d <= published + faults
      BY <1>3, <3>4
    <3> HIDE DEF c, d, e, c2, d2, e2
    <3>5. c2 <= published + faults'
      <4>1. published \in Nat /\ faults \in Nat /\ faults' \in Nat /\ faults' >= faults /\ d \in Nat
        BY <1>0, <1>1
      <4>2. d <= published + faults'
        BY <4>1, <3>6, MoreFaults
      <4> QED
        BY <4>2, <3>3
    <3> QED
      <4>1. ~Reckoning(s) /\ c2 <= published' + faults'
        BY <1>6, <2>5, <3>5
      <4> QED
        BY <4>1, <1>8
  <2> QED
    BY <2>2, <2>3, <2>4
<1>7. CASE ~Reckoning(s) /\ CountPublished(w)
  <2>1. r.pc = "count" /\ published' = published + 1
    BY <1>7, CountPublishedFacts
  <2>2. Reckoning(r)
    BY <2>1 DEF Reckoning
  <2> HIDE DEF c, d, e, c2, d2, e2
  <2>3. d <= published + faults
    BY <1>3, <2>2
  <2>4. c2 <= d + 1
    BY <1>1, <1>2
  <2>5. c2 <= published + 1 + faults'
    BY <1>0, <1>1, <1>2, <2>3, <2>4, OneMorePost
  <2>6. c2 <= published' + faults'
    BY <2>1, <2>5
  <2> QED
    BY <1>7, <1>8, <2>6
<1> QED
  BY <1>4, <1>5, <1>6, <1>7, StepMoves

LEMMA AdmittedKept ==
  ASSUME OneWorker, DupInv, DupInv', PlanInv, NEW w \in Workers, Step(w) \/ Begin(w, 0) \/ End(w)
  PROVE  Admitted(run[w])'
<1> DEFINE r == run[w]
           s == run'[w]
           p == r.at
           d == Cardinality(Reckoned \ {p})
           e == Cardinality(Reckoned \cup {p})
           RoomNow == Cardinality(Reckoned' \cup {s.at}) <= PublishedLimit + faults'
           BarredNow == \E a \in Accounts : dest'[s.at][a].status = "failed"
           CompleteNow == \A a \in Accounts : dest'[s.at][a].status = "success"
<1>0. /\ p \in Posts /\ faults \in Nat /\ faults' \in Nat /\ faults' >= faults /\ PublishedLimit \in Nat
      /\ r \in Run /\ dest \in [Posts -> [Accounts -> DestRow]] /\ r.todo \subseteq Accounts /\ published \in Nat
  BY RunFacts, StepFrame, PublisherAssumption DEF RunStepped, DupInv, PublisherTypeOK
<1>1. Admitted(r) /\ (Reckoning(r) => d <= published + faults)
      /\ Cardinality(Reckoned) <= PublishedLimit + faults
      /\ \A q \in Posts, a \in Accounts : dest[q][a].status # "none"
  BY DEF PlanInv, Paid
<1>2. s.at = p /\ Room(p) => RoomNow
  <2> SUFFICES ASSUME s.at = p, Room(p) PROVE RoomNow
    OBVIOUS
  <2>1. Cardinality(Reckoned' \cup {p}) = e /\ e \in Nat
    BY <1>0, PlanNumbers, ReckonedFinite
  <2> HIDE DEF e
  <2>2. e <= PublishedLimit + faults
    BY DEF Room, e
  <2> QED
    BY <1>0, <2>1, <2>2
<1>3. s.at = p /\ UNCHANGED dest => (Barred(p) => BarredNow) /\ (~Complete(p) => ~CompleteNow)
  BY DEF Barred, Complete
<1> SUFFICES /\ s.pc \in {"block", "quota", "reject"} => RoomNow \/ s.todo # {} \/ BarredNow
             /\ s.pc = "next" => RoomNow \/ (s.todo = {} /\ BarredNow)
             /\ InHand(s) => RoomNow
             /\ s.pc = "finalize" => RoomNow \/ BarredNow
             /\ s.pc = "conclude" => IF s.verdict = "failed" THEN ~CompleteNow ELSE RoomNow
  BY DEF Admitted, Room, Barred, Complete, InHand
<1> HIDE DEF RoomNow, BarredNow, CompleteNow
<1> USE DEF InHand
<1>4. CASE LoadDests(w)
  <2>1. /\ s.at = p /\ s.todo = Open(p) /\ s.pc \in {"finalize", "block", "quota"}
        /\ s.pc = "finalize" => s.todo = {}
    BY <1>4, LoadDestsFacts DEF Stays
  <2>2. ASSUME Open(p) = {} PROVE Room(p)
    <3>1. Complete(p)
      <4> SUFFICES ASSUME NEW a \in Accounts PROVE dest[p][a].status = "success"
        BY DEF Complete
      <4>1. dest[p][a].status \in {"none", "pending", "failed", "success"} /\ dest[p][a].status # "none"
        BY <1>0, <1>1 DEF DestRow
      <4>2. dest[p][a].status \notin {"pending", "failed"}
        BY <2>2 DEF Open
      <4> QED
        BY <4>1, <4>2
    <3>2. Reckoned \cup {p} = Reckoned
      BY <1>0, <3>1 DEF Reckoned
    <3> QED
      BY <1>1, <3>2 DEF Room
  <2> QED
    BY <1>2, <2>1, <2>2
<1>5. CASE CheckPublishedQuota(w)
  <2>1. /\ r.pc = "quota" /\ s.at = p /\ s.todo = r.todo /\ UNCHANGED dest
        /\ \/ s.pc = "next" /\ (r.todo = {} \/ published < PublishedLimit)
           \/ s.pc = "reject" /\ r.todo # {}
    BY <1>5, QuotaFacts DEF Stays, Silent
  <2>2. CASE r.todo = {}
    BY <1>1, <1>2, <1>3, <2>1, <2>2 DEF Admitted
  <2>3. CASE published < PublishedLimit
    <3>1. d \in Nat /\ e \in Nat /\ e <= d + 1
      BY <1>0, ReckonedFinite
    <3>2. d <= published + faults
      BY <1>1, <2>1 DEF Reckoning, Handling, Choosing
    <3>3. Room(p)
      <4>1. e <= PublishedLimit + faults
        <5> HIDE DEF d, e
        <5> QED
          BY <1>0, <2>3, <3>1, <3>2
      <4> QED
        BY <4>1 DEF Room
    <3> QED
      BY <1>2, <2>1, <3>3
  <2> QED
    BY <2>1, <2>2, <2>3
<1>6. CASE EndDests(w)
  <2>1. r.pc = "next" /\ s.pc = "finalize" /\ s.at = p /\ UNCHANGED dest
    BY <1>6, EndDestsFacts DEF Pass, Stays, Silent
  <2> QED
    BY <1>1, <1>2, <1>3, <2>1 DEF Admitted
<1>7. CASE RecordWrite(w) \/ Refuse(w) \/ Expired(w) \/ Accept(w) \/ SaveExternalID(w) \/ MarkSuccess(w) \/ MarkFailed(w)
  <2>1. InHand(r) /\ s.at = p /\ (InHand(s) \/ s.pc = "next")
    BY <1>7, RecordFacts, RefuseFacts, ExpiredFacts, AppearFacts, SaveFacts, MarkSuccessFacts, MarkFailedFacts DEF Pass, Stays
  <2>2. Room(p)
    BY <1>1, <2>1 DEF Admitted
  <2> QED
    BY <1>2, <2>1, <2>2
<1>8. CASE CountDests(w)
  <2>1. r.pc = "finalize" /\ s.pc = "conclude" /\ s.at = p /\ s.verdict = Verdict(p) /\ UNCHANGED dest
    BY <1>8, CountDestsFacts DEF Silent
  <2>2. CASE Barred(p)
    <3>1. Rows(p) # {} /\ \E a \in Rows(p) : dest[p][a].status = "failed"
      BY <2>2 DEF Barred, Rows
    <3>2. s.verdict = "failed"
      BY <2>1, <3>1 DEF Verdict
    <3>3. ~Complete(p)
      BY <2>2 DEF Barred, Complete
    <3> QED
      BY <1>3, <2>1, <3>2, <3>3
  <2>3. CASE ~Barred(p)
    <3>1. Room(p)
      BY <1>1, <2>1, <2>3 DEF Admitted
    <3>2. s.verdict # "failed"
      BY <2>1, <2>3 DEF Verdict, Rows, Barred
    <3> QED
      BY <1>2, <2>1, <3>1, <3>2
  <2> QED
    BY <2>2, <2>3
<1>9. ASSUME NEW a \in Accounts, Block(w, a) \/ Reject(w, a)
      PROVE  s.pc \in {"block", "quota", "reject", "finalize"} /\ BarredNow
  <2>1. s.at = p /\ dest'[p][a].status = "failed" /\ s.pc \in {"block", "quota", "reject", "finalize"}
    BY <1>9, BlockFacts, RejectFacts DEF Stays
  <2> QED
    BY <2>1 DEF BarredNow
<1>10. ASSUME NEW a \in Accounts, Prepare(w, a) \/ PrepareError(w, a) \/ Skip(w, a)
       PROVE  InHand(s) /\ RoomNow
  <2>1. Taken(r, s, a) /\ s.pc \in {"record", "failed", "saved"}
    BY <1>10, PrepareFacts, PrepareErrorFacts, SkipFacts
  <2>2. r.pc = "next" /\ r.todo # {} /\ s.at = p
    BY <2>1 DEF Taken, Stays
  <2>3. Room(p)
    BY <1>1, <2>2 DEF Admitted
  <2> QED
    BY <1>2, <2>1, <2>2, <2>3
<1>11. CASE Load(w) \/ MarkPublishing(w) \/ Conclude(w) \/ CountPublished(w) \/ Begin(w, 0) \/ End(w)
  <2>1. s.pc \in {"return", "mark", "dests", "count", "idle", "load"}
    BY <1>11, LoadFacts, MarkFacts, ConcludeFacts, CountPublishedFacts, EnvironmentFacts DEF Turns
  <2> QED
    BY <2>1
<1> QED
  BY <1>4, <1>5, <1>6, <1>7, <1>8, <1>9, <1>10, <1>11 DEF Step

\* The thread is taken to end too early: the post is marked as usual.
LEMMA CutPlan ==
  ASSUME OneWorker, DupInv, PlanInv, NEW w \in Workers, LoadThreadError(w)
  PROVE  PlanInv'
<1> DEFINE r == run[w]
           s == run'[w]
<1>0. r \in Run /\ r.at \in Posts /\ faults \in Nat /\ published \in Nat /\ PublishedLimit \in Nat
      /\ post \in [Posts -> PostStatus]
  BY RunFacts, PublisherAssumption DEF DupInv, PublisherTypeOK
<1>1. /\ r.pc = "mark" /\ faults' = faults + 2 /\ SetPost(r.at, "publishing")
      /\ UNCHANGED <<dest, published>>
  BY DEF LoadThreadError, At
<1>2. PICK n \in Posts : run' = [run EXCEPT ![w] = [r EXCEPT !.pc = "dests", !.last = n]]
  BY DEF LoadThreadError, Become
<1>3. s = [r EXCEPT !.pc = "dests", !.last = n]
  BY <1>2, BecomeRun
<1>4. s.pc = "dests"
  BY <1>0, <1>3 DEF Run
<1>5. Reckoned' \subseteq Reckoned
  <2>1. \A q \in Posts : post'[q] = "published" => post[q] = "published"
    BY <1>0, <1>1 DEF SetPost
  <2> QED
    BY <1>1, <2>1 DEF Reckoned, Complete
<1>6. IsFiniteSet(Reckoned)
  <2>1. IsFiniteSet(Posts)
    BY FS_Interval, PublisherAssumption DEF Posts
  <2>2. Reckoned \subseteq Posts
    BY DEF Reckoned
  <2> QED
    BY <2>1, <2>2, FS_Subset
<1>7. /\ Cardinality(Reckoned') \in Nat /\ Cardinality(Reckoned) \in Nat
      /\ Cardinality(Reckoned') <= Cardinality(Reckoned)
  BY <1>5, <1>6, SubsetCount
<1>8. Cardinality(Reckoned) <= PublishedLimit + faults /\ Cardinality(Reckoned) <= published + faults
  BY <1>1 DEF PlanInv, Paid, Reckoning, Handling, Choosing, InHand
<1>9. Cardinality(Reckoned') <= PublishedLimit + faults' /\ Cardinality(Reckoned') <= published' + faults'
  BY <1>0, <1>1, <1>7, <1>8
<1>10. Paid(run[w])'
  BY <1>4, <1>9 DEF Paid, Reckoning, Handling, Choosing, InHand
<1>11. Admitted(run[w])'
  BY <1>4 DEF Admitted, InHand
<1>12. \A p \in Posts, a \in Accounts : dest'[p][a].status # "none"
  BY <1>1 DEF PlanInv
<1> QED
  BY <1>9, <1>10, <1>11, <1>12, OnlyWorker DEF PlanInv

LEMMA InitPlanInv ==
  ASSUME Accounts # {}, PublisherInit
  PROVE  PlanInv
<1>1. \A w \in Workers : run[w] = Idle
  BY DEF PublisherInit, CreatedAs
<1>2. \A p \in Posts, a \in Accounts : dest[p][a] = NewDest
  BY DEF PublisherInit, CreatedAs
<1>3. published = 0 /\ faults = 0 /\ PublishedLimit \in Nat /\ \A p \in Posts : post[p] = "scheduled"
  BY PublisherAssumption DEF PublisherInit, CreatedAs
<1>4. Idle.pc = "idle" /\ NewDest.status = "pending"
  BY DEF Idle, NewDest
<1>5. Reckoned = {}
  BY <1>2, <1>3, <1>4 DEF Reckoned, Complete
<1>6. Cardinality(Reckoned) = 0
  BY <1>5, FS_EmptySet
<1> QED
  BY <1>1, <1>2, <1>3, <1>4, <1>6 DEF PlanInv, Paid, Admitted, Reckoning, Handling, Choosing, InHand

LEMMA NextPlan ==
  ASSUME OneWorker, Accounts # {}, DupInv, PlanInv, [PublisherNext]_pubVars
  PROVE  PlanInv'
<1>1. DupInv'
  BY NextDup
<1>2. ASSUME NEW w \in Workers, Step(w) \/ Begin(w, 0) \/ End(w) PROVE PlanInv'
  <2>1. Paid(run[w])' /\ Admitted(run[w])'
    BY <1>1, <1>2, PaidKept, AdmittedKept
  <2>2. Cardinality(Reckoned') <= PublishedLimit + faults'
    BY <1>2, PlanNumbers
  <2>3. \A p \in Posts, a \in Accounts : dest'[p][a].status # "none"
    <3> SUFFICES ASSUME NEW p \in Posts, NEW a \in Accounts PROVE dest'[p][a].status # "none"
      OBVIOUS
    <3>1. dest[p][a].status # "none"
      BY DEF PlanInv
    <3>2. CASE dest'[p][a] = dest[p][a]
      BY <3>1, <3>2
    <3>3. CASE dest'[p][a] # dest[p][a]
      <4>1. Writes(w, a) /\ p = run[w].at
        BY <1>2, <3>3, StepWrites DEF RunStepped, Writes, SilentBut
      <4> QED
        BY <3>1, <4>1 DEF Writes
    <3> QED
      BY <3>2, <3>3
  <2> QED
    BY <2>1, <2>2, <2>3, OnlyWorker DEF PlanInv
<1>3. ASSUME NEW w \in Workers, StepFault(w) \/ Crash(w) PROVE PlanInv'
  <2>1. run'[w].at \in Posts
    BY <1>1 DEF DupInv, PublisherTypeOK, Run
  <2> QED
    BY <1>3, <2>1, FaultCosts, CostsPlan, CutPlan
<1>4. CASE UNCHANGED pubVars
  <2>1. Reckoned' = Reckoned
    BY <1>4 DEF pubVars, Reckoned, Complete
  <2> QED
    BY <1>4, <2>1 DEF pubVars, PlanInv, Paid, Admitted, Room, Barred, Complete, Reckoning, Handling, Choosing, InHand
<1> QED
  BY <1>2, <1>3, <1>4 DEF PublisherNext, Deliver

\* One server: what is published or complete was counted, or the plan has room
\* for it, up to one post per fault. Failed statements are among the faults.
THEOREM PlanInvariant ==
  ASSUME OneWorker, Accounts # {}
  PROVE  PublisherSpec => []PlanInv
<1>1. DupInv /\ PlanInv /\ [PublisherNext]_pubVars => PlanInv'
  BY NextPlan
<1>2. PublisherInit => PlanInv
  BY InitPlanInv
<1> QED
  BY <1>1, <1>2, PublisherInvariant, PTL DEF PublisherSpec

\* No more posts are published than the plan allows, up to one per fault: the
\* quota is read before the post and counted after it.
THEOREM PlanLimitHolds ==
  ASSUME OneWorker, Accounts # {}
  PROVE  PublisherSpec => []PlanLimit
<1>1. DupInv /\ PlanInv => PlanLimit
  <2> SUFFICES ASSUME DupInv, PlanInv PROVE PlanLimit
    OBVIOUS
  <2> DEFINE S == {p \in Posts : post[p] = "published"}
  <2>1. faults \in Nat /\ PublishedLimit \in Nat
    BY PublisherAssumption DEF DupInv, PublisherTypeOK
  <2>2. S \subseteq Reckoned
    BY DEF Reckoned
  <2>3. IsFiniteSet(Reckoned)
    <3>1. IsFiniteSet(Posts)
      BY FS_Interval, PublisherAssumption DEF Posts
    <3>2. Reckoned \subseteq Posts
      BY DEF Reckoned
    <3> QED
      BY <3>1, <3>2, FS_Subset
  <2>4. Cardinality(S) \in Nat /\ Cardinality(Reckoned) \in Nat /\ Cardinality(S) <= Cardinality(Reckoned)
    BY <2>2, <2>3, SubsetCount
  <2>5. Cardinality(Reckoned) <= PublishedLimit + faults
    BY DEF PlanInv
  <2> QED
    BY <2>1, <2>4, <2>5 DEF PlanLimit
<1> QED
  BY <1>1, PlanInvariant, PublisherInvariant, PTL

=============================================================================
