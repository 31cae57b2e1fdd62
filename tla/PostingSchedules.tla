-------------------------- MODULE PostingSchedules ---------------------------
(* The weekly posting times of a workspace and the search for the next one  *)
(* that is free (handlers/posting_schedules.go, suggest_next_slot of the    *)
(* MCP server, "next-slot" of the command line).  The answer is only a      *)
(* suggestion: the client schedules its post with a second request.         *)
EXTENDS Naturals, FiniteSets, FiniteSetsExt

CONSTANTS
  ScheduleIds,
  Sets,       \* sets of accounts a posting time may be for
  AnySet,     \* no set: for every post
  DayLength,  \* minutes of a day
  WeekLength, \* days of a week
  LookAhead,  \* days the search looks at
  LastMinute, \* Bound: the clock stops there
  SlotPosts,  \* posts that take a slot
  Editors     \* requests that update a posting time

ASSUME ScheduleAssumption ==
  /\ {DayLength, WeekLength, LookAhead, LastMinute} \subseteq Nat
  /\ DayLength > 0 /\ WeekLength > 0 /\ AnySet \notin Sets

VARIABLES
  schedule, \* rows of posting_schedules
  clock,    \* local minutes since the start of a week
  slotPost, \* posts of the workspace that were told a slot
  reader    \* updates that have read their row

scheduleVars == <<schedule, clock, slotPost, reader>>

-----------------------------------------------------------------------------
NoSchedule == [day |-> 0, minute |-> 0, set |-> AnySet, active |-> FALSE, exists |-> FALSE]
NoPost == [status |-> "none", at |-> 0, stale |-> FALSE]
NoReader == [pc |-> "idle", id |-> "none", was |-> NoSchedule]

SchedulesInit ==
  /\ schedule = [s \in ScheduleIds |-> NoSchedule]
  /\ clock = 0
  /\ slotPost = [p \in SlotPosts |-> NoPost]
  /\ reader = [e \in Editors |-> NoReader]

Row(d, m, set) == [day |-> d, minute |-> m, set |-> set, active |-> TRUE, exists |-> TRUE]
Free == {s \in ScheduleIds : ~schedule[s].exists}

CreateSchedule ==
  /\ Free # {}
  /\ \E d \in 0..WeekLength - 1, m \in 0..DayLength - 1, set \in Sets \cup {AnySet} :
       schedule' = [schedule EXCEPT ![CHOOSE s \in Free : TRUE] = Row(d, m, set)]
  /\ UNCHANGED <<clock, slotPost, reader>>

\* Suggested times: the same minutes on every day of the week, for no set.
SuggestSchedule ==
  \E m \in 0..DayLength - 1 :
    /\ Cardinality(Free) >= WeekLength
    /\ LET new == CHOOSE f \in [0..WeekLength - 1 -> Free] :
                    \A c, d \in 0..WeekLength - 1 : f[c] = f[d] => c = d
       IN  schedule' = [s \in ScheduleIds |->
             IF \E d \in 0..WeekLength - 1 : new[d] = s
             THEN Row(CHOOSE d \in 0..WeekLength - 1 : new[d] = s, m, AnySet)
             ELSE schedule[s]]
    /\ UNCHANGED <<clock, slotPost, reader>>

\* UpdateSchedule reads the row, and writes all five columns from it.
ReadSchedule(e) ==
  /\ reader[e].pc = "idle"
  /\ \E s \in ScheduleIds \ Free :
       reader' = [reader EXCEPT ![e] = [pc |-> "write", id |-> s, was |-> schedule[s]]]
  /\ UNCHANGED <<schedule, clock, slotPost>>

UpdateSchedule(e) ==
  LET s == reader[e].id
      was == reader[e].was
  IN  /\ reader[e].pc = "write"
      /\ \E new \in {[was EXCEPT !.active = ~@], [was EXCEPT !.minute = (@ + 1) % DayLength],
                     [was EXCEPT !.day = (@ + 1) % WeekLength]} :
           schedule' = [schedule EXCEPT ![s] = IF @.exists THEN new ELSE @]
      /\ reader' = [reader EXCEPT ![e] = NoReader]
      /\ UNCHANGED <<clock, slotPost>>

DeleteSchedule(s) ==
  /\ schedule[s].exists
  /\ \A e \in Editors : reader[e].id # s
  /\ schedule' = [schedule EXCEPT ![s] = NoSchedule]
  /\ UNCHANGED <<clock, slotPost, reader>>

-----------------------------------------------------------------------------
(* findNextConfiguredScheduleSlotTime *)

Day(t) == t \div DayLength

\* A set asks for its own posting times; no set asks for all of them.
Asked(set) == {s \in ScheduleIds : /\ schedule[s].exists /\ schedule[s].active
                                   /\ set # AnySet => schedule[s].set = set}

\* Mutant: posts that are scheduled do not count.
NeverOccupied(t) == FALSE

IsSlotOccupied(t) == \E p \in SlotPosts : slotPost[p].status = "scheduled" /\ slotPost[p].at = t

SlotTime(s, day) == day * DayLength + schedule[s].minute

\* Mutant: a slot of this very minute is taken for one that comes.
CandidatesFromNow(set, day) ==
  {t \in {SlotTime(s, day) : s \in {x \in Asked(set) : schedule[x].day = day % WeekLength}} :
     t >= clock /\ ~IsSlotOccupied(t)}

Candidates(set, day) ==
  {t \in {SlotTime(s, day) : s \in {x \in Asked(set) : schedule[x].day = day % WeekLength}} :
     t > clock /\ ~IsSlotOccupied(t)}

\* The first day with a candidate, and the earliest of that day; {} when the
\* days of the search have none.
NextSlot(set) ==
  LET days == {d \in Day(clock)..Day(clock) + LookAhead - 1 : Candidates(set, d) # {}}
  IN  IF days = {} THEN {} ELSE {Min(Candidates(set, Min(days)))}

-----------------------------------------------------------------------------
(* Clients that take the slot they were told *)

AskSlot(p) ==
  /\ slotPost[p].status = "none"
  /\ \E set \in Sets \cup {AnySet} : \E t \in NextSlot(set) :
       slotPost' = [slotPost EXCEPT ![p] = [status |-> "told", at |-> t, stale |-> FALSE]]
  /\ UNCHANGED <<schedule, clock, reader>>

\* A post that takes a slot makes the same answer to others stale.
TakeSlot(p) ==
  /\ slotPost[p].status = "told"
  /\ slotPost' = [q \in SlotPosts |->
       IF q = p THEN [slotPost[p] EXCEPT !.status = "scheduled"]
       ELSE IF slotPost[q].status = "told" THEN [slotPost[q] EXCEPT !.stale = TRUE]
       ELSE slotPost[q]]
  /\ UNCHANGED <<schedule, clock, reader>>

\* A post is published at its time, or before it when its delay is negative,
\* and its slot is free for the search again.
SlotPostEnds(p) ==
  /\ slotPost[p].status = "scheduled"
  /\ slotPost' = [slotPost EXCEPT ![p] = NoPost]
  /\ UNCHANGED <<schedule, clock, reader>>

Tick ==
  /\ clock < LastMinute
  /\ clock' = clock + 1
  /\ UNCHANGED <<schedule, slotPost, reader>>

SchedulesNext ==
  \/ CreateSchedule \/ SuggestSchedule \/ Tick
  \/ \E e \in Editors : ReadSchedule(e) \/ UpdateSchedule(e)
  \/ \E s \in ScheduleIds : DeleteSchedule(s)
  \/ \E p \in SlotPosts : AskSlot(p) \/ TakeSlot(p) \/ SlotPostEnds(p)

-----------------------------------------------------------------------------
(* Properties *)

\* The minutes still to come, within the days of the search, at which a
\* posting time of the set falls and no post is scheduled.
FreeMinutes(set) ==
  {t \in clock + 1..(Day(clock) + LookAhead) * DayLength - 1 :
     /\ \E s \in Asked(set) : /\ schedule[s].day = Day(t) % WeekLength
                              /\ schedule[s].minute = t % DayLength
     /\ \A p \in SlotPosts : slotPost[p].status = "scheduled" => slotPost[p].at # t}

\* The search by days and candidates finds the earliest free minute, across
\* the ends of days and weeks, and nothing only when there is none.
NextSlotIsEarliest ==
  \A set \in Sets \cup {AnySet} :
    IF FreeMinutes(set) = {} THEN NextSlot(set) = {}
    ELSE NextSlot(set) = {Min(FreeMinutes(set))}

\* Two posts wait for one minute only if another post was scheduled between
\* the answer to the later of them and its request.
ScheduledPostsKeepApart ==
  \A p, q \in SlotPosts :
    /\ p # q /\ slotPost[p].status = "scheduled" /\ slotPost[q].status = "scheduled"
    /\ slotPost[p].at = slotPost[q].at
    => slotPost[p].stale \/ slotPost[q].stale

\* The safety of posting times: the search is right, and so is its use.
SlotSafety == NextSlotIsEarliest /\ ScheduledPostsKeepApart
=============================================================================
