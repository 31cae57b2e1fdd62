CONSTANTS
  ThreadLen = 2
  Accounts = {a1, a2}
  NoAccount = NoAccount
  SkipsReplies = {}
  Workers = {w1}
  PublishedLimit = 1
  WriteLimit = 4
  DbErrors = TRUE
  MaxFaults = 2
  MaxCounted = 2
SPECIFICATION PublisherSpec
INVARIANTS DuplicatesCostFaults PlanLimit
CHECK_DEADLOCK FALSE
