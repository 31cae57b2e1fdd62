CONSTANTS
  ThreadLen = 3
  Accounts = {x, li}
  NoAccount = NoAccount
  SkipsReplies = {li}
  Workers = {w1}
  PublishedLimit = 2
  WriteLimit = 5
  DbErrors = FALSE
  MaxFaults = 2
  MaxCounted = 3
SPECIFICATION PublisherSpec
INVARIANTS PublisherTypeOK DuplicatesCostFaults ThreadOrder RepliesAreAttached PublishedMeansDelivered WriteCallsStayInPlan PlanLimit
CHECK_DEADLOCK FALSE
