CONSTANTS
  Jobs = {j1, j2, j3}
  NoJob = NoJob
  Workers = {w1}
  NoWorker = NoWorker
  MaxAttempts = 1
  StaleAge = 2
  MaxLate = 1
  Delays = {0}
  ClaimIsAtomic = TRUE
  Timely = FALSE
  MaxFaults = 1
  ThreadLen = 1
  Accounts = {a1}
  NoAccount = NoAccount
  SkipsReplies = {}
  PublishedLimit = 1
  WriteLimit = 2
  DbErrors = FALSE
  MaxCounted = 0
  Clients = {c1, c2}
  Ops = {"unschedule", "reschedule", "delay", "edit", "delete", "update_draft", "schedule_draft", "cancel"}
  AccountEdits = {{a1}}
  MaxRequests = 2
SPECIFICATION ApiRunSpec
INVARIANTS ApiTypeOK ScheduledIsQueued ToolsLeaveOneJob
PROPERTIES ScheduledConcludes
