CONSTANTS
  Jobs = {j1}
  NoJob = NoJob
  Workers = {w1}
  NoWorker = NoWorker
  MaxAttempts = 2
  StaleAge = 2
  MaxLate = 1
  Delays = {0, 1}
  ClaimIsAtomic = TRUE
  Timely = FALSE
  MaxFaults = 1
  ThreadLen = 2
  Accounts = {a1}
  NoAccount = NoAccount
  SkipsReplies = {}
  PublishedLimit = 3
  WriteLimit = 6
  DbErrors = FALSE
  MaxCounted = 0
SPECIFICATION PipeSafety
INVARIANTS BlockedOnlyByFailure

