CONSTANTS
  Jobs = {j1, j2}
  NoJob = NoJob
  Workers = {w1}
  NoWorker = NoWorker
  MaxAttempts = 2
  StaleAge = 2
  MaxLate = 1
  Delays = {0}
  ClaimIsAtomic = TRUE
  Timely = FALSE
  MaxFaults = 0
  ThreadLen = 1
  Accounts = {a1}
  NoAccount = NoAccount
  SkipsReplies = {}
  PublishedLimit = 3
  WriteLimit = 4
  DbErrors = FALSE
  MaxCounted = 0
  Clients = {c1}
  Ops = {"cancel"}
  AccountEdits = {}
  MaxRequests = 1
SPECIFICATION ApiRunSafety
PROPERTIES DraftsAreNotPublished
