CONSTANTS
  Jobs = {j1}
  NoJob = NoJob
  Workers = {w1}
  NoWorker = NoWorker
  MaxAttempts = 2
  StaleAge = 2
  MaxLate = 1
  Delays = {0, 1}
  ClaimIsAtomic = FALSE
  Timely = FALSE
  MaxFaults = 2
  ThreadLen = 2
  Accounts = {a1, a2}
  NoAccount = NoAccount
  SkipsReplies = {}
  PublishedLimit = 3
  WriteLimit = 6
  DbErrors = FALSE
  MaxCounted = 0
SPECIFICATION PipeSpec
INVARIANTS SettledJobsConclude
PROPERTIES EveryPostConcludes
