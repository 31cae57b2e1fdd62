CONSTANTS
  Jobs = {j1, j2}
  NoJob = NoJob
  Workers = {w1, w2}
  NoWorker = NoWorker
  MaxAttempts = 2
  StaleAge = 2
  MaxLate = 1
  Delays = {0, 1}
  ClaimIsAtomic = TRUE
  Timely = TRUE
  MaxFaults = 2
SPECIFICATION Spec
INVARIANTS TypeOK SingleExecution RetryBudget
PROPERTIES JobsSettle SettledIsFinal ImplementsLease
