CONSTANTS
  Jobs = {j1}
  NoJob = NoJob
  Workers = {w1, w2}
  NoWorker = NoWorker
  MaxAttempts = 2
  StaleAge = 2
  MaxLate = 1
  Delays = {0}
  ClaimIsAtomic = FALSE
  Timely = TRUE
  MaxFaults = 1
SPECIFICATION Safety
PROPERTIES RecentLocksAreKept
