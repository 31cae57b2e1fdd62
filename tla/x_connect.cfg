CONSTANTS
  Servers = {m1}
  OtherProvider = y
  AppNames = {n1}
  NoAppName = NoAppName
  Clients = {i1}
  NoClient = NoClient
  MaxEnvApps = 0
  Flows = {f1}
  States = {s1}
  Instances = {h1}
  Configured = {h1}
  NoInstance = NoInstance
  SavedAccounts = {a1}
  AccountLimit = 1
  TokenAccounts = {t1}
  Replicas = {w1}
  MaxRefreshes = 1
  MaxJobs = 1
  OneState = s1
  ThreadLen = 1
  FileSize = 1
  ChunkSize = 1
  Polls = 1
  PublishTries = 1
  MaxDeliveries = 0
  MaxFaults = 0
  PostDeliveries = 0
SPECIFICATION PlatformsSafety
INVARIANTS XExchangeFindsSecret
CHECK_DEADLOCK FALSE
