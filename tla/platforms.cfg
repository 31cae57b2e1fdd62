CONSTANTS
  Servers = {m1}
  OtherProvider = y
  AppNames = {n1}
  NoAppName = NoAppName
  Clients = {i1, i2}
  NoClient = NoClient
  MaxEnvApps = 2
  Flows = {f1, f2}
  States = {s1, s2}
  Instances = {h1, h2}
  Configured = {h1}
  NoInstance = NoInstance
  SavedAccounts = {a1, a2, a3}
  AccountLimit = 1
  TokenAccounts = {t1}
  Replicas = {w1, w2}
  MaxRefreshes = 2
  MaxJobs = 2
  OneState = s1
  ThreadLen = 3
  FileSize = 3
  ChunkSize = 2
  Polls = 2
  PublishTries = 2
  MaxDeliveries = 3
  MaxFaults = 2
  PostDeliveries = 2
SPECIFICATION PlatformsSpec
INVARIANTS OverrideWins ConnectionSafety RefreshSafety PublicationSafety MediaSafety
PROPERTIES DisconnectIsFinal DeliveryEnds
CHECK_DEADLOCK FALSE
