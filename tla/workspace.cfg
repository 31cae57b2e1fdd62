CONSTANTS
  Organizations = {o1, o2}
  BootstrapWorkspaces = 1
  Plans <- TeamPlans
  WebhookEvents = {e1, e2, e3}
  MaxDbErrors = 1
  Users = {u1, u2, u3}
  WorkspaceIds = {w1, w2, w3, w4}
  InvitationIds = {i1, i2}
  TeamRequests = {q1, q2}
  Months = {1, 2}
  ScheduleRequests = {q1, q2}
  MaxThread = 2
  MaxUncounted = 1
  TheOrganization = o1
  Owner = u1
  FirstEvent = e1
  FirstWorkspace = w1
  SecondWorkspace = w2
  MediaIds = {m1, m2, m3}
  MediaPosts = {p1}
  Deleters = {d1}
  Hashes = {h1, h2}
  OtherHashes = {h2}
  MediaRequests = {u1, u2}
  StoredLimit = 1
  MonthlyLimit = 1
  ScheduleIds = {s1, s2}
  Sets = {t1}
  AnySet = AnySet
  DayLength = 2
  WeekLength = 2
  LookAhead = 3
  LastMinute = 1
  SlotPosts = {p1, p2}
  Editors = {e1}
  FirstMedia = {m1, m2}
  OneRequest = u1
  OneSlotPost = p1
  SetIds = {t1, t2}
  SetAccounts = {a1}
  SetRequests = {r1, r2}
SPECIFICATION WorkspaceSpec
INVARIANTS InOrderIsCaughtUp TeamSafety QuotaSafety LibrarySafety SlotSafety SetSafety
SYMMETRY RequestSymmetry
CHECK_DEADLOCK FALSE
