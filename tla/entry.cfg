CONSTANTS
  Tokens = {t1, t2}
  NoToken = NoToken
  Spaces = {w1, w2}
  NoSpace = NoSpace
  Requests = {r1, r2}
  Logins = {c1, c2}
  NoLogin = NoLogin
  Browsers = {b1, b2}
  OneLogin = c1
  OneBrowser = b1
  OneExchange = e1
  OneClient = m1
  Codes = {k1}
  Clients = {m1, m2}
  Exchanges = {e1, e2, e3}
  Emails = {"a@x", "b@x", "c@x"}
  Challenges = {k1, k2, k3}
  NoChallenge = NoChallenge
  WebSessions = {s1, s2}
  Calls = {r1, r2}
  Serializable = TRUE
  Limit = 3
  Window = 3
  MaxClock = 7
  Pictures = {p1, p2, p3}
  NoPicture = NoPicture
  Uploads = {u1, u2}
  OneCall = r1
  OneSession = s1
  LastChallenge = k3
SPECIFICATION EntrySpec
INVARIANTS HolderSafety WebSafety
PROPERTIES RefusalsAreFinal LoginImplementsOneShot CodesImplementOneShot LoginEnds
CHECK_DEADLOCK FALSE
