SPECIFICATION FairSpec
CONSTANTS
  d1 = d1  d2 = d2  u1 = u1  v1 = v1  h1 = h1
  e1 = e1  e2 = e2  s1 = s1  s2 = s2  w1 = w1
  DocHost = DocHost  NoHost = NoHost  Unstamped = Unstamped
  Tabs = {d1}
  Urls = {u1}
  Hosts = {}
  Violations = {}
  Elements = {e1, e2}
  sourceOf <- TwoSources
  windowOf <- OneWindow
  Oversize = {s2}
  Performance = TRUE
  DigestFails = TRUE
  QueueCap = 2
  BeaconCap = 2
  SeenCap = 7
  MemoCap = 2
  DeviceTtl = 1
  MaxClock = 0
INVARIANTS MarkedIsCarried InlineIsJudged ReportedOnce
PROPERTY CapturedIsSent
