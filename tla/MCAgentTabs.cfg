SPECIFICATION Spec
CONSTANTS
  d1 = d1  d2 = d2  u1 = u1  v1 = v1  h1 = h1
  e1 = e1  e2 = e2  s1 = s1  s2 = s2  w1 = w1
  DocHost = DocHost  NoHost = NoHost  Unstamped = Unstamped
  Tabs = {d1, d2}
  Urls = {}
  Hosts = {}
  Violations = {v1}
  Elements = {}
  sourceOf <- NoSources
  windowOf <- OneWindow
  Oversize = {}
  Performance = FALSE
  DigestFails = TRUE
  QueueCap = 1
  BeaconCap = 1
  SeenCap = 2
  MemoCap = 2
  DeviceTtl = 1
  MaxClock = 2
INVARIANTS SilenceIsEarned OneHeartbeat
