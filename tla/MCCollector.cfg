SPECIFICATION FairSpec
CONSTANTS
  i1 = i1  i2 = i2
  o1 = o1  o2 = o2  t1 = t1
  csp = csp  r1 = r1
  NoTarget = NoTarget  NoOrigin = NoOrigin  NoRecord = NoRecord
  Invocations = {i1, i2}
  Origins = {o1, o2}
  Targets = {t1}
  targetOf <- TwoOrigins
  Identities = {csp}
  CspIdentities = {csp}
  Routes = {r1}
  EdgeSecretChecked = TRUE
  EdgeSecretSet = TRUE
  TtlWindow = 4
  LambdaTimeout = 1
  MaxTime = 4
  Faults <- HandledFaults
INVARIANTS SingleOwner OneMessagePerWindow RecordsAreQueued
PROPERTIES WindowRolls ImplementsNoveltyWindow
