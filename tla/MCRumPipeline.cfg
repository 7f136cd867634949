SPECIFICATION Spec
CONSTANTS
  staging = staging  production = production  t1 = t1  t2 = t2  s1 = s1
  NoMessage = NoMessage
  Origins = {staging, production}
  Targets = {t1, t2}
  Scripts = {s1}
  targetOf <- TwoTargets
  laneOf <- Lanes2
  verdictOf <- StagingKnows
  MaxSightings = 1
  MaxReceives = 2
  BatchSize = 2
  MaxBatches = 2
  Faults <- PathFaults
PROPERTIES ProductionSurfaces Settles
