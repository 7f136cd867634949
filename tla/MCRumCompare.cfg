SPECIFICATION Spec
CONSTANTS
  a1 = a1  c1 = c1  c2 = c2  i1 = i1  r1 = r1  p1 = p1  p2 = p2  s1 = s1
  main = main  pending = pending
  NoMessage = NoMessage
  Messages = {a1, c1, c2, i1, r1}
  Pks = {p1, p2}
  Scripts = {s1}
  refOf <- OwnRefs
  shape <- Shapes5
  MaxReceives = 2
  BatchSize = 2
  MaxBatches = 2
  Faults <- RunFaults
CONSTRAINT SentAtMost
INVARIANTS OneAlertPerRun ReleasedWasTold OneEntryPerScript CandidatesAreHanded
