SPECIFICATION FairSpec
CONSTANTS
  e1 = e1  e2 = e2
  Entries = {e1, e2}
  Reviewed = TRUE
  MaxWrites = 1
  Workflows = 2
  SeenBy <- TwoVariations
  Modes = {"inventory", "detection", "all"}
  MaxFaults = 2
INVARIANTS GreenMeansTold NothingHeldBack
PROPERTIES DropsOnlyStale Heals KeepsTelling
