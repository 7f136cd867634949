SPECIFICATION LoadsSpec
CHECK_DEADLOCK FALSE
CONSTANTS
  Observations <- Observed
  Insertions <- Recorded
  Documents = {"page"}
  Host <- HostOf
  Inventory <- TwoGrants
  MaxDepth = 4
  MaxPaths = 4
  MaxSeen = 4
  MaxInserted = 2
INVARIANTS InheritanceIsGrounded GapsOnlyRemoveTrust
