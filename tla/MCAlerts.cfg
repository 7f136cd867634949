SPECIFICATION Spec
CONSTANTS
  Targets <- AllTargets
  Results <- AllResults
  Ledgers <- AllLedgers
  Earlier <- AllEarlier
  Configured = {"headerMismatch"}
  Many = 60
INVARIANTS NothingUnheard FitsSlack NamesEveryTarget
CHECK_DEADLOCK FALSE
