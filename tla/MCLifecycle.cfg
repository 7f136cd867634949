SPECIFICATION FairSpec
CONSTANTS
  Opening <- OneOpening
  FallbackName = "inline"
  Workflows <- TwoWorkflows
  Catalogue <- TwoCatalogues
  Start <- AtFirst
  Curated <- VendorKnown
  MaxDeploys = 2
  MaxEdits = 1
INVARIANTS NothingGrows ApprovalStays OneIdentity
PROPERTIES OnlyReviewersAdmit Converges
