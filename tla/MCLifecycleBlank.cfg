SPECIFICATION Spec
CONSTANTS
  Opening <- Bare
  FallbackName = "inline"
  Workflows <- OneWorkflow
  Catalogue <- BlankCatalogue
  Start <- BlankAtFirst
  Curated <- NothingKnown
  MaxDeploys = 1
  MaxEdits = 1
INVARIANT NothingGrows
