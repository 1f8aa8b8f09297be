CONSTANTS
  c1 = c1
  c2 = c2
  Calls <- MCCalls
  ModelKeys <- MCModelKeys
  Registered <- MCRegistered
  Provider <- MCProvider
  Configured = {"mock"}
  Managed = {"fast"}
  PriceIn <- MCPriceIn
  PriceOut <- MCPriceOut
  Chains <- MCChains
  Retries = {1}
  TokenCounts <- MCTokenCounts
  Projects = {"shop"}
  NoProject = NoProject
  NoModel = NoModel
  MaxTime = 1
  Flaws <- MCFlaws
SYMMETRY Symmetry
SPECIFICATION Spec
INVARIANTS
  OutcomeIsEarned
  LedgerMatchesAnswers
  StageRunsReported
  ReportsAgree
CHECK_DEADLOCK FALSE
