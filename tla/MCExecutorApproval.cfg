\* Deployed code: no run is ever committed half way, so nothing is strandable.
CONSTANTS
  build = build
  review = review
  ship = ship
  Stages <- MCStages
  StageOrder <- MCStageOrder
  DependsOn <- MCDependsOn
  RequiresApproval <- MCRequiresApproval
  AllowSkip <- MCAllowSkip
  RetryPolicy <- MCRetryPolicy
  TimeoutPolicy <- MCTimeoutPolicy
  Strandable <- MCStrandable
  MaxTime = 4
  MaxRollbackCalls = 3
SPECIFICATION Spec
INVARIANTS
  OpenApprovalCanResume
\* An execution that has ended stops.
CHECK_DEADLOCK FALSE
