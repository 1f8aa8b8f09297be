\* Runs left RUNNING in a committed state: what the reaper handles.
CONSTANTS
  fetch = fetch
  retried = retried
  escalated = escalated
  cancelled = cancelled
  Stages <- MCStages
  StageOrder <- MCStageOrder
  DependsOn <- MCDependsOn
  RequiresApproval <- MCRequiresApproval
  AllowSkip <- MCAllowSkip
  RetryPolicy <- MCRetryPolicy
  TimeoutPolicy <- MCTimeoutPolicy
  Strandable <- MCStrandable
  MaxTime = 5
  MaxRollbackCalls = 2
SPECIFICATION Spec
INVARIANTS
  OneApprovalPerWait
  OutcomeAgreement
  RunAccounting
  FailureRollsBack
\* An execution that has ended stops.
CHECK_DEADLOCK FALSE
