CONSTANTS
  lint = lint
  test = test
  deploy = deploy
  Workers = {w1, w2}
  Stages <- MCStages
  StageOrder <- MCStageOrder
  DependsOn <- MCDependsOn
  RequiresApproval <- MCRequiresApproval
  AllowSkip <- MCAllowSkip
  RetryPolicy <- MCRetryPolicy
  TimeoutPolicy <- MCTimeoutPolicy
  Strandable <- MCStrandable
  MaxTime = 1
  MaxRollbackCalls = 1
  MaxCrashes = 1
SPECIFICATION LoopSpec
INVARIANTS
  LoopTypeOK
  OneLiveEntry
PROPERTIES
  ImplementsContract
  SubmittedIsStarted
  DrivenSettles
\* An execution that has ended stops.
CHECK_DEADLOCK FALSE
