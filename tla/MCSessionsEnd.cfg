CONSTANTS
  s1 = s1
  s2 = s2
  build = build
  review = review
  first = first
  second = second
  Sessions <- MCSessions
  Stages <- MCStages
  DependsOn <- MCDependsOn
  RequiresApproval <- MCRequiresApproval
  AllowSkip <- MCAllowSkip
  Approvals <- MCApprovals
  AboutStage <- MCAboutStage
  NoSession = NoSession
  Execution = Execution
  Metric = Metric
  Nothing = Nothing
SPECIFICATION Spec
PROPERTIES
  CommittedEndIsFinal
