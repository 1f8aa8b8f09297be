----------------------- MODULE WorkflowExecutorProofs -----------------------
(***************************************************************************)
(* What WorkflowExecutor guarantees for every workflow definition, policy  *)
(* and number of steps.  The argument has three layers:                    *)
(*                                                                         *)
(*   - RunEffect says what running a set of stages writes for one stage;   *)
(*   - StageEffect and StatusEffect say what any step does to one stage    *)
(*     and to the execution's status: six and three kinds of move;         *)
(*   - each safety invariant is preserved by those moves, whatever the     *)
(*     action that made them.                                              *)
(***************************************************************************)
EXTENDS WorkflowExecutor, TLAPS

\* What the constants' assumptions say of one stage and of one retry of it:
\* the date it is scheduled for is a natural number.
LEMMA PolicyTypes ==
  ASSUME NEW s \in Stages
  PROVE  /\ RetryPolicy[s].max_attempts \in Nat
         /\ DependsOn[s] \subseteq Stages
         /\ \A n \in Nat \ {0} : ShouldRetry(RetryPolicy[s], n) =>
              BackoffSeconds(RetryPolicy[s], n) \in Nat
BY DefinitionAssumption, PolicyAssumption DEF ShouldRetry

\* The transition tables only lead to statuses there are.
LEMMA MoveTargets ==
  ASSUME NEW from, NEW to
  PROVE  /\ CanMoveWorkflow(from, to) => to \in WorkflowStatuses
         /\ CanMoveStage(from, to) => to \in StageStatuses
BY DEF CanMoveWorkflow, CanMoveStage, WorkflowStatuses, StageStatuses

\* The attempt a run makes is a positive number.
LEMMA AttemptNumberType ==
  ASSUME TypeOK, NEW s \in Stages
  PROVE  /\ AttemptNumber(s) \in Nat \ {0}
         /\ MayRetry(s) => BackoffSeconds(RetryPolicy[s], AttemptNumber(s)) \in Nat
<1>1. AttemptNumber(s) \in Nat \ {0}
  BY DEF TypeOK, AttemptNumber
<1> QED
  BY <1>1, PolicyTypes DEF MayRetry

-----------------------------------------------------------------------------
(* Running stages.                                                         *)

\* The outcome of a tick, or of an approval, that ran the stages of done,
\* retried and failed and stopped at those of gated.
IsRun(done, retried, failed, gated) ==
  /\ done \in SUBSET Stages /\ retried \in SUBSET Stages
  /\ failed \in SUBSET Stages /\ gated \in SUBSET Stages
  /\ done \cap retried = {} /\ (done \cup retried) \cap failed = {}
  /\ gated \cap (done \cup retried \cup failed) = {}
  /\ \A r \in retried : MayRetry(r)
  /\ stageStatus' = StatusAfter(done, retried, failed, gated)
  /\ RunStages(done, retried, failed)

\* The rows a run writes have their types.
LEMMA RunTypes ==
  ASSUME TypeOK, NEW done, NEW retried, NEW failed, NEW gated,
         IsRun(done, retried, failed, gated)
  PROVE  /\ stageStatus' \in [Stages -> StageStatuses]
         /\ attempt' \in [Stages -> Nat \ {0}]
         /\ startedAt' \in [Stages -> Nat \cup {NoTime}]
         /\ retryAfter' \in [Stages -> Nat \cup {NoTime}]
         /\ runs' \in [Stages -> Nat]
<1>1. stageStatus' \in [Stages -> StageStatuses]
  BY DEF IsRun, StatusAfter, TypeOK, StageStatuses
<1>2. attempt' \in [Stages -> Nat \ {0}]
  BY AttemptNumberType DEF IsRun, RunStages, TypeOK
<1>3. startedAt' \in [Stages -> Nat \cup {NoTime}]
  BY DEF IsRun, RunStages, TypeOK
<1>4. \A s \in retried : now + BackoffSeconds(RetryPolicy[s], AttemptNumber(s)) \in Nat
  BY AttemptNumberType DEF IsRun, TypeOK
<1>5. retryAfter' \in [Stages -> Nat \cup {NoTime}]
  BY <1>4 DEF IsRun, RunStages, TypeOK
<1>6. runs' \in [Stages -> Nat]
  BY DEF IsRun, RunStages, TypeOK
<1> QED
  BY <1>1, <1>2, <1>3, <1>5, <1>6

\* The four ways a run comes about: an approval, and a tick that ends by
\* running out of ready stages, at a gate or at a failure.
LEMMA RunsAreRuns ==
  ASSUME TypeOK, NEW s \in Stages
  PROVE  /\ \A d \in Decisions :
              /\ ApproveAndComplete(s, d) => IsRun({s}, {}, {}, {})
              /\ ApproveAndRetry(s, d) => IsRun({}, {s}, {}, {})
              /\ ApproveAndFail(s, d) => IsRun({}, {}, {s}, {})
         /\ \A done \in SUBSET Runnable, retried \in SUBSET Runnable :
              /\ AdvanceRun(done, retried) => IsRun(done, retried, {}, {})
              /\ AdvanceToGate(s, done, retried) => IsRun(done, retried, {}, {s})
              /\ AdvanceToFailure(s, done, retried) => IsRun(done, retried, {s}, {})
<1>1. Runnable \subseteq Stages /\ Gates \subseteq Stages
  BY DEF Runnable, Gates, PendingReady, RetryReady, StagesIn
<1>2. Gates \cap Runnable = {}
  BY DEF Runnable
<1>3. ASSUME NEW d \in Decisions
      PROVE  /\ ApproveAndComplete(s, d) => IsRun({s}, {}, {}, {})
             /\ ApproveAndRetry(s, d) => IsRun({}, {s}, {}, {})
             /\ ApproveAndFail(s, d) => IsRun({}, {}, {s}, {})
  BY DEF ApproveAndComplete, ApproveAndRetry, ApproveAndFail, IsRun
<1>4. ASSUME NEW done \in SUBSET Runnable, NEW retried \in SUBSET Runnable
      PROVE  /\ AdvanceRun(done, retried) => IsRun(done, retried, {}, {})
             /\ AdvanceToGate(s, done, retried) => IsRun(done, retried, {}, {s})
             /\ AdvanceToFailure(s, done, retried) => IsRun(done, retried, {s}, {})
  BY <1>1, <1>2 DEF AdvanceRun, AdvanceToGate, AdvanceToFailure, Results, RanBefore, IsRun
<1> QED
  BY <1>3, <1>4

-----------------------------------------------------------------------------
(* Type correctness.                                                       *)

\* A transition of a single stage keeps the rows typed.
LEMMA SetStageTypes ==
  ASSUME TypeOK, NEW s \in Stages, NEW to, SetStage(s, to)
  PROVE  /\ stageStatus' \in [Stages -> StageStatuses]
         /\ attempt' \in [Stages -> Nat \ {0}]
         /\ startedAt' \in [Stages -> Nat \cup {NoTime}]
         /\ retryAfter' \in [Stages -> Nat \cup {NoTime}]
<1>1. to \in StageStatuses
  BY MoveTargets DEF SetStage
<1> QED
  BY <1>1 DEF SetStage, TypeOK

\* Asking for a decision, and deciding, keep the approval rows typed.
LEMMA ApprovalTypes ==
  ASSUME TypeOK, NEW s \in Stages
  PROVE  /\ NewApproval(s) =>
              approvals' \in [Stages -> [undecided : Nat, resumed : Nat, halted : Nat]]
         /\ \A field \in {"resumed", "halted"} : Decide(s, field) =>
              approvals' \in [Stages -> [undecided : Nat, resumed : Nat, halted : Nat]]
<1>1. ASSUME NewApproval(s)
      PROVE  approvals' \in [Stages -> [undecided : Nat, resumed : Nat, halted : Nat]]
  BY <1>1 DEF NewApproval, TypeOK
<1>2. ASSUME Decide(s, "resumed")
      PROVE  approvals' \in [Stages -> [undecided : Nat, resumed : Nat, halted : Nat]]
  BY <1>2 DEF Decide, TypeOK
<1>3. ASSUME Decide(s, "halted")
      PROVE  approvals' \in [Stages -> [undecided : Nat, resumed : Nat, halted : Nat]]
  BY <1>3 DEF Decide, TypeOK
<1> QED
  BY <1>1, <1>2, <1>3

\* However a status is written, it is one of the statuses.
LEMMA StatusTypes ==
  ASSUME TypeOK, NEW from \in WorkflowStatuses, NEW to
  PROVE  /\ Move(to) => status' \in WorkflowStatuses
         /\ Finish(from, to) => status' \in WorkflowStatuses
         /\ CheckCompletion(from) => status' \in WorkflowStatuses
         /\ FailWorkflow(from) => status' \in WorkflowStatuses
BY DEF Move, Finish, CheckCompletion, FailWorkflow, WorkflowStatuses,
       CanMoveWorkflow

\* Every step of an execution keeps the rows typed.
LEMMA TypeStep ==
  ASSUME TypeOK, [Next]_vars
  PROVE  TypeOK'
<1> USE StatusTypes DEF WorkflowStatuses
<1>1. CASE Submit
  BY <1>1, MoveTargets DEF Submit, Move, stageVars, TypeOK
<1>2. CASE Start \/ Pause \/ Resume
  BY <1>2, MoveTargets DEF Start, Pause, Resume, Move, stageVars, TypeOK
<1>3. CASE Cancel
  <2>1. stageStatus' \in [Stages -> StageStatuses]
    BY <1>3 DEF Cancel, TypeOK, StageStatuses
  <2>2. retryAfter' \in [Stages -> Nat \cup {NoTime}]
    BY <1>3 DEF Cancel, TypeOK
  <2> QED
    BY <1>3, <2>1, <2>2 DEF Cancel, TypeOK
<1>4. ASSUME NEW s \in Stages, SkipStage(s) PROVE TypeOK'
  BY <1>4, SetStageTypes DEF SkipStage, TypeOK
<1>5. ASSUME NEW s \in Stages, NEW d \in Decisions,
             ApproveAndComplete(s, d) \/ ApproveAndRetry(s, d) \/ ApproveAndFail(s, d)
      PROVE  TypeOK'
  <2>1. PICK done, retried, failed : IsRun(done, retried, failed, {})
    BY <1>5, RunsAreRuns
  <2>2. approvals' \in [Stages -> [undecided : Nat, resumed : Nat, halted : Nat]]
    BY <1>5, ApprovalTypes
    DEF ApproveAndComplete, ApproveAndRetry, ApproveAndFail, ResumeGated
  <2>3. status' \in WorkflowStatuses /\ now' = now
    BY <1>5 DEF ApproveAndComplete, ApproveAndRetry, ApproveAndFail, ResumeGated
  <2> QED
    BY <2>1, <2>2, <2>3, RunTypes DEF TypeOK
<1>6. ASSUME NEW s \in Stages, NEW d \in Decisions, Reject(s, d) PROVE TypeOK'
  <2>1. approvals' \in [Stages -> [undecided : Nat, resumed : Nat, halted : Nat]]
    BY <1>6, ApprovalTypes DEF Reject
  <2> QED
    BY <1>6, <2>1, SetStageTypes DEF Reject, TypeOK
<1>7. ASSUME NEW s \in Stages, NEW d \in Decisions, RejectRefused(s, d) PROVE TypeOK'
  BY <1>7 DEF RejectRefused, stageVars, TypeOK
<1>8. ASSUME NEW s \in Stages, ReapEscalate(s) PROVE TypeOK'
  BY <1>8, SetStageTypes, ApprovalTypes DEF ReapEscalate, Reaping, TypeOK
<1>9. ASSUME NEW s \in Stages, ReapRetry(s) PROVE TypeOK'
  <2>1. now + BackoffSeconds(RetryPolicy[s], AttemptNumber(s)) \in Nat
    BY <1>9, AttemptNumberType DEF ReapRetry, TypeOK
  <2> QED
    BY <1>9, <2>1 DEF ReapRetry, Reaping, TypeOK, StageStatuses
<1>10. ASSUME NEW s \in Stages, ReapExhausted(s) \/ ReapCancel(s) PROVE TypeOK'
  BY <1>10, SetStageTypes DEF ReapExhausted, ReapCancel, Reaping, TypeOK
<1>11. CASE AdvanceIdle
  BY <1>11 DEF AdvanceIdle, Ticking, stageVars, TypeOK
<1>12. ASSUME NEW done \in SUBSET Runnable, NEW retried \in SUBSET Runnable,
              NEW s \in Stages,
              \/ AdvanceRun(done, retried) \/ AdvanceToGate(s, done, retried)
              \/ AdvanceToFailure(s, done, retried)
       PROVE  TypeOK'
  <2>1. PICK failed, gated : IsRun(done, retried, failed, gated)
    BY <1>12, RunsAreRuns
  <2>2. approvals' \in [Stages -> [undecided : Nat, resumed : Nat, halted : Nat]]
    BY <1>12, ApprovalTypes DEF AdvanceRun, AdvanceToGate, AdvanceToFailure, TypeOK
  <2>3. status' \in WorkflowStatuses /\ now' = now
    BY <1>12 DEF AdvanceRun, AdvanceToGate, AdvanceToFailure, Ticking, TypeOK
  <2> QED
    BY <2>1, <2>2, <2>3, RunTypes DEF TypeOK
<1>13. ASSUME NEW s \in Stages, StrandStage(s) PROVE TypeOK'
  <2>1. stageStatus' \in [Stages -> StageStatuses]
    BY <1>13 DEF StrandStage, TypeOK, StageStatuses
  <2>2. /\ attempt' \in [Stages -> Nat \ {0}]
        /\ startedAt' \in [Stages -> Nat \cup {NoTime}]
        /\ retryAfter' \in [Stages -> Nat \cup {NoTime}]
        /\ runs' \in [Stages -> Nat]
    BY <1>13, AttemptNumberType DEF StrandStage, RunStages, TypeOK
  <2> QED
    BY <1>13, <2>1, <2>2 DEF StrandStage, TypeOK
<1>14. CASE Tick
  BY <1>14 DEF Tick, stageVars, TypeOK
<1>15. CASE UNCHANGED vars
  BY <1>15 DEF vars, stageVars, TypeOK
<1>16. Stages # {}
  BY DefinitionAssumption
<1> QED
  BY <1>1, <1>2, <1>3, <1>4, <1>5, <1>6, <1>7, <1>8, <1>9, <1>10, <1>11, <1>12,
     <1>13, <1>14, <1>15, <1>16
  DEF Next, Advance, ResolveApproval

\* The rows always have the types the columns declare, whatever definition
\* and policies the execution was created with.
THEOREM TypeCorrect == Spec => []TypeOK
<1>1. Init => TypeOK
  BY DEF Init, TypeOK, WorkflowStatuses, StageStatuses
<1> QED
  BY <1>1, TypeStep, PTL DEF Spec

-----------------------------------------------------------------------------
(* What a step does to one stage.                                          *)

\* The columns a move of the stage does not touch.
SameAttempt(s) == attempt'[s] = attempt[s] /\ runs'[s] = runs[s]
SameApprovals(s) == approvals'[s] = approvals[s]

Unmoved(s) ==
  /\ stageStatus'[s] = stageStatus[s] /\ retryAfter'[s] = retryAfter[s]
  /\ SameAttempt(s) /\ SameApprovals(s)

\* The stage was run to its result: as its first attempt, as the retry it
\* was waiting for, or because a human resumed it.
Ran(s) ==
  /\ \/ /\ stageStatus[s] = "pending" /\ s \notin RequiresApproval
        /\ DependenciesDone(s) /\ SameApprovals(s)
     \/ /\ stageStatus[s] = "retrying" /\ retryAfter[s] <= now
        /\ SameApprovals(s)
     \/ /\ stageStatus[s] = "waiting_approval" /\ approvals[s].undecided > 0
        /\ approvals'[s].undecided = approvals[s].undecided - 1
        /\ approvals'[s].resumed = approvals[s].resumed + 1
        /\ status' # "waiting_approval"
  /\ attempt'[s] = AttemptNumber(s) /\ runs'[s] = runs[s] + 1
  /\ \/ stageStatus'[s] = "completed" /\ retryAfter'[s] = NoTime
     \/ stageStatus'[s] = "retrying" /\ retryAfter'[s] # NoTime /\ MayRetry(s)
     \/ stageStatus'[s] = "failed" /\ retryAfter'[s] = NoTime /\ status' = "failed"

\* Its run began and was left RUNNING.
Begun(s) ==
  /\ \/ stageStatus[s] = "pending" /\ s \notin RequiresApproval /\ DependenciesDone(s)
     \/ stageStatus[s] = "retrying" /\ retryAfter[s] <= now
  /\ stageStatus'[s] = "running" /\ retryAfter'[s] = NoTime
  /\ attempt'[s] = AttemptNumber(s) /\ runs'[s] = runs[s] + 1 /\ SameApprovals(s)

\* A human is asked about it, at its gate or because it timed out.
Asked(s) ==
  /\ \/ stageStatus[s] = "pending" /\ s \in RequiresApproval /\ DependenciesDone(s)
     \/ stageStatus[s] = "running"
  /\ stageStatus'[s] = "waiting_approval"
  /\ retryAfter'[s] \in {retryAfter[s], NoTime}
  /\ approvals'[s].undecided = approvals[s].undecided + 1
  /\ approvals'[s].resumed = approvals[s].resumed
  /\ SameAttempt(s)

\* It timed out and is to be retried.
Rescheduled(s) ==
  /\ stageStatus[s] = "running" /\ stageStatus'[s] = "retrying"
  /\ retryAfter'[s] # NoTime /\ MayRetry(s)
  /\ SameAttempt(s) /\ SameApprovals(s)

\* It was rejected, given up, cancelled or skipped.
Ended(s) ==
  /\ stageStatus[s] \in Cancellable /\ retryAfter'[s] = NoTime /\ SameAttempt(s)
  /\ approvals'[s].resumed = approvals[s].resumed
  /\ \/ /\ stageStatus'[s] = "failed" /\ status' = "failed"
        /\ \/ /\ stageStatus[s] = "waiting_approval"
              /\ approvals[s].undecided > 0
              /\ approvals'[s].undecided = approvals[s].undecided - 1
           \/ stageStatus[s] = "running" /\ SameApprovals(s)
     \/ /\ stageStatus'[s] = "cancelled" /\ status' \in {"failed", "cancelled"}
        /\ SameApprovals(s)
     \/ /\ stageStatus[s] = "pending" /\ stageStatus'[s] = "skipped"
        /\ SameApprovals(s)

StageMove(s) ==
  \/ Unmoved(s) \/ Ran(s) \/ Begun(s) \/ Asked(s) \/ Rescheduled(s) \/ Ended(s)

\* What a run writes in the rows of one stage.
LEMMA RunEffect ==
  ASSUME TypeOK, NEW done, NEW retried, NEW failed, NEW gated,
         IsRun(done, retried, failed, gated), NEW s \in Stages
  PROVE  /\ s \in done \cup retried \cup failed =>
              attempt'[s] = AttemptNumber(s) /\ runs'[s] = runs[s] + 1
         /\ s \notin done \cup retried \cup failed =>
              SameAttempt(s) /\ retryAfter'[s] = retryAfter[s]
         /\ s \in done => stageStatus'[s] = "completed" /\ retryAfter'[s] = NoTime
         /\ s \in retried => /\ stageStatus'[s] = "retrying" /\ retryAfter'[s] # NoTime
                             /\ MayRetry(s)
         /\ s \in failed => stageStatus'[s] = "failed" /\ retryAfter'[s] = NoTime
         /\ s \in gated => stageStatus'[s] = "waiting_approval"
         /\ s \notin done \cup retried \cup failed \cup gated =>
              stageStatus'[s] = stageStatus[s]
<1>1. /\ s \in done \cup retried \cup failed =>
           attempt'[s] = AttemptNumber(s) /\ runs'[s] = runs[s] + 1
      /\ s \notin done \cup retried \cup failed =>
           SameAttempt(s) /\ retryAfter'[s] = retryAfter[s]
  BY DEF IsRun, RunStages, SameAttempt
<1>2. /\ s \in done => stageStatus'[s] = "completed"
      /\ s \in retried => stageStatus'[s] = "retrying" /\ MayRetry(s)
      /\ s \in failed => stageStatus'[s] = "failed"
      /\ s \in gated => stageStatus'[s] = "waiting_approval"
      /\ s \notin done \cup retried \cup failed \cup gated =>
           stageStatus'[s] = stageStatus[s]
  BY DEF IsRun, StatusAfter
<1>3. s \in done \cup failed => retryAfter'[s] = NoTime
  BY DEF IsRun, RunStages
<1>4. ASSUME s \in retried PROVE retryAfter'[s] # NoTime
  <2>1. retryAfter'[s] = now + BackoffSeconds(RetryPolicy[s], AttemptNumber(s))
    BY <1>4 DEF IsRun, RunStages
  <2>2. BackoffSeconds(RetryPolicy[s], AttemptNumber(s)) \in Nat
    BY <1>4, <1>2, AttemptNumberType
  <2> QED
    BY <2>1, <2>2 DEF TypeOK, NoTime
<1> QED
  BY <1>1, <1>2, <1>3, <1>4

\* A tick that runs stages moves each stage in one of these ways.
LEMMA AdvanceEffect ==
  ASSUME TypeOK, NEW done \in SUBSET Runnable, NEW retried \in SUBSET Runnable,
         NEW r \in Stages,
         \/ AdvanceRun(done, retried) \/ AdvanceToGate(r, done, retried)
         \/ AdvanceToFailure(r, done, retried),
         NEW s \in Stages
  PROVE  Unmoved(s) \/ Ran(s) \/ Asked(s)
<1> DEFINE FirstOrRetry(x) ==
      \/ stageStatus[x] = "pending" /\ x \notin RequiresApproval /\ DependenciesDone(x)
      \/ stageStatus[x] = "retrying" /\ retryAfter[x] <= now
<1>1. \A x \in Runnable : FirstOrRetry(x)
  BY DEF Runnable, Gates, PendingReady, RetryReady, StagesIn
<1>2. \A x \in Gates :
        stageStatus[x] = "pending" /\ x \in RequiresApproval /\ DependenciesDone(x)
  BY DEF Gates, PendingReady, StagesIn
<1> HIDE DEF FirstOrRetry
<1>3. CASE AdvanceRun(done, retried)
  <2>1. IsRun(done, retried, {}, {})
    BY <1>3, RunsAreRuns
  <2>2. SameApprovals(s)
    BY <1>3 DEF AdvanceRun, SameApprovals
  <2>3. s \in done \cup retried => FirstOrRetry(s)
    BY <1>1
  <2> QED
    BY <2>1, <2>2, <2>3, RunEffect DEF Unmoved, Ran, FirstOrRetry
<1>4. CASE AdvanceToGate(r, done, retried)
  <2>1. IsRun(done, retried, {}, {r})
    BY <1>4, RunsAreRuns
  <2>2. IF s = r THEN /\ approvals'[s].undecided = approvals[s].undecided + 1
                      /\ approvals'[s].resumed = approvals[s].resumed
                 ELSE SameApprovals(s)
    BY <1>4 DEF AdvanceToGate, NewApproval, SameApprovals, TypeOK
  <2>3. s \in done \cup retried => FirstOrRetry(s)
    BY <1>1
  <2>4. r \in Gates /\ r \notin done \cup retried
    BY <1>4 DEF AdvanceToGate, RanBefore
  <2>5. CASE s = r
    BY <2>1, <2>2, <2>4, <2>5, <1>2, RunEffect DEF Asked
  <2>6. CASE s # r
    BY <2>1, <2>2, <2>3, <2>6, RunEffect DEF Unmoved, Ran, FirstOrRetry
  <2> QED
    BY <2>5, <2>6
<1>5. CASE AdvanceToFailure(r, done, retried)
  <2>1. IsRun(done, retried, {r}, {})
    BY <1>5, RunsAreRuns
  <2>2. SameApprovals(s) /\ status' = "failed"
    BY <1>5 DEF AdvanceToFailure, SameApprovals, FailWorkflow, Finish
  <2>3. s \in done \cup retried \cup {r} => FirstOrRetry(s)
    BY <1>1, <1>5 DEF AdvanceToFailure
  <2> QED
    BY <2>1, <2>2, <2>3, RunEffect DEF Unmoved, Ran, FirstOrRetry
<1> QED
  BY <1>3, <1>4, <1>5

\* So does an approval: the resumed stage was waiting, and it alone runs.
LEMMA ApproveEffect ==
  ASSUME TypeOK, OneApprovalPerWait, NEW r \in Stages, NEW d \in Decisions,
         ApproveAndComplete(r, d) \/ ApproveAndRetry(r, d) \/ ApproveAndFail(r, d),
         NEW s \in Stages
  PROVE  IF s = r THEN Ran(s) /\ stageStatus[s] = "waiting_approval" ELSE Unmoved(s)
<1>1. PICK done, retried, failed :
        /\ IsRun(done, retried, failed, {}) /\ done \cup retried \cup failed = {r}
        /\ failed # {} => status' = "failed"
        /\ status' # "waiting_approval"
  <2>1. CASE ApproveAndComplete(r, d)
    <3>1. IsRun({r}, {}, {}, {})
      BY <2>1, RunsAreRuns
    <3>2. status' # "waiting_approval"
      BY <2>1 DEF ApproveAndComplete, CheckCompletion, Finish
    <3> QED
      BY <3>1, <3>2
  <2>2. CASE ApproveAndRetry(r, d)
    <3>1. IsRun({}, {r}, {}, {})
      BY <2>2, RunsAreRuns
    <3>2. status' # "waiting_approval"
      BY <2>2 DEF ApproveAndRetry, CheckCompletion, Finish
    <3> QED
      BY <3>1, <3>2
  <2>3. CASE ApproveAndFail(r, d)
    <3>1. IsRun({}, {}, {r}, {})
      BY <2>3, RunsAreRuns
    <3>2. status' = "failed"
      BY <2>3 DEF ApproveAndFail, FailWorkflow, Finish
    <3> QED
      BY <3>1, <3>2
  <2> QED
    BY <2>1, <2>2, <2>3
<1>2. Decide(r, "resumed") /\ CanMoveStage(stageStatus[r], "running")
  BY DEF ApproveAndComplete, ApproveAndRetry, ApproveAndFail, ResumeGated
<1>3. stageStatus[r] = "waiting_approval" /\ approvals[r].undecided > 0
  BY <1>2 DEF Decide, CanMoveStage, OneApprovalPerWait
<1>4. IF s = r THEN /\ approvals'[s].undecided = approvals[s].undecided - 1
                    /\ approvals'[s].resumed = approvals[s].resumed + 1
               ELSE SameApprovals(s)
  BY <1>2 DEF Decide, SameApprovals, TypeOK
<1>5. CASE s = r
  BY <1>1, <1>3, <1>4, <1>5, RunEffect DEF Ran
<1>6. CASE s # r
  BY <1>1, <1>4, <1>6, RunEffect DEF Unmoved
<1> QED
  BY <1>5, <1>6

\* A stage's own transition, made by an operation that runs nothing, leaves
\* the other stages alone.
LEMMA SetStageEffect ==
  ASSUME TypeOK, NEW r \in Stages, NEW to, SetStage(r, to), UNCHANGED runs,
         NEW s \in Stages
  PROVE  /\ SameAttempt(s)
         /\ s = r => /\ CanMoveStage(stageStatus[s], to)
                     /\ stageStatus'[s] = to /\ retryAfter'[s] = NoTime
         /\ s # r => stageStatus'[s] = stageStatus[s] /\ retryAfter'[s] = retryAfter[s]
BY DEF SetStage, SameAttempt, TypeOK

\* Every step moves every stage in one of the six ways.
LEMMA StageEffect ==
  ASSUME TypeOK, OneApprovalPerWait, [Next]_vars, NEW s \in Stages
  PROVE  StageMove(s)
<1>1. CASE \/ Submit \/ Start \/ Pause \/ Resume \/ AdvanceIdle \/ Tick
           \/ UNCHANGED vars
  <2>1. UNCHANGED <<stageVars, approvals, runs>>
    BY <1>1 DEF Submit, Start, Pause, Resume, AdvanceIdle, Tick, vars, stageVars
  <2> QED
    BY <2>1 DEF stageVars, StageMove, Unmoved, SameAttempt, SameApprovals
<1>2. CASE Cancel
  <2>1. SameAttempt(s) /\ SameApprovals(s) /\ status' = "cancelled"
    BY <1>2 DEF Cancel, Finish, SameAttempt, SameApprovals
  <2>2. IF stageStatus[s] \in Cancellable
        THEN stageStatus'[s] = "cancelled" /\ retryAfter'[s] = NoTime
        ELSE stageStatus'[s] = stageStatus[s] /\ retryAfter'[s] = retryAfter[s]
    BY <1>2 DEF Cancel
  <2> QED
    BY <2>1, <2>2 DEF StageMove, Unmoved, Ended, SameApprovals
<1>3. ASSUME NEW r \in Stages, SkipStage(r) PROVE StageMove(s)
  <2>1. SetStage(r, "skipped") /\ UNCHANGED runs /\ SameApprovals(s)
    BY <1>3 DEF SkipStage, SameApprovals
  <2>2. s = r => stageStatus[s] = "pending"
    BY <2>1 DEF SetStage, CanMoveStage
  <2> QED
    BY <2>1, <2>2, SetStageEffect DEF StageMove, Unmoved, Ended, Cancellable, SameApprovals
<1>4. ASSUME NEW r \in Stages, NEW d \in Decisions,
             ApproveAndComplete(r, d) \/ ApproveAndRetry(r, d) \/ ApproveAndFail(r, d)
      PROVE  StageMove(s)
  BY <1>4, ApproveEffect DEF StageMove
<1>5. ASSUME NEW r \in Stages, NEW d \in Decisions, Reject(r, d) PROVE StageMove(s)
  <2>1. SetStage(r, "failed") /\ UNCHANGED runs /\ status' = "failed"
    BY <1>5 DEF Reject, FailWorkflow, Finish
  <2>2. stageStatus[r] = "waiting_approval" /\ approvals[r].undecided > 0
    BY <1>5, <2>1 DEF Reject, Decide, SetStage, CanMoveStage, OneApprovalPerWait
  <2>3. IF s = r THEN /\ approvals'[s].undecided = approvals[s].undecided - 1
                      /\ approvals'[s].resumed = approvals[s].resumed
                 ELSE SameApprovals(s)
    BY <1>5 DEF Reject, Decide, SameApprovals, TypeOK
  <2> QED
    BY <2>1, <2>2, <2>3, SetStageEffect DEF StageMove, Unmoved, Ended, Cancellable
<1>6. ASSUME NEW r \in Stages, NEW d \in Decisions, RejectRefused(r, d)
      PROVE  StageMove(s)
  BY <1>6 DEF RejectRefused, stageVars, StageMove, Unmoved, SameAttempt, SameApprovals
<1>7. ASSUME NEW r \in Stages, ReapEscalate(r) PROVE StageMove(s)
  <2>1. SetStage(r, "waiting_approval") /\ UNCHANGED runs /\ stageStatus[r] = "running"
    BY <1>7 DEF ReapEscalate, Reaping, TimedOut, StagesIn
  <2>2. IF s = r THEN /\ approvals'[s].undecided = approvals[s].undecided + 1
                      /\ approvals'[s].resumed = approvals[s].resumed
                 ELSE SameApprovals(s)
    BY <1>7 DEF ReapEscalate, NewApproval, SameApprovals, TypeOK
  <2> QED
    BY <2>1, <2>2, SetStageEffect DEF StageMove, Unmoved, Asked
<1>8. ASSUME NEW r \in Stages, ReapRetry(r) PROVE StageMove(s)
  <2>1. /\ SameAttempt(s) /\ SameApprovals(s)
        /\ stageStatus[r] = "running" /\ MayRetry(r)
    BY <1>8 DEF ReapRetry, Reaping, TimedOut, StagesIn, SameAttempt, SameApprovals
  <2>2. retryAfter'[r] # NoTime
    BY <1>8, AttemptNumberType DEF ReapRetry, TypeOK, NoTime
  <2>3. /\ stageStatus'[r] = "retrying"
        /\ s # r => stageStatus'[s] = stageStatus[s] /\ retryAfter'[s] = retryAfter[s]
    BY <1>8 DEF ReapRetry, TypeOK
  <2> QED
    BY <2>1, <2>2, <2>3 DEF StageMove, Unmoved, Rescheduled
<1>9. ASSUME NEW r \in Stages, ReapExhausted(r) \/ ReapCancel(r) PROVE StageMove(s)
  <2>1. PICK to \in {"failed", "cancelled"} : SetStage(r, to)
    BY <1>9 DEF ReapExhausted, ReapCancel
  <2>2. /\ UNCHANGED runs /\ SameApprovals(s) /\ stageStatus[r] = "running"
        /\ status' = "failed"
    BY <1>9 DEF ReapExhausted, ReapCancel, Reaping, TimedOut, StagesIn, SameApprovals,
                FailWorkflow, Finish
  <2> QED
    BY <2>1, <2>2, SetStageEffect DEF StageMove, Unmoved, Ended, Cancellable, SameApprovals
<1>10. ASSUME NEW done \in SUBSET Runnable, NEW retried \in SUBSET Runnable,
              NEW r \in Stages,
              \/ AdvanceRun(done, retried) \/ AdvanceToGate(r, done, retried)
              \/ AdvanceToFailure(r, done, retried)
       PROVE  StageMove(s)
  BY <1>10, AdvanceEffect DEF StageMove
<1>11. ASSUME NEW r \in Stages, StrandStage(r) PROVE StageMove(s)
  <2>1. /\ SameApprovals(s)
        /\ \/ /\ stageStatus[r] = "pending" /\ r \notin RequiresApproval
              /\ DependenciesDone(r)
           \/ stageStatus[r] = "retrying" /\ retryAfter[r] <= now
    BY <1>11
    DEF StrandStage, Runnable, Gates, PendingReady, RetryReady, StagesIn, SameApprovals
  <2>2. /\ stageStatus'[r] = "running"
        /\ s # r => stageStatus'[s] = stageStatus[s]
    BY <1>11 DEF StrandStage, TypeOK
  <2>3. IF s = r THEN /\ attempt'[s] = AttemptNumber(s) /\ runs'[s] = runs[s] + 1
                      /\ retryAfter'[s] = NoTime
                 ELSE SameAttempt(s) /\ retryAfter'[s] = retryAfter[s]
    BY <1>11 DEF StrandStage, RunStages, SameAttempt
  <2> QED
    BY <2>1, <2>2, <2>3 DEF StageMove, Unmoved, Begun, SameAttempt, SameApprovals
<1>12. Stages # {}
  BY DefinitionAssumption
<1> QED
  BY <1>1, <1>2, <1>3, <1>4, <1>5, <1>6, <1>7, <1>8, <1>9, <1>10, <1>11, <1>12
  DEF Next, Advance, ResolveApproval

-----------------------------------------------------------------------------
(* What a step does to the execution's status and its metric row.          *)

Kept == status' = status /\ metrics' = metrics

\* It goes on, in another status; it waits only for a stage that waits.
WentOn ==
  /\ status \notin TerminalWorkflow /\ status' \notin TerminalWorkflow
  /\ metrics' = metrics
  /\ status' = "waiting_approval" => \E s \in Stages : stageStatus'[s] = "waiting_approval"

\* It ended, with a row that counts what the step left.
CameToEnd ==
  /\ status \notin TerminalWorkflow /\ status' \in TerminalWorkflow
  /\ metrics' = Append(metrics, MetricRow(stageStatus', attempt'))
  /\ status' = "completed" => \A s \in Stages : stageStatus'[s] \in Done
  /\ status' = "cancelled" => \A s \in Stages : stageStatus'[s] \notin Cancellable

StatusMove == Kept \/ WentOn \/ CameToEnd

\* An execution that ended has no transition to a status the executor moves
\* to, and only cancelling and completing end it otherwise than in failure.
LEMMA StatusWrites ==
  ASSUME NEW from
  PROVE  /\ \A to \in {"pending", "running", "paused"} : Move(to) => StatusMove
         /\ FailWorkflow(from) /\ from = status => StatusMove
         /\ CheckCompletion(from) /\ from = status => StatusMove
         /\ CheckCompletion("running") /\ CanMoveWorkflow(status, "running") => StatusMove
         /\ FailWorkflow("running") /\ CanMoveWorkflow(status, "running") => StatusMove
<1> USE DEF CanMoveWorkflow, TerminalWorkflow
<1>1. \A to \in {"pending", "running", "paused"} : Move(to) => WentOn
  BY DEF Move, WentOn
<1>2. ASSUME FailWorkflow(from), from = status PROVE CameToEnd
  BY <1>2 DEF FailWorkflow, Finish, CameToEnd
<1>3. ASSUME CheckCompletion(from), from = status PROVE Kept \/ CameToEnd
  <2>1. CASE \A s \in Stages : stageStatus'[s] \in Done
    BY <1>3, <2>1 DEF CheckCompletion, Finish, CameToEnd
  <2>2. CASE ~ \A s \in Stages : stageStatus'[s] \in Done
    BY <1>3, <2>2 DEF CheckCompletion, Kept
  <2> QED
    BY <2>1, <2>2
<1>4. ASSUME CheckCompletion("running"), CanMoveWorkflow(status, "running")
      PROVE  WentOn \/ CameToEnd
  <2>1. CASE \A s \in Stages : stageStatus'[s] \in Done
    BY <1>4, <2>1 DEF CheckCompletion, Finish, CameToEnd
  <2>2. CASE ~ \A s \in Stages : stageStatus'[s] \in Done
    BY <1>4, <2>2 DEF CheckCompletion, WentOn
  <2> QED
    BY <2>1, <2>2
<1>5. ASSUME FailWorkflow("running"), CanMoveWorkflow(status, "running")
      PROVE  CameToEnd
  BY <1>5 DEF FailWorkflow, Finish, CameToEnd
<1> QED
  BY <1>1, <1>2, <1>3, <1>4, <1>5 DEF StatusMove

\* Every step writes the status in one of the three ways.
LEMMA StatusEffect ==
  ASSUME TypeOK, [Next]_vars
  PROVE  StatusMove
<1>1. CASE Submit \/ Start \/ Pause \/ Resume
  BY <1>1, StatusWrites DEF Submit, Start, Pause, Resume
<1>2. CASE Cancel
  <2>1. \A s \in Stages : stageStatus'[s] \notin Cancellable
    BY <1>2 DEF Cancel, Cancellable
  <2> QED
    BY <1>2, <2>1
    DEF Cancel, Finish, CanMoveWorkflow, TerminalWorkflow, StatusMove, CameToEnd
<1>3. ASSUME NEW s \in Stages, SkipStage(s) PROVE StatusMove
  BY <1>3 DEF SkipStage, StatusMove, Kept
<1>4. ASSUME NEW s \in Stages, NEW d \in Decisions,
             ApproveAndComplete(s, d) \/ ApproveAndRetry(s, d) \/ ApproveAndFail(s, d)
      PROVE  StatusMove
  BY <1>4, StatusWrites
  DEF ApproveAndComplete, ApproveAndRetry, ApproveAndFail, ResumeGated
<1>5. ASSUME NEW s \in Stages, NEW d \in Decisions, Reject(s, d) PROVE StatusMove
  BY <1>5, StatusWrites DEF Reject
<1>6. ASSUME NEW s \in Stages, NEW d \in Decisions, RejectRefused(s, d) PROVE StatusMove
  BY <1>6 DEF RejectRefused, StatusMove, Kept
<1>7. ASSUME NEW s \in Stages, ReapEscalate(s) PROVE StatusMove
  <2>1. stageStatus'[s] = "waiting_approval" /\ status = "running"
    BY <1>7 DEF ReapEscalate, Reaping, SetStage, TypeOK
  <2> QED
    BY <1>7, <2>1 DEF ReapEscalate, Move, StatusMove, WentOn, TerminalWorkflow
<1>8. ASSUME NEW s \in Stages, ReapRetry(s) PROVE StatusMove
  BY <1>8 DEF ReapRetry, StatusMove, Kept
<1>9. ASSUME NEW s \in Stages, ReapExhausted(s) \/ ReapCancel(s) PROVE StatusMove
  BY <1>9, StatusWrites DEF ReapExhausted, ReapCancel
<1>10. CASE AdvanceIdle
  BY <1>10, StatusWrites DEF AdvanceIdle
<1>11. ASSUME NEW done \in SUBSET Runnable, NEW retried \in SUBSET Runnable,
              NEW s \in Stages,
              AdvanceRun(done, retried) \/ AdvanceToFailure(s, done, retried)
       PROVE  StatusMove
  BY <1>11, StatusWrites DEF AdvanceRun, AdvanceToFailure
<1>12. ASSUME NEW done \in SUBSET Runnable, NEW retried \in SUBSET Runnable,
              NEW s \in Stages, AdvanceToGate(s, done, retried)
       PROVE  StatusMove
  <2>1. IsRun(done, retried, {}, {s})
    BY <1>12, RunsAreRuns
  <2>2. stageStatus'[s] = "waiting_approval"
    BY <2>1, RunEffect
  <2> QED
    BY <1>12, <2>2
    DEF AdvanceToGate, Ticking, Move, StatusMove, WentOn, TerminalWorkflow
<1>13. ASSUME NEW s \in Stages, StrandStage(s) PROVE StatusMove
  BY <1>13 DEF StrandStage, StatusMove, Kept
<1>14. CASE Tick \/ UNCHANGED vars
  BY <1>14 DEF Tick, vars, StatusMove, Kept
<1>15. Stages # {}
  BY DefinitionAssumption
<1> QED
  BY <1>1, <1>2, <1>3, <1>4, <1>5, <1>6, <1>7, <1>8, <1>9, <1>10, <1>11, <1>12,
     <1>13, <1>14, <1>15
  DEF Next, Advance, ResolveApproval

\* Once an execution has ended, a step may only skip stages that never began.
LEMMA EndedStep ==
  ASSUME TypeOK, [Next]_vars, status \in TerminalWorkflow
  PROVE  /\ UNCHANGED <<status, attempt, startedAt, approvals, metrics, runs>>
         /\ \A s \in Stages : \/ stageStatus'[s] = stageStatus[s]
                              \/ stageStatus[s] = "pending" /\ stageStatus'[s] = "skipped"
<1> USE DEF TerminalWorkflow, CanMoveWorkflow
<1>1. ASSUME NEW to PROVE ~Move(to) \/ to = "retrying" \/ to = "archived"
  BY DEF Move
<1>2. ~Finish(status, "cancelled") /\ ~Finish(status, "completed") /\ ~FailWorkflow(status)
  BY DEF Finish, FailWorkflow
<1>3. ASSUME NEW s \in Stages, SkipStage(s)
      PROVE  /\ UNCHANGED <<status, attempt, startedAt, approvals, metrics, runs>>
             /\ \A r \in Stages : \/ stageStatus'[r] = stageStatus[r]
                                  \/ /\ stageStatus[r] = "pending"
                                     /\ stageStatus'[r] = "skipped"
  BY <1>3 DEF SkipStage, SetStage, CanMoveStage, TypeOK
<1>4. ASSUME NEW s \in Stages, NEW d \in Decisions, RejectRefused(s, d)
      PROVE  UNCHANGED <<status, stageVars, approvals, metrics, runs>>
  BY <1>4 DEF RejectRefused
<1>5. ASSUME NEW s \in Stages, NEW d \in Decisions
      PROVE  /\ ~ApproveAndComplete(s, d) /\ ~ApproveAndRetry(s, d)
             /\ ~ApproveAndFail(s, d) /\ ~Reject(s, d)
  BY <1>2 DEF ApproveAndComplete, ApproveAndRetry, ApproveAndFail, ResumeGated, Reject
<1>6. ~Submit /\ ~Start /\ ~Pause /\ ~Resume /\ ~Cancel
  BY <1>1, <1>2 DEF Submit, Start, Pause, Resume, Cancel
<1>7. ~Advance
  BY DEF Advance, ReapEscalate, ReapRetry, ReapExhausted, ReapCancel, Reaping,
         AdvanceIdle, AdvanceRun, AdvanceToGate, AdvanceToFailure, Ticking
<1>8. \A s \in Stages : ~StrandStage(s)
  BY DEF StrandStage
<1>9. CASE Tick \/ UNCHANGED vars
  BY <1>9 DEF Tick, vars, stageVars
<1> QED
  BY <1>3, <1>4, <1>5, <1>6, <1>7, <1>8, <1>9 DEF Next, ResolveApproval, stageVars

-----------------------------------------------------------------------------
(* The inductive invariant.                                                *)

\* What the invariants need of one another: an approval is decided once, so
\* that a resumed stage was waiting (OneApprovalPerWait); a stage waits for
\* its retry only after a run (RunAccounting); and no failed or cancelled
\* stage is left in an execution that goes on (OutcomeAgreement).
Safe ==
  /\ TypeOK
  /\ DependencyOrder
  /\ OneApprovalPerWait
  /\ WaitingHasReason
  /\ OutcomeAgreement
  /\ RetryIsScheduled
  /\ RunAccounting
  /\ ApprovalGate
  /\ MetricIsFinal

\* A stage that is COMPLETED or SKIPPED stays so, and a stage only gets
\* anywhere by a move that found its dependencies so.
LEMMA DependencyOrderStep ==
  ASSUME TypeOK, DependencyOrder, \A s \in Stages : StageMove(s)
  PROVE  DependencyOrder'
<1>1. ASSUME NEW d \in Stages, stageStatus[d] \in Done
      PROVE  stageStatus'[d] \in Done
  BY <1>1 DEF StageMove, Unmoved, Ran, Begun, Asked, Rescheduled, Ended, Done, Cancellable
<1>2. ASSUME NEW s \in Stages,
             stageStatus'[s] \in {"running", "waiting_approval", "retrying",
                                  "completed", "failed"}
      PROVE  DependenciesDone(s)
  <2>1. StageMove(s)
    OBVIOUS
  <2>2. stageStatus[s] \in {"running", "waiting_approval", "retrying", "completed", "failed"}
          => DependenciesDone(s)
    BY DEF DependencyOrder, StagesIn
  <2> QED
    BY <1>2, <2>1, <2>2
    DEF StageMove, Unmoved, Ran, Begun, Asked, Rescheduled, Ended, Cancellable
<1>3. ASSUME NEW s \in Stages, DependenciesDone(s) PROVE DependenciesDone(s)'
  BY <1>1, <1>3, PolicyTypes DEF DependenciesDone
<1> QED
  BY <1>2, <1>3 DEF DependencyOrder, StagesIn

LEMMA OneApprovalPerWaitStep ==
  ASSUME TypeOK, OneApprovalPerWait, \A s \in Stages : StageMove(s)
  PROVE  OneApprovalPerWait'
<1>1. ASSUME NEW s \in Stages
      PROVE  /\ stageStatus'[s] = "waiting_approval" => approvals'[s].undecided = 1
             /\ approvals'[s].undecided > 0 =>
                  /\ approvals'[s].undecided = 1
                  /\ stageStatus'[s] \in {"waiting_approval", "cancelled"}
  <2>1. approvals[s].undecided \in Nat
    BY DEF TypeOK
  <2>2. /\ stageStatus[s] = "waiting_approval" => approvals[s].undecided = 1
        /\ approvals[s].undecided > 0 =>
             /\ approvals[s].undecided = 1
             /\ stageStatus[s] \in {"waiting_approval", "cancelled"}
    BY DEF OneApprovalPerWait
  <2>3. CASE Unmoved(s)
    BY <2>2, <2>3 DEF Unmoved, SameApprovals
  <2>4. CASE Ran(s)
    BY <2>1, <2>2, <2>4 DEF Ran, SameApprovals
  <2>5. CASE Begun(s) \/ Rescheduled(s)
    BY <2>1, <2>2, <2>5 DEF Begun, Rescheduled, SameApprovals
  <2>6. CASE Asked(s)
    BY <2>1, <2>2, <2>6 DEF Asked
  <2>7. CASE Ended(s)
    BY <2>1, <2>2, <2>7 DEF Ended, SameApprovals, Cancellable
  <2> QED
    BY <2>3, <2>4, <2>5, <2>6, <2>7 DEF StageMove
<1> QED
  BY <1>1 DEF OneApprovalPerWait

LEMMA WaitingHasReasonStep ==
  ASSUME TypeOK, WaitingHasReason, OneApprovalPerWait', StatusMove,
         \A s \in Stages : StageMove(s)
  PROVE  WaitingHasReason'
<1> SUFFICES ASSUME status' = "waiting_approval"
             PROVE  \E s \in Stages : stageStatus'[s] = "waiting_approval"
  BY DEF WaitingHasReason, OneApprovalPerWait
<1>1. CASE Kept
  <2>1. PICK s \in Stages : stageStatus[s] = "waiting_approval"
    BY <1>1 DEF Kept, WaitingHasReason
  <2>2. StageMove(s)
    OBVIOUS
  <2>3. stageStatus'[s] = "waiting_approval"
    BY <2>1, <2>2
    DEF StageMove, Unmoved, Ran, Begun, Asked, Rescheduled, Ended
  <2> QED
    BY <2>3
<1>2. CASE WentOn
  BY <1>2 DEF WentOn
<1>3. CASE CameToEnd
  BY <1>3 DEF CameToEnd, TerminalWorkflow
<1> QED
  BY <1>1, <1>2, <1>3 DEF StatusMove

LEMMA OutcomeAgreementStep ==
  ASSUME TypeOK, OutcomeAgreement, StatusMove, \A s \in Stages : StageMove(s)
  PROVE  OutcomeAgreement'
<1>1. ASSUME NEW s \in Stages
      PROVE  /\ stageStatus[s] \notin Cancellable => stageStatus'[s] = stageStatus[s]
             /\ stageStatus'[s] = "failed" /\ stageStatus[s] # "failed" => status' = "failed"
             /\ stageStatus'[s] = "cancelled" /\ stageStatus[s] # "cancelled" =>
                  status' \in {"failed", "cancelled"}
  <2>1. StageMove(s)
    OBVIOUS
  <2> QED
    BY <2>1
    DEF StageMove, Unmoved, Ran, Begun, Asked, Rescheduled, Ended, Cancellable
<1>2. status \in TerminalWorkflow => status' = status
  BY DEF StatusMove, Kept, WentOn, CameToEnd
<1>3. ASSUME status' = "completed" PROVE \A s \in Stages : stageStatus'[s] \in Done
  <2>1. CASE status = "completed"
    <3>1. \A s \in Stages : stageStatus[s] \in Done
      BY <2>1 DEF OutcomeAgreement, StagesIn
    <3> QED
      BY <3>1, <1>1 DEF Done, Cancellable
  <2>2. CASE status # "completed"
    BY <1>3, <2>2 DEF StatusMove, Kept, WentOn, CameToEnd, TerminalWorkflow
  <2> QED
    BY <2>1, <2>2
<1>4. ASSUME NEW s \in Stages, stageStatus'[s] = "failed" PROVE status' = "failed"
  BY <1>1, <1>2, <1>4 DEF OutcomeAgreement, StagesIn, TerminalWorkflow
<1>5. ASSUME NEW s \in Stages, stageStatus'[s] = "cancelled"
      PROVE  status' \in {"failed", "cancelled"}
  BY <1>1, <1>2, <1>5 DEF OutcomeAgreement, StagesIn, TerminalWorkflow
<1>6. ASSUME status' = "cancelled" PROVE \A s \in Stages : stageStatus'[s] \notin Cancellable
  <2>1. CASE status = "cancelled"
    <3>1. \A s \in Stages : stageStatus[s] \notin Cancellable
      BY <2>1 DEF OutcomeAgreement, StagesIn
    <3> QED
      BY <3>1, <1>1
  <2>2. CASE status # "cancelled"
    BY <1>6, <2>2 DEF StatusMove, Kept, WentOn, CameToEnd, TerminalWorkflow
  <2> QED
    BY <2>1, <2>2
<1> QED
  BY <1>3, <1>4, <1>5, <1>6 DEF OutcomeAgreement, StagesIn

LEMMA RetryIsScheduledStep ==
  ASSUME TypeOK, RetryIsScheduled, \A s \in Stages : StageMove(s)
  PROVE  RetryIsScheduled'
<1>1. ASSUME NEW s \in Stages
      PROVE  (retryAfter'[s] # NoTime) <=> (stageStatus'[s] = "retrying")
  <2>1. StageMove(s)
    OBVIOUS
  <2>2. (retryAfter[s] # NoTime) <=> (stageStatus[s] = "retrying")
    BY DEF RetryIsScheduled
  <2> QED
    BY <2>1, <2>2
    DEF StageMove, Unmoved, Ran, Begun, Asked, Rescheduled, Ended, Cancellable
<1> QED
  BY <1>1 DEF RetryIsScheduled

LEMMA RunAccountingStep ==
  ASSUME TypeOK, TypeOK', RunAccounting, \A s \in Stages : StageMove(s)
  PROVE  RunAccounting'
<1> SUFFICES ASSUME NEW s \in Stages
             PROVE  /\ stageStatus'[s] = "pending" => runs'[s] = 0
                    /\ stageStatus'[s] \in {"running", "retrying"} => runs'[s] > 0
                    /\ stageStatus'[s] = "waiting_approval" /\ s \notin RequiresApproval =>
                         runs'[s] > 0
                    /\ attempt'[s] <= RetryPolicy[s].max_attempts + 1
                    /\ stageStatus'[s] = "retrying" =>
                         attempt'[s] <= RetryPolicy[s].max_attempts
                    /\ runs'[s] = 0 => attempt'[s] = 1 /\ approvals'[s].resumed = 0
                    /\ runs'[s] > 0 =>
                         runs'[s] = attempt'[s] + approvals'[s].resumed -
                                      (IF s \in RequiresApproval THEN 1 ELSE 0)
  BY DEF RunAccounting
<1>1. /\ attempt[s] \in Nat \ {0} /\ runs[s] \in Nat /\ approvals[s].resumed \in Nat
      /\ approvals'[s].resumed \in Nat /\ RetryPolicy[s].max_attempts \in Nat
  BY PolicyTypes DEF TypeOK
<1>2. /\ stageStatus[s] = "pending" => runs[s] = 0
      /\ stageStatus[s] \in {"running", "retrying"} => runs[s] > 0
      /\ stageStatus[s] = "waiting_approval" /\ s \notin RequiresApproval => runs[s] > 0
      /\ attempt[s] <= RetryPolicy[s].max_attempts + 1
      /\ stageStatus[s] = "retrying" => attempt[s] <= RetryPolicy[s].max_attempts
      /\ runs[s] = 0 => attempt[s] = 1 /\ approvals[s].resumed = 0
      /\ runs[s] > 0 => runs[s] = attempt[s] + approvals[s].resumed -
                                    (IF s \in RequiresApproval THEN 1 ELSE 0)
  BY DEF RunAccounting
<1>3. MayRetry(s) => AttemptNumber(s) <= RetryPolicy[s].max_attempts
  BY DEF MayRetry, ShouldRetry
<1>4. CASE Unmoved(s)
  BY <1>1, <1>2, <1>4 DEF Unmoved, SameAttempt, SameApprovals
<1>5. CASE Ran(s)
  <2>1. CASE stageStatus[s] = "pending"
    BY <1>1, <1>2, <1>3, <1>5, <2>1 DEF Ran, SameApprovals, AttemptNumber
  <2>2. CASE stageStatus[s] = "retrying"
    BY <1>1, <1>2, <1>3, <1>5, <2>2 DEF Ran, SameApprovals, AttemptNumber
  <2>3. CASE stageStatus[s] = "waiting_approval"
    <3>1. /\ attempt'[s] = attempt[s] /\ runs'[s] = runs[s] + 1
          /\ approvals'[s].resumed = approvals[s].resumed + 1
          /\ stageStatus'[s] \in {"completed", "failed", "retrying"}
          /\ stageStatus'[s] = "retrying" => attempt[s] <= RetryPolicy[s].max_attempts
      BY <1>3, <1>5, <2>3 DEF Ran, AttemptNumber
    <3>2. runs'[s] = attempt'[s] + approvals'[s].resumed -
                       (IF s \in RequiresApproval THEN 1 ELSE 0)
      <4>1. CASE runs[s] = 0
        <5>1. s \in RequiresApproval
          BY <1>2, <2>3, <4>1
        <5>2. attempt[s] = 1 /\ approvals[s].resumed = 0
          BY <1>2, <4>1
        <5>3. runs'[s] = 1 /\ attempt'[s] = 1 /\ approvals'[s].resumed = 1
          BY <3>1, <4>1, <5>2
        <5> QED
          BY <5>1, <5>3
      <4>2. CASE runs[s] > 0
        BY <1>1, <1>2, <3>1, <4>2
      <4> QED
        BY <1>1, <4>1, <4>2
    <3> QED
      BY <1>1, <1>2, <3>1, <3>2
  <2> QED
    BY <1>5, <2>1, <2>2, <2>3 DEF Ran
<1>6. CASE Begun(s)
  BY <1>1, <1>2, <1>6 DEF Begun, SameApprovals, AttemptNumber
<1>7. CASE Asked(s)
  BY <1>1, <1>2, <1>7 DEF Asked, SameAttempt
<1>8. CASE Rescheduled(s)
  BY <1>1, <1>2, <1>3, <1>8 DEF Rescheduled, SameAttempt, SameApprovals, AttemptNumber
<1>9. CASE Ended(s)
  BY <1>1, <1>2, <1>9 DEF Ended, SameAttempt
<1> QED
  BY <1>4, <1>5, <1>6, <1>7, <1>8, <1>9 DEF StageMove

LEMMA ApprovalGateStep ==
  ASSUME TypeOK, RunAccounting, ApprovalGate, \A s \in Stages : StageMove(s)
  PROVE  ApprovalGate'
<1> SUFFICES ASSUME NEW s \in RequiresApproval, runs'[s] > 0
             PROVE  approvals'[s].resumed > 0
  BY DEF ApprovalGate
<1>1. s \in Stages
  BY DefinitionAssumption
<1>2. runs[s] \in Nat /\ approvals[s].resumed \in Nat
  BY <1>1 DEF TypeOK
<1>3. /\ runs[s] > 0 => approvals[s].resumed > 0
      /\ stageStatus[s] = "retrying" => runs[s] > 0
  BY <1>1 DEF ApprovalGate, RunAccounting
<1>4. StageMove(s)
  BY <1>1
<1>5. CASE Ran(s)
  BY <1>2, <1>3, <1>5 DEF Ran, SameApprovals
<1>6. CASE ~Ran(s)
  BY <1>2, <1>3, <1>4, <1>6
  DEF StageMove, Unmoved, Begun, Asked, Rescheduled, Ended, SameAttempt, SameApprovals
<1> QED
  BY <1>5, <1>6

LEMMA MetricIsFinalStep ==
  ASSUME TypeOK, MetricIsFinal, StatusMove, [Next]_vars
  PROVE  MetricIsFinal'
<1>1. CASE status \in TerminalWorkflow
  <2>1. status' = status /\ metrics' = metrics /\ attempt' = attempt
    BY <1>1, EndedStep
  <2>2. /\ {s \in Stages : stageStatus'[s] = "completed"} =
             {s \in Stages : stageStatus[s] = "completed"}
        /\ {s \in Stages : stageStatus'[s] = "failed"} =
             {s \in Stages : stageStatus[s] = "failed"}
    BY <1>1, EndedStep
  <2>3. MetricRow(stageStatus', attempt') = MetricRow(stageStatus, attempt)
    BY <2>1, <2>2 DEF MetricRow
  <2> QED
    BY <1>1, <2>1, <2>3 DEF MetricIsFinal
<1>2. CASE status \notin TerminalWorkflow
  <2>1. metrics = <<>>
    BY <1>2 DEF MetricIsFinal
  <2>2. CASE CameToEnd
    <3>1. metrics' = <<MetricRow(stageStatus', attempt')>>
      BY <2>1, <2>2 DEF CameToEnd
    <3> QED
      BY <2>2, <3>1 DEF CameToEnd, MetricIsFinal
  <2>3. CASE Kept \/ WentOn
    BY <1>2, <2>1, <2>3 DEF Kept, WentOn, MetricIsFinal
  <2> QED
    BY <2>2, <2>3 DEF StatusMove
<1> QED
  BY <1>1, <1>2

\* Safe holds in every reachable state, for every workflow definition.
LEMMA SafeInit == Init => Safe
<1> SUFFICES ASSUME Init PROVE Safe
  OBVIOUS
<1>1. TypeOK
  BY DEF Init, TypeOK, WorkflowStatuses, StageStatuses
<1>2. DependencyOrder /\ OneApprovalPerWait /\ WaitingHasReason
  BY DEF Init, DependencyOrder, OneApprovalPerWait, WaitingHasReason, StagesIn
<1>3. OutcomeAgreement /\ RetryIsScheduled /\ MetricIsFinal
  BY DEF Init, OutcomeAgreement, RetryIsScheduled, MetricIsFinal, StagesIn, TerminalWorkflow
<1>4. RunAccounting
  BY PolicyTypes DEF Init, RunAccounting
<1>5. ApprovalGate
  BY DefinitionAssumption DEF Init, ApprovalGate
<1> QED
  BY <1>1, <1>2, <1>3, <1>4, <1>5 DEF Safe

LEMMA SafeStep == Safe /\ [Next]_vars => Safe'
<1> SUFFICES ASSUME Safe, [Next]_vars PROVE Safe'
  OBVIOUS
<1>1. TypeOK /\ TypeOK'
  BY TypeStep DEF Safe
<1>2. StatusMove
  BY <1>1, StatusEffect
<1>3. \A s \in Stages : StageMove(s)
  BY <1>1, StageEffect DEF Safe
<1>4. DependencyOrder'
  BY <1>1, <1>3, DependencyOrderStep DEF Safe
<1>5. OneApprovalPerWait'
  BY <1>1, <1>3, OneApprovalPerWaitStep DEF Safe
<1>6. WaitingHasReason'
  BY <1>1, <1>2, <1>3, <1>5, WaitingHasReasonStep DEF Safe
<1>7. OutcomeAgreement'
  BY <1>1, <1>2, <1>3, OutcomeAgreementStep DEF Safe
<1>8. RetryIsScheduled'
  BY <1>1, <1>3, RetryIsScheduledStep DEF Safe
<1>9. RunAccounting'
  BY <1>1, <1>3, RunAccountingStep DEF Safe
<1>10. ApprovalGate'
  BY <1>1, <1>3, ApprovalGateStep DEF Safe
<1>11. MetricIsFinal'
  BY <1>1, <1>2, MetricIsFinalStep DEF Safe
<1> QED
  BY <1>1, <1>4, <1>5, <1>6, <1>7, <1>8, <1>9, <1>10, <1>11 DEF Safe

LEMMA SafeAlways == Spec => []Safe
BY SafeInit, SafeStep, PTL DEF Spec

\* A definition's dependency graph has no cycle, so among the stages that are
\* not done there is one that waits for no other: were it neither FAILED nor
\* CANCELLED, the execution can go on with it.
LEMMA SomeStageCanMove ==
  ASSUME TypeOK, OutcomeAgreement
  PROVE  NeverStuck
<1> SUFFICES ASSUME status = "running", StagesIn(Done) # Stages
             PROVE  \E s \in StagesIn(Cancellable) : DependenciesDone(s)
  BY DEF NeverStuck
<1> DEFINE undone == Stages \ StagesIn(Done)
<1>1. undone \in SUBSET Stages /\ undone # {}
  BY DEF StagesIn
<1>2. PICK s \in undone : DependsOn[s] \cap undone = {}
  BY <1>1, DefinitionAssumption
<1>3. DependenciesDone(s)
  BY <1>2, PolicyTypes DEF DependenciesDone, StagesIn
<1>4. stageStatus[s] \notin {"failed", "cancelled"}
  BY <1>2 DEF OutcomeAgreement, StagesIn
<1>5. s \in StagesIn(Cancellable)
  BY <1>2, <1>4 DEF TypeOK, StageStatuses, StagesIn, Done, Cancellable
<1> QED
  BY <1>3, <1>5

-----------------------------------------------------------------------------
(* The theorems.                                                           *)

\* Whatever is requested, paused, retried or timed out, no stage gets anywhere
\* before its dependencies are COMPLETED or SKIPPED.
THEOREM RunsInDependencyOrder == Spec => []DependencyOrder
BY SafeAlways, PTL DEF Safe

\* A stage behind a gate is never handed to the runner before a human let it.
THEOREM GatesHold == Spec => []ApprovalGate
BY SafeAlways, PTL DEF Safe

\* A waiting stage has one undecided approval, and only waiting stages and
\* cancelled ones have any.
THEOREM ApprovalsMatchWaiting == Spec => []OneApprovalPerWait
BY SafeAlways, PTL DEF Safe

\* An execution that waits for approval has a waiting stage with an approval
\* somebody can decide.
THEOREM WaitsHaveReasons == Spec => []WaitingHasReason
BY SafeAlways, PTL DEF Safe

\* The execution's status and its stages' agree on how the execution ended.
THEOREM OutcomesAgree == Spec => []OutcomeAgreement
BY SafeAlways, PTL DEF Safe

\* No run is lost, made twice or made beyond the retry policy.
THEOREM RunsAreAccounted == Spec => []RunAccounting
BY SafeAlways, PTL DEF Safe

\* A date is set exactly for the stages that wait for a retry.
THEOREM RetriesAreScheduled == Spec => []RetryIsScheduled
BY SafeAlways, PTL DEF Safe

\* An ended execution has one metric row, and the row stays true.
THEOREM MetricsAreFinal == Spec => []MetricIsFinal
BY SafeAlways, PTL DEF Safe

\* A RUNNING execution always has a stage that can still move, or is done.
THEOREM ExecutionsNeverStick == Spec => []NeverStuck
<1>1. Safe => NeverStuck
  BY SomeStageCanMove DEF Safe
<1> QED
  BY <1>1, SafeAlways, PTL

\* Nothing runs, retries or is decided after the end.
THEOREM EndsAreFinal == Spec => EndIsFinal
<1>1. Safe /\ [Next]_vars =>
        [(status \in TerminalWorkflow) =>
           /\ UNCHANGED <<status, attempt, startedAt, approvals, metrics, runs>>
           /\ \A s \in Stages : stageStatus'[s] \in {stageStatus[s], "skipped"}]_vars
  BY EndedStep DEF Safe
<1> QED
  BY <1>1, SafeAlways, PTL DEF Spec, EndIsFinal

\* No retry is made before its backoff has passed.
THEOREM BackoffsAreRespected == Spec => BackoffRespected
<1>1. ASSUME Safe, [Next]_vars, NEW s \in Stages,
             stageStatus[s] = "retrying", runs'[s] > runs[s]
      PROVE  retryAfter[s] <= now
  <2>1. StageMove(s) /\ runs[s] \in Nat
    BY <1>1, StageEffect DEF Safe, TypeOK
  <2> QED
    BY <1>1, <2>1
    DEF StageMove, Unmoved, Ran, Begun, Asked, Rescheduled, Ended, SameAttempt
<1>2. Safe /\ [Next]_vars =>
        [\A s \in Stages :
           stageStatus[s] = "retrying" /\ runs'[s] > runs[s] => retryAfter[s] <= now]_vars
  BY <1>1
<1> QED
  BY <1>2, SafeAlways, PTL DEF Spec, BackoffRespected

-----------------------------------------------------------------------------
(* The rows implement ExecutionContract.                                   *)

\* Only skip_stage skips, and only cancel() cancels an execution.
LEMMA StepKinds ==
  ASSUME TypeOK, [Next]_vars
  PROVE  \/ \E s \in Stages : SkipStage(s)
         \/ Cancel
         \/ /\ \A s \in Stages : stageStatus'[s] = "skipped" => stageStatus[s] = "skipped"
            /\ status' = "cancelled" => status = "cancelled"
<1> DEFINE Plain ==
      /\ \A s \in Stages : stageStatus'[s] = "skipped" => stageStatus[s] = "skipped"
      /\ status' = "cancelled" => status = "cancelled"
<1>1. CASE \/ Submit \/ Start \/ Pause \/ Resume \/ AdvanceIdle \/ Tick
           \/ UNCHANGED vars
  <2>1. stageStatus' = stageStatus
    BY <1>1 DEF Submit, Start, Pause, Resume, AdvanceIdle, Tick, vars, stageVars
  <2>2. status' = "cancelled" => status = "cancelled"
    BY <1>1 DEF Submit, Start, Pause, Resume, AdvanceIdle, Tick, vars, Move,
                CheckCompletion, Finish
  <2> QED BY <2>1, <2>2
<1>2. ASSUME NEW done, NEW retried, NEW failed, NEW gated, NEW s \in Stages,
             stageStatus' = StatusAfter(done, retried, failed, gated),
             stageStatus'[s] = "skipped"
      PROVE  stageStatus[s] = "skipped"
  BY <1>2 DEF StatusAfter
<1>3. ASSUME NEW from, from \in {status, "running"},
             CheckCompletion(from) \/ FailWorkflow(from), status' = "cancelled"
      PROVE  status = "cancelled"
  BY <1>3 DEF CheckCompletion, FailWorkflow, Finish
<1>4. ASSUME NEW s \in Stages, NEW d \in Decisions,
             ApproveAndComplete(s, d) \/ ApproveAndRetry(s, d) \/ ApproveAndFail(s, d)
      PROVE  Plain
  BY <1>2, <1>3, <1>4 DEF ApproveAndComplete, ApproveAndRetry, ApproveAndFail
<1>5. ASSUME NEW s \in Stages, NEW to \in {"failed", "cancelled", "waiting_approval"},
             SetStage(s, to)
      PROVE  \A x \in Stages : stageStatus'[x] = "skipped" => stageStatus[x] = "skipped"
  BY <1>5 DEF SetStage, TypeOK
<1>6. ASSUME NEW s \in Stages, NEW d \in Decisions, Reject(s, d) \/ RejectRefused(s, d)
      PROVE  Plain
  BY <1>3, <1>5, <1>6 DEF Reject, RejectRefused, stageVars
<1>7. ASSUME NEW s \in Stages, ReapEscalate(s) \/ ReapExhausted(s) \/ ReapCancel(s)
      PROVE  Plain
  BY <1>3, <1>5, <1>7 DEF ReapEscalate, ReapExhausted, ReapCancel, Move
<1>8. ASSUME NEW s \in Stages, ReapRetry(s) \/ StrandStage(s) PROVE Plain
  BY <1>8 DEF ReapRetry, StrandStage, TypeOK
<1>9. ASSUME NEW done \in SUBSET Runnable, NEW retried \in SUBSET Runnable,
             NEW s \in Stages,
             \/ AdvanceRun(done, retried) \/ AdvanceToGate(s, done, retried)
             \/ AdvanceToFailure(s, done, retried)
      PROVE  Plain
  BY <1>2, <1>3, <1>9 DEF AdvanceRun, AdvanceToGate, AdvanceToFailure, Move
<1>10. Stages # {}
  BY DefinitionAssumption
<1> QED
  BY <1>1, <1>4, <1>6, <1>7, <1>8, <1>9, <1>10
  DEF Next, Advance, ResolveApproval

\* What a step does to the stages the contract speaks of.
LEMMA ContractStages ==
  ASSUME Safe, Safe', NEW s \in Stages, StageMove(s)
  PROVE  /\ stageStatus[s] = "completed" => stageStatus'[s] = "completed"
         /\ stageStatus[s] = "skipped" => stageStatus'[s] = "skipped"
         /\ approvals[s].resumed > 0 => approvals'[s].resumed > 0
         /\ stageStatus'[s] = "completed" /\ stageStatus[s] # "completed" =>
              /\ DependenciesDone(s)
              /\ stageStatus[s] # "skipped"
              /\ s \in RequiresApproval => approvals'[s].resumed > 0
<1> USE DEF StageMove, Unmoved, Begun, Asked, Rescheduled, Ended, SameApprovals, Cancellable
<1>1. /\ stageStatus[s] = "completed" => stageStatus'[s] = "completed"
      /\ stageStatus[s] = "skipped" => stageStatus'[s] = "skipped"
  BY DEF Ran
<1>2. approvals[s].resumed \in Nat /\ runs[s] \in Nat
  BY DEF Safe, TypeOK
<1>3. approvals[s].resumed > 0 => approvals'[s].resumed > 0
  BY <1>2 DEF Ran
<1>4. ASSUME stageStatus'[s] = "completed", stageStatus[s] # "completed"
      PROVE  /\ DependenciesDone(s)
             /\ stageStatus[s] # "skipped"
             /\ s \in RequiresApproval => approvals'[s].resumed > 0
  <2>1. Ran(s)
    BY <1>4
  <2>2. stageStatus[s] \in {"retrying", "waiting_approval"} => DependenciesDone(s)
    BY DEF Safe, DependencyOrder, StagesIn
  <2>3. runs'[s] > 0
    BY <1>2, <2>1 DEF Ran
  <2>4. s \in RequiresApproval => approvals'[s].resumed > 0
    BY <2>3 DEF Safe, ApprovalGate
  <2> QED BY <2>1, <2>2, <2>4 DEF Ran
<1> QED BY <1>1, <1>3, <1>4

\* Every step of an execution is a step of the contract, or none.
LEMMA ContractStep ==
  ASSUME Safe, [Next]_vars
  PROVE  [Contract!Next]_(Contract!contractVars)
<1> DEFINE C == StagesIn({"completed"})
           S == StagesIn({"skipped"})
           A == {s \in Stages : approvals[s].resumed > 0}
           O == IF status \in TerminalWorkflow THEN status ELSE "open"
<1>1. TypeOK /\ Safe' /\ \A s \in Stages : StageMove(s)
  BY SafeStep, StageEffect DEF Safe
<1>2. ASSUME NEW s \in Stages, SkipStage(s) PROVE Contract!Skip(s)
  <2>1. /\ stageStatus[s] = "pending" /\ stageStatus'[s] = "skipped"
        /\ \A x \in Stages : x # s => stageStatus'[x] = stageStatus[x]
        /\ status' = status /\ approvals' = approvals
    BY <1>1, <1>2 DEF SkipStage, SetStage, CanMoveStage, TypeOK
  <2>2. S' = S \cup {s} /\ C' = C /\ s \notin C \cup S /\ A' = A /\ O' = O
    BY <2>1 DEF StagesIn
  <2> QED BY <2>2 DEF Contract!Skip
<1>3. ASSUME Cancel PROVE Contract!Cancel
  <2>1. /\ status \notin TerminalWorkflow /\ status' = "cancelled"
        /\ approvals' = approvals
        /\ \A x \in Stages : stageStatus[x] \in Done \/ stageStatus'[x] \in Done =>
                              stageStatus'[x] = stageStatus[x]
    BY <1>3 DEF Cancel, Finish, CanMoveWorkflow, TerminalWorkflow, Cancellable, Done
  <2>2. S' = S /\ C' = C /\ A' = A
    BY <2>1 DEF StagesIn, Done
  <2>3. O = "open" /\ O' = "cancelled"
    BY <2>1 DEF TerminalWorkflow
  <2> QED BY <2>2, <2>3 DEF Contract!Cancel
<1>4. ASSUME \A s \in Stages : stageStatus'[s] = "skipped" => stageStatus[s] = "skipped",
             status' = "cancelled" => status = "cancelled"
      PROVE  \/ \E ran, resumed \in SUBSET Stages : Contract!Work(ran, resumed)
             \/ UNCHANGED Contract!contractVars
  <2>1. S' = S /\ C \subseteq C' /\ A \subseteq A'
    BY <1>1, <1>4, ContractStages DEF StagesIn
  <2>2. CASE status \in TerminalWorkflow
    <3>1. /\ status' = status /\ approvals' = approvals
          /\ \A s \in Stages : stageStatus'[s] = stageStatus[s]
      BY <1>1, <1>4, <2>2, EndedStep
    <3>2. C' = C /\ A' = A /\ O' = O
      BY <3>1 DEF StagesIn
    <3> QED BY <2>1, <3>2 DEF Contract!contractVars
  <2>3. CASE status \notin TerminalWorkflow
    <3>1. O = "open" /\ O' \in {"open", "failed", "completed"}
      BY <1>4, <2>3 DEF TerminalWorkflow
    <3>2. O' = "completed" => C' \cup S = Stages
      <4>1. O' = "completed" => status' = "completed"
        OBVIOUS
      <4>2. status' = "completed" => \A s \in Stages : stageStatus'[s] \in Done
        BY <1>1 DEF Safe, OutcomeAgreement, StagesIn
      <4> QED BY <2>1, <4>1, <4>2 DEF StagesIn, Done
    <3>3. ASSUME NEW s \in C' \ C
          PROVE  /\ s \notin C \cup S /\ DependsOn[s] \subseteq C \cup S
                 /\ s \in RequiresApproval => s \in A'
      <4>1. s \in Stages /\ stageStatus'[s] = "completed" /\ stageStatus[s] # "completed"
        BY DEF StagesIn
      <4>2. DependsOn[s] \subseteq Stages
        BY <4>1, DefinitionAssumption
      <4> QED BY <1>1, <4>1, <4>2, ContractStages DEF StagesIn, DependenciesDone, Done
    <3>4. PICK ran, resumed : ran = C' \ C /\ resumed = A' \ A
      OBVIOUS
    <3>5. /\ ran \in SUBSET Stages /\ resumed \in SUBSET Stages
          /\ C' = C \cup ran /\ A' = A \cup resumed
      BY <2>1, <3>4 DEF StagesIn
    <3>6. Contract!Work(ran, resumed)
      <4> HIDE DEF C, S, A, O
      <4>1. /\ ran \cap (C \cup S) = {}
            /\ \A s \in ran : DependsOn[s] \subseteq C \cup S
            /\ ran \cap RequiresApproval \subseteq A'
        BY <3>3, <3>4
      <4> QED BY <2>1, <3>1, <3>2, <3>5, <4>1 DEF Contract!Work, C, S, A, O
    <3> QED BY <3>5, <3>6
  <2> QED BY <2>2, <2>3
<1> QED BY <1>1, <1>2, <1>3, <1>4, StepKinds DEF Contract!Next

\* An execution with nothing done yet is where the contract starts.
LEMMA ContractInit == Init => Contract!Init
<1> SUFFICES ASSUME Init PROVE Contract!Init
  OBVIOUS
<1>1. status \notin TerminalWorkflow
  BY DEF Init, TerminalWorkflow
<1>2. \A s \in Stages : stageStatus[s] = "pending" /\ ~(approvals[s].resumed > 0)
  BY DEF Init
<1> QED BY <1>1, <1>2 DEF Contract!Init, StagesIn

\* Whatever is retried, escalated, skipped, paused, rejected or cancelled, an
\* execution keeps its contract: it implements ExecutionContract.
THEOREM ContractKept == Spec => ImplementsContract
BY ContractInit, ContractStep, SafeAlways, PTL DEF Spec, ImplementsContract, Contract!Spec
=============================================================================
