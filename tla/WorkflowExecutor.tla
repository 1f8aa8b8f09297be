-------------------------- MODULE WorkflowExecutor --------------------------
(***************************************************************************)
(* One workflow execution as WorkflowExecutor (executor.py) and            *)
(* WorkflowStateManager (state_manager.py) drive it.  Every action is one  *)
(* committed transaction around one public operation of the executor;      *)
(* an operation that raises is rolled back, so it is a disabled action.    *)
(*                                                                         *)
(* The rows are modelled by the columns decisions are made on: the         *)
(* execution's status, each stage execution's status, attempt_number,      *)
(* started_at and retry_after, the approval rows and the metric row.       *)
(* runs and rolledBack record the calls made on the StageRunner.           *)
(***************************************************************************)
EXTENDS WorkflowStates, Policies, FiniteSets, SequencesExt

CONSTANTS
  Stages,            \* the stage ids of the workflow definition
  StageOrder,        \* the definition's stages list, in order
  DependsOn,         \* DependsOn[s]: the stages s waits for
  RequiresApproval,  \* the stages gated by a human before they first run
  AllowSkip,         \* the stages skip_stage may skip
  RetryPolicy,       \* RetryPolicy[s]: the stage's retry_policy
  TimeoutPolicy,     \* TimeoutPolicy[s]: the stage's timeout
  Strandable,        \* the stages whose run may be left RUNNING and committed
  MaxTime,           \* bound: the clock stops here unless a retry waits for
                     \* it, and no run is stranded that would time out later
  MaxRollbackCalls   \* bound: a refused rejection is not repeated past this

\* What a WorkflowDefinition that passed its validators guarantees.  The
\* last conjunct says the dependency graph has no cycle: every non-empty set
\* of stages has a member that depends on no other member.
ASSUME DefinitionAssumption ==
  /\ StageOrder \in Seq(Stages)
  /\ Stages # {} /\ IsFiniteSet(Stages)
  /\ DependsOn \in [Stages -> SUBSET Stages]
  /\ RequiresApproval \subseteq Stages
  /\ AllowSkip \subseteq Stages
  /\ Strandable \subseteq Stages
  /\ MaxTime \in Nat /\ MaxRollbackCalls \in Nat
  /\ \A S \in SUBSET Stages : S # {} => \E s \in S : DependsOn[s] \cap S = {}

ASSUME OrderAssumption ==
  /\ \A s \in Stages : \E i \in 1..Len(StageOrder) : StageOrder[i] = s
  /\ \A i, j \in 1..Len(StageOrder) : StageOrder[i] = StageOrder[j] => i = j

\* Function and record membership spelled out field by field, so that TLC
\* can evaluate it, and the one fact about exponentiation the proofs need.
ASSUME PolicyAssumption ==
  /\ DOMAIN RetryPolicy = Stages /\ DOMAIN TimeoutPolicy = Stages
  /\ \A s \in Stages :
       /\ RetryPolicy[s].max_attempts \in Nat
       /\ TimeoutPolicy[s].seconds \in (Nat \ {0}) \cup {NoTime}
       /\ TimeoutPolicy[s].on_timeout \in TimeoutActions
       /\ \A n \in 1..RetryPolicy[s].max_attempts :
            BackoffSeconds(RetryPolicy[s], n) \in Nat

VARIABLES
  status,       \* workflow_executions.status
  stageStatus,  \* workflow_stage_executions.status
  attempt,      \* attempt_number
  startedAt,    \* started_at, or NoTime
  retryAfter,   \* retry_after, or NoTime
  approvals,    \* per stage, how many approval rows are undecided,
                \* decided so as to resume, decided so as to halt
  metrics,      \* the workflow_metrics rows of this execution
  runs,         \* how often runner.run was called on each stage
  rolledBack,   \* the runner.rollback calls, in order
  now           \* datetime.now(UTC), in seconds

stageVars == <<stageStatus, attempt, startedAt, retryAfter>>
vars == <<status, stageVars, approvals, metrics, runs, rolledBack, now>>

-----------------------------------------------------------------------------
(* Reading the rows.                                                       *)

StagesIn(set) == {s \in Stages : stageStatus[s] \in set}

DependenciesDone(s) == \A d \in DependsOn[s] : stageStatus[d] \in Done

PendingReady_Unconditional == StagesIn({"pending"})
PendingReady == {s \in StagesIn({"pending"}) : DependenciesDone(s)}

RetryReady_IgnoringBackoff == StagesIn({"retrying"})
RetryReady ==
  {s \in StagesIn({"retrying"}) : retryAfter[s] # NoTime /\ retryAfter[s] <= now}

\* The ready stages that stop a tick at their approval gate.  A stage being
\* retried has passed its gate already.
Gates_None == {}
Gates == PendingReady \cap RequiresApproval

\* The ready stages a tick runs.
Runnable == (PendingReady \cup RetryReady) \ Gates

\* The attempt that running s now makes.
AttemptNumber_Unchanged(s) == attempt[s]
AttemptNumber(s) ==
  IF stageStatus[s] = "retrying" THEN attempt[s] + 1 ELSE attempt[s]

MayRetry(s) == ShouldRetry(RetryPolicy[s], AttemptNumber(s))

TimedOut ==
  {s \in StagesIn({"running"}) :
     startedAt[s] # NoTime /\ HasTimedOut(TimeoutPolicy[s], startedAt[s], now)}

-----------------------------------------------------------------------------
(* Writing the rows.                                                       *)

\* _record_metric: stages_completed, stages_failed and retries_total.
MetricRow(st, att) ==
  [stages_completed |-> Cardinality({s \in Stages : st[s] = "completed"}),
   stages_failed    |-> Cardinality({s \in Stages : st[s] = "failed"}),
   retries_total    |-> SumFunction([s \in Stages |-> att[s] - 1])]

\* transition_workflow to a terminal status, from the status the operation
\* has brought the execution to.
Finish_StaleRow(from, to) ==
  /\ CanMoveWorkflow(from, to)
  /\ status' = to
  /\ metrics' = metrics \o <<MetricRow(stageStatus, attempt)>>
Finish(from, to) ==
  /\ CanMoveWorkflow(from, to)
  /\ status' = to
  /\ metrics' = Append(metrics, MetricRow(stageStatus', attempt'))

\* transition_workflow to any other status.
Move(to) ==
  /\ CanMoveWorkflow(status, to)
  /\ status' = to
  /\ UNCHANGED metrics

\* _check_completion, once an operation has brought the status to from.
CheckCompletion(from) ==
  IF \A s \in Stages : stageStatus'[s] \in Done
  THEN Finish(from, "completed")
  ELSE status' = from /\ UNCHANGED metrics

\* _rollback_completed_stages: the COMPLETED stages, last defined first.
RollbackOrder_Forward(completed) ==
  SelectSeq(StageOrder, LAMBDA s : s \in completed)
RollbackOrder(completed) ==
  LET upTo[i \in 0..Len(StageOrder)] ==
        IF i = 0 THEN <<>>
        ELSE IF StageOrder[i] \in completed THEN <<StageOrder[i]>> \o upTo[i - 1]
        ELSE upTo[i - 1]
  IN  upTo[Len(StageOrder)]

\* _fail_workflow.
FailWorkflow_NoRollback(from) ==
  /\ Finish(from, "failed")
  /\ UNCHANGED rolledBack
FailWorkflow(from) ==
  /\ rolledBack' = rolledBack \o
       RollbackOrder({s \in Stages : stageStatus'[s] = "completed"})
  /\ Finish(from, "failed")

-----------------------------------------------------------------------------
(* Running stages.                                                         *)

\* The columns _run_and_apply_stage_result leaves behind when it ran the
\* stages of done, retried and failed, each with that result.  reset_started_at
\* makes a retry a new attempt; retry_after is overwritten on every transition.
RunStages(done, retried, failed) ==
  LET ran == done \cup retried \cup failed
  IN  /\ attempt' = [s \in Stages |-> IF s \in ran THEN AttemptNumber(s) ELSE attempt[s]]
      /\ startedAt' =
           [s \in Stages |->
              IF s \in ran /\ (stageStatus[s] = "retrying" \/ startedAt[s] = NoTime)
              THEN now ELSE startedAt[s]]
      /\ retryAfter' =
           [s \in Stages |->
              CASE s \in retried -> now + BackoffSeconds(RetryPolicy[s], AttemptNumber(s))
                [] s \in done \cup failed -> NoTime
                [] OTHER -> retryAfter[s]]
      /\ runs' = [s \in Stages |-> IF s \in ran THEN runs[s] + 1 ELSE runs[s]]

\* The statuses those stages end in, and the gated ones.
StatusAfter(done, retried, failed, gated) ==
  [s \in Stages |->
     CASE s \in done    -> "completed"
       [] s \in retried -> "retrying"
       [] s \in failed  -> "failed"
       [] s \in gated   -> "waiting_approval"
       [] OTHER         -> stageStatus[s]]

\* The runs a tick may have made before it reached stopper, or before it
\* ended: retry-ready stages come first, within a group the order is the
\* database's.  A stage that fails for good ends the tick itself.
Results(done, retried) ==
  /\ done \cap retried = {}
  /\ \A s \in retried : MayRetry(s)
RanBefore(stopper, ran) ==
  /\ stopper \notin ran
  /\ stopper \in PendingReady => RetryReady \subseteq ran
  /\ stopper \in RetryReady => ran \subseteq RetryReady

\* transition_stage of one stage, outside a run.
SetStage(s, to) ==
  /\ CanMoveStage(stageStatus[s], to)
  /\ stageStatus' = [stageStatus EXCEPT ![s] = to]
  /\ retryAfter' = [retryAfter EXCEPT ![s] = NoTime]
  /\ UNCHANGED <<attempt, startedAt>>

-----------------------------------------------------------------------------
(* The operations.                                                         *)

\* create_execution: DRAFT, one PENDING stage execution per stage.
Init ==
  /\ status = "draft"
  /\ stageStatus = [s \in Stages |-> "pending"]
  /\ attempt = [s \in Stages |-> 1]
  /\ startedAt = [s \in Stages |-> NoTime]
  /\ retryAfter = [s \in Stages |-> NoTime]
  /\ approvals = [s \in Stages |-> [undecided |-> 0, resumed |-> 0, halted |-> 0]]
  /\ metrics = <<>>
  /\ runs = [s \in Stages |-> 0]
  /\ rolledBack = <<>>
  /\ now = 0

Submit ==
  /\ Move("pending")
  /\ UNCHANGED <<stageVars, approvals, runs, rolledBack, now>>

Start ==
  /\ Move("running")
  /\ UNCHANGED <<stageVars, approvals, runs, rolledBack, now>>

Pause ==
  /\ Move("paused")
  /\ UNCHANGED <<stageVars, approvals, runs, rolledBack, now>>

\* start and resume are the same transition.  The table alone decides where it
\* is legal: from PENDING and PAUSED, and also from WAITING_APPROVAL.
Resume ==
  /\ Move("running")
  /\ UNCHANGED <<stageVars, approvals, runs, rolledBack, now>>

Cancel_KeepingWaiting ==
  /\ stageStatus' = [s \in Stages |-> IF stageStatus[s] \in Cancellable \ {"waiting_approval"}
                                      THEN "cancelled" ELSE stageStatus[s]]
  /\ retryAfter' = [s \in Stages |-> IF stageStatus[s] \in Cancellable
                                     THEN NoTime ELSE retryAfter[s]]
  /\ UNCHANGED <<attempt, startedAt>>
  /\ Finish(status, "cancelled")
  /\ UNCHANGED <<approvals, runs, rolledBack, now>>
Cancel_KeepingRetryAfter ==
  /\ stageStatus' = [s \in Stages |-> IF stageStatus[s] \in Cancellable
                                      THEN "cancelled" ELSE stageStatus[s]]
  /\ UNCHANGED <<attempt, startedAt, retryAfter>>
  /\ Finish(status, "cancelled")
  /\ UNCHANGED <<approvals, runs, rolledBack, now>>
Cancel ==
  /\ stageStatus' = [s \in Stages |-> IF stageStatus[s] \in Cancellable
                                      THEN "cancelled" ELSE stageStatus[s]]
  /\ retryAfter' = [s \in Stages |-> IF stageStatus[s] \in Cancellable
                                     THEN NoTime ELSE retryAfter[s]]
  /\ UNCHANGED <<attempt, startedAt>>
  /\ Finish(status, "cancelled")
  /\ UNCHANGED <<approvals, runs, rolledBack, now>>

\* skip_stage looks at the stage alone, never at the workflow's status.
SkipStage(s) ==
  /\ s \in AllowSkip
  /\ SetStage(s, "skipped")
  /\ UNCHANGED <<status, approvals, metrics, runs, rolledBack, now>>

(* resolve_approval on the undecided row of stage s.                       *)

\* The row is decided; deciding it a second time raises.
Decide_Unguarded(s, field) ==
  approvals' = [approvals EXCEPT ![s].undecided = @ - 1, ![s][field] = @ + 1]
Decide_NotRecorded(s, field) ==
  /\ approvals[s].undecided > 0
  /\ approvals' = [approvals EXCEPT ![s][field] = @ + 1]
Decide(s, field) ==
  /\ approvals[s].undecided > 0
  /\ approvals' = [approvals EXCEPT ![s].undecided = @ - 1, ![s][field] = @ + 1]

\* APPROVE and REQUEST_CHANGES run the stage at once, as its current attempt,
\* with one of three results.
ResumeGated(s, decision) ==
  /\ decision \in Resuming
  /\ Decide(s, "resumed")
  /\ CanMoveWorkflow(status, "running")
  /\ CanMoveStage(stageStatus[s], "running")
  /\ UNCHANGED now

ApproveAndComplete(s, decision) ==
  /\ ResumeGated(s, decision)
  /\ stageStatus' = StatusAfter({s}, {}, {}, {})
  /\ RunStages({s}, {}, {})
  /\ CheckCompletion("running")
  /\ UNCHANGED rolledBack

ApproveAndRetry(s, decision) ==
  /\ ResumeGated(s, decision)
  /\ MayRetry(s)
  /\ stageStatus' = StatusAfter({}, {s}, {}, {})
  /\ RunStages({}, {s}, {})
  /\ CheckCompletion("running")
  /\ UNCHANGED rolledBack

ApproveAndFail(s, decision) ==
  /\ ResumeGated(s, decision)
  /\ ~MayRetry(s)
  /\ stageStatus' = StatusAfter({}, {}, {s}, {})
  /\ RunStages({}, {}, {s})
  /\ FailWorkflow("running")

\* REJECT and TIMEOUT fail the stage and the workflow.
Reject_StageOnly(s, decision) ==
  /\ decision \in Halting
  /\ Decide(s, "halted")
  /\ SetStage(s, "failed")
  /\ UNCHANGED <<status, metrics, rolledBack, runs, now>>
Reject(s, decision) ==
  /\ decision \in Halting
  /\ Decide(s, "halted")
  /\ SetStage(s, "failed")
  /\ FailWorkflow(status)
  /\ UNCHANGED <<runs, now>>

\* A rejection the workflow's status does not allow (PAUSED, or FAILED by
\* another stage).  The transition table is consulted last, when the rollback
\* hooks have run: the transaction is rolled back, the calls are not.
RejectRefused(s, decision) ==
  /\ decision \in Halting
  /\ approvals[s].undecided > 0
  /\ CanMoveStage(stageStatus[s], "failed")
  /\ ~CanMoveWorkflow(status, "failed")
  /\ Len(rolledBack) < MaxRollbackCalls
  /\ rolledBack' = rolledBack \o RollbackOrder(StagesIn({"completed"}))
  /\ UNCHANGED <<status, stageVars, approvals, metrics, runs, now>>

-----------------------------------------------------------------------------
(* advance(), one tick of a RUNNING execution.  It reaps one stage that    *)
(* timed out, or else runs what is ready until something stops it.         *)

NewApproval_Forgotten(s) == UNCHANGED approvals
NewApproval(s) == approvals' = [approvals EXCEPT ![s].undecided = @ + 1]

Reaping(s, action) ==
  /\ status = "running"
  /\ s \in TimedOut
  /\ TimeoutPolicy[s].on_timeout = action
  /\ UNCHANGED <<runs, now>>

ReapEscalate(s) ==
  /\ Reaping(s, "escalate")
  /\ NewApproval(s)
  /\ SetStage(s, "waiting_approval")
  /\ Move("waiting_approval")
  /\ UNCHANGED rolledBack

ReapRetry(s) ==
  /\ Reaping(s, "retry")
  /\ MayRetry(s)
  /\ CanMoveStage(stageStatus[s], "retrying")
  /\ stageStatus' = [stageStatus EXCEPT ![s] = "retrying"]
  /\ retryAfter' = [retryAfter EXCEPT ![s] =
                      now + BackoffSeconds(RetryPolicy[s], AttemptNumber(s))]
  /\ UNCHANGED <<status, attempt, startedAt, approvals, metrics, rolledBack>>

ReapExhausted(s) ==
  /\ Reaping(s, "retry")
  /\ ~MayRetry(s)
  /\ SetStage(s, "failed")
  /\ FailWorkflow(status)
  /\ UNCHANGED approvals

ReapCancel_KeepingWorkflow(s) ==
  /\ Reaping(s, "cancel")
  /\ SetStage(s, "cancelled")
  /\ UNCHANGED <<status, metrics, rolledBack, approvals>>
ReapCancel(s) ==
  /\ Reaping(s, "cancel")
  /\ SetStage(s, "cancelled")
  /\ FailWorkflow(status)
  /\ UNCHANGED approvals

\* Past the reaper.
Ticking_InAnyStatus ==
  /\ TimedOut = {}
  /\ UNCHANGED now
Ticking ==
  /\ status = "running"
  /\ TimedOut = {}
  /\ UNCHANGED now

\* Nothing is ready: the tick only looks whether everything is done.
AdvanceIdle ==
  /\ Ticking
  /\ Gates \cup Runnable = {}
  /\ UNCHANGED <<stageVars, approvals, runs, rolledBack>>
  /\ CheckCompletion(status)

\* Every ready stage ran, and none of them failed for good.
AdvanceRun(done, retried) ==
  /\ Ticking
  /\ Results(done, retried)
  /\ Gates = {} /\ Runnable # {} /\ done \cup retried = Runnable
  /\ stageStatus' = StatusAfter(done, retried, {}, {})
  /\ RunStages(done, retried, {})
  /\ CheckCompletion(status)
  /\ UNCHANGED <<approvals, rolledBack>>

\* The tick stopped at a gate.
AdvanceToGate(gate, done, retried) ==
  /\ Ticking
  /\ Results(done, retried)
  /\ gate \in Gates /\ RanBefore(gate, done \cup retried)
  /\ NewApproval(gate)
  /\ stageStatus' = StatusAfter(done, retried, {}, {gate})
  /\ RunStages(done, retried, {})
  /\ Move("waiting_approval")
  /\ UNCHANGED rolledBack

\* The tick stopped at a stage that failed with no retry left.
AdvanceToFailure(failure, done, retried) ==
  /\ Ticking
  /\ Results(done, retried)
  /\ failure \in Runnable /\ ~MayRetry(failure)
  /\ RanBefore(failure, done \cup retried)
  /\ stageStatus' = StatusAfter(done, retried, {failure}, {})
  /\ RunStages(done, retried, {failure})
  /\ FailWorkflow(status)
  /\ UNCHANGED approvals

Advance ==
  \/ \E s \in Stages : \/ ReapEscalate(s) \/ ReapRetry(s)
                       \/ ReapExhausted(s) \/ ReapCancel(s)
  \/ AdvanceIdle
  \/ \E done \in SUBSET Runnable, retried \in SUBSET Runnable :
       \/ AdvanceRun(done, retried)
       \/ \E s \in Stages : \/ AdvanceToGate(s, done, retried)
                            \/ AdvanceToFailure(s, done, retried)

ResolveApproval ==
  \E s \in Stages, decision \in Decisions :
    \/ ApproveAndComplete(s, decision) \/ ApproveAndRetry(s, decision)
    \/ ApproveAndFail(s, decision)     \/ Reject(s, decision)
    \/ RejectRefused(s, decision)

\* A stage whose run has begun and has not returned, in a committed state:
\* what the reaper is there for, and what the tests set up directly.
StrandStage(s) ==
  /\ s \in Strandable
  /\ now + TimeoutPolicy[s].seconds < MaxTime   \* bound: its timeout can still pass
  /\ status = "running"
  /\ s \in Runnable
  /\ stageStatus' = [stageStatus EXCEPT ![s] = "running"]
  /\ RunStages({s}, {}, {})
  /\ UNCHANGED <<status, approvals, metrics, rolledBack, now>>

\* The clock.  It stops at MaxTime unless a retry is waiting for it.
Tick ==
  /\ now < MaxTime \/ \E s \in Stages : retryAfter[s] > now
  /\ now' = now + 1
  /\ UNCHANGED <<status, stageVars, approvals, metrics, runs, rolledBack>>

Next ==
  \/ Submit \/ Start \/ Pause \/ Resume \/ Cancel
  \/ \E s \in Stages : SkipStage(s)
  \/ ResolveApproval
  \/ Advance
  \/ \E s \in Stages : StrandStage(s)
  \/ Tick

Spec == Init /\ [][Next]_vars

-----------------------------------------------------------------------------
(* Properties.                                                             *)

TypeOK ==
  /\ status \in WorkflowStatuses
  /\ stageStatus \in [Stages -> StageStatuses]
  /\ attempt \in [Stages -> Nat \ {0}]
  /\ startedAt \in [Stages -> Nat \cup {NoTime}]
  /\ retryAfter \in [Stages -> Nat \cup {NoTime}]
  /\ approvals \in [Stages -> [undecided : Nat, resumed : Nat, halted : Nat]]
  /\ runs \in [Stages -> Nat]
  /\ now \in Nat

\* No stage gets anywhere, in whatever way it is started or retried, before
\* everything it depends on is COMPLETED or SKIPPED (advance's readiness test
\* is made once, on rows that later operations keep changing).
DependencyOrder ==
  \A s \in StagesIn({"running", "waiting_approval", "retrying", "completed", "failed"}) :
    DependenciesDone(s)

\* A stage that requires approval is never handed to the runner before a
\* human resumed it, whatever pauses, resumes and retries come in between.
ApprovalGate ==
  \A s \in RequiresApproval : runs[s] > 0 => approvals[s].resumed > 0

\* A stage waits exactly as long as it has an undecided approval row, and it
\* never has two: a human can always decide it, and only once.  Cancelling
\* leaves the row undecided.
OneApprovalPerWait ==
  \A s \in Stages :
    /\ stageStatus[s] = "waiting_approval" => approvals[s].undecided = 1
    /\ approvals[s].undecided > 0 =>
         approvals[s].undecided = 1 /\ stageStatus[s] \in {"waiting_approval", "cancelled"}

\* An execution that waits for approval has a stage somebody can decide.
WaitingHasReason ==
  status = "waiting_approval" =>
    \E s \in Stages : stageStatus[s] = "waiting_approval" /\ approvals[s].undecided > 0

\* The execution's status and its stages' agree on how it ended: COMPLETED
\* only when every stage is done, a stage failed for good only in a FAILED
\* execution, a stage cancelled only in an ended one, and CANCELLED leaves no
\* stage that could still run.
OutcomeAgreement ==
  /\ status = "completed" => StagesIn(Done) = Stages
  /\ StagesIn({"failed"}) # {} => status = "failed"
  /\ StagesIn({"cancelled"}) # {} => status \in {"failed", "cancelled"}
  /\ status = "cancelled" => StagesIn(Cancellable) = {}

\* Each run of a stage is its next attempt or a human's resumption, none is
\* lost or made twice, and retries stay within the policy.  A stage has been
\* run once it is RUNNING or RETRYING, or waits without a gate of its own.
RunAccounting ==
  \A s \in Stages :
    /\ stageStatus[s] = "pending" => runs[s] = 0
    /\ stageStatus[s] \in {"running", "retrying"} => runs[s] > 0
    /\ stageStatus[s] = "waiting_approval" /\ s \notin RequiresApproval => runs[s] > 0
    /\ attempt[s] <= RetryPolicy[s].max_attempts + 1
    /\ stageStatus[s] = "retrying" => attempt[s] <= RetryPolicy[s].max_attempts
    /\ runs[s] = 0 => attempt[s] = 1 /\ approvals[s].resumed = 0
    /\ runs[s] > 0 =>
         runs[s] = attempt[s] + approvals[s].resumed -
                     (IF s \in RequiresApproval THEN 1 ELSE 0)

\* A retry is scheduled exactly for the stages that are RETRYING: a cleared
\* status never leaves a date behind (state_manager.py's comment), and a
\* stage is never RETRYING with no date at which it becomes ready.
RetryIsScheduled ==
  \A s \in Stages : (retryAfter[s] # NoTime) <=> (stageStatus[s] = "retrying")

\* An execution that ended has one metric row, and it still tells the truth:
\* no later operation changes what it counted.  An execution that goes on has
\* none (workflow_execution_id is unique, a second row could not be inserted).
MetricIsFinal ==
  metrics = IF status \in TerminalWorkflow THEN <<MetricRow(stageStatus, attempt)>> ELSE <<>>

\* The definition lists each stage after those it depends on.  Nothing in the
\* code requires it.
ListedInOrder ==
  \A i, j \in 1..Len(StageOrder) : StageOrder[i] \in DependsOn[StageOrder[j]] => i < j

\* The operation that failed an execution ended by rolling back every stage
\* that was completed, each of them once, and dependents before what they
\* depend on if the definition lists its stages in dependency order.
FailureRollsBack ==
  status = "failed" =>
    LET completed == StagesIn({"completed"})
        last == SubSeq(rolledBack, Len(rolledBack) - Cardinality(completed) + 1, Len(rolledBack))
    IN  /\ Len(rolledBack) >= Cardinality(completed)
        /\ \A s \in completed : \E i \in DOMAIN last : last[i] = s
        /\ ListedInOrder => \A i, j \in DOMAIN last : i < j => last[i] \notin DependsOn[last[j]]

\* A RUNNING execution is never stuck: all is done, or some stage with its
\* dependencies satisfied can be run, is being run, waits for its retry or
\* waits for a human.
NeverStuck ==
  status = "running" =>
    \/ StagesIn(Done) = Stages
    \/ \E s \in StagesIn(Cancellable) : DependenciesDone(s)

\* Once an execution has ended, nothing runs, retries or decides any more:
\* only PENDING stages may still be marked skipped.
EndIsFinal ==
  [][(status \in TerminalWorkflow) =>
       /\ UNCHANGED <<status, attempt, startedAt, approvals, metrics, runs>>
       /\ \A s \in Stages : stageStatus'[s] \in {stageStatus[s], "skipped"}]_vars

\* A RETRYING stage is not run again before its backoff has passed.
BackoffRespected ==
  [][\A s \in Stages :
       stageStatus[s] = "retrying" /\ runs'[s] > runs[s] => retryAfter[s] <= now]_vars

\* The rows only ever tell what ExecutionContract allows: stages complete in
\* dependency order and behind their gates, no result is taken back, and the
\* outcome is decided once, by what the stages have come to.
Contract == INSTANCE ExecutionContract WITH
  outcome   <- IF status \in TerminalWorkflow THEN status ELSE "open",
  completed <- StagesIn({"completed"}),
  skipped   <- StagesIn({"skipped"}),
  approved  <- {s \in Stages : approvals[s].resumed > 0}

ImplementsContract == Contract!Spec

-----------------------------------------------------------------------------
(* What the documentation says and the code does not do.                   *)

\* Rolling back is part of failing: executor.py:168-170 says a rejection
\* halts the workflow, rollback included.  RejectRefused calls the hooks and
\* leaves the execution PAUSED, with its completed stages undone.
RollbackMeansFailed == rolledBack # <<>> => status = "failed"

\* A gated stage can be approved: executor.py:166 says APPROVE resumes the
\* gated stage and runs it now.  resume on a WAITING_APPROVAL execution makes
\* it RUNNING, from where the transition to RUNNING is refused.
OpenApprovalCanResume ==
  \A s \in StagesIn({"waiting_approval"}) :
    status \notin TerminalWorkflow => CanMoveWorkflow(status, "running")
=============================================================================
