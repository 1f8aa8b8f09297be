--------------------------- MODULE WorkflowStates ---------------------------
(***************************************************************************)
(* The status vocabulary of a workflow execution and of its stages, and    *)
(* the two transition tables every status change is validated against      *)
(* (workflow_enums.py, state_machine.py).  An illegal transition raises    *)
(* InvalidTransitionError, which rolls the caller's transaction back, so   *)
(* in the modules above this one it is a guard that disables the step.     *)
(***************************************************************************)

WorkflowStatuses ==
  {"draft", "pending", "running", "paused", "waiting_approval", "retrying",
   "completed", "failed", "cancelled", "archived"}

StageStatuses ==
  {"pending", "running", "waiting_approval", "retrying", "completed",
   "failed", "skipped", "cancelled"}

\* The legal targets of each workflow status, and of each stage status.
CanMoveWorkflow(from, to) ==
  \/ from = "draft"            /\ to \in {"pending", "cancelled"}
  \/ from = "pending"          /\ to \in {"running", "cancelled"}
  \/ from = "running"          /\ to \in {"paused", "waiting_approval", "retrying",
                                          "completed", "failed", "cancelled"}
  \/ from = "paused"           /\ to \in {"running", "cancelled"}
  \/ from = "waiting_approval" /\ to \in {"running", "failed", "cancelled"}
  \/ from = "retrying"         /\ to \in {"running", "failed", "cancelled"}
  \/ from = "completed"        /\ to = "archived"
  \/ from = "failed"           /\ to \in {"retrying", "archived"}
  \/ from = "cancelled"        /\ to = "archived"

CanMoveStage(from, to) ==
  \/ from = "pending"          /\ to \in {"running", "waiting_approval", "skipped",
                                          "cancelled"}
  \/ from = "running"          /\ to \in {"waiting_approval", "retrying", "completed",
                                          "failed", "cancelled"}
  \/ from = "waiting_approval" /\ to \in {"running", "failed", "cancelled"}
  \/ from = "retrying"         /\ to \in {"running", "failed", "cancelled"}
  \/ from = "failed"           /\ to = "retrying"

\* Reaching one of these stamps completed_at and writes the metric row.
TerminalWorkflow == {"completed", "failed", "cancelled"}

\* A dependency in one of these is satisfied.
Done == {"completed", "skipped"}

\* cancel() sweeps the stages in one of these.
Cancellable == {"pending", "running", "waiting_approval", "retrying"}
=============================================================================
