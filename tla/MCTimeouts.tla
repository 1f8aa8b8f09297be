----------------------------- MODULE MCTimeouts -----------------------------
(***************************************************************************)
(* Stages that can be left RUNNING, one for each on_timeout action, and a  *)
(* stage that completes first, so that a failure has something to roll     *)
(* back.                                                                   *)
(***************************************************************************)
EXTENDS WorkflowExecutor

CONSTANTS fetch, retried, escalated, cancelled

MCStages == {fetch, retried, escalated, cancelled}
MCStageOrder == <<fetch, retried, escalated, cancelled>>
MCDependsOn == (fetch :> {}) @@ (retried :> {fetch}) @@ (escalated :> {fetch})
                 @@ (cancelled :> {fetch})
MCRequiresApproval == {}
MCAllowSkip == {}

Retries(n) == [max_attempts |-> n, backoff_seconds |-> 1,
               backoff_multiplier |-> 1, max_backoff_seconds |-> 1]
MCRetryPolicy == (fetch :> Retries(0)) @@ (retried :> Retries(1))
                   @@ (escalated :> Retries(0)) @@ (cancelled :> Retries(0))
Timeout(action) == [seconds |-> 1, on_timeout |-> action]
MCTimeoutPolicy ==
  (fetch :> [seconds |-> NoTime, on_timeout |-> "cancel"]) @@ (retried :> Timeout("retry"))
    @@ (escalated :> Timeout("escalate")) @@ (cancelled :> Timeout("cancel"))
MCStrandable == {retried, escalated, cancelled}
=============================================================================
