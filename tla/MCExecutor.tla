----------------------------- MODULE MCExecutor -----------------------------
(***************************************************************************)
(* A small workflow for TLC: a stage retried up to twice, behind which a   *)
(* gated stage and one that may be skipped are ready side by side.         *)
(***************************************************************************)
EXTENDS WorkflowExecutor

CONSTANTS build, review, ship

MCStages == {build, review, ship}
MCStageOrder == <<build, review, ship>>
MCDependsOn == (build :> {}) @@ (review :> {build}) @@ (ship :> {build})
MCRequiresApproval == {review}
MCAllowSkip == {ship}

Retries(n) == [max_attempts |-> n, backoff_seconds |-> 1,
               backoff_multiplier |-> 2, max_backoff_seconds |-> 2]
MCRetryPolicy == (build :> Retries(2)) @@ (review :> Retries(1)) @@ (ship :> Retries(0))
NoTimeout == [seconds |-> NoTime, on_timeout |-> "cancel"]
MCTimeoutPolicy == [s \in MCStages |-> NoTimeout]
MCStrandable == {}
=============================================================================
