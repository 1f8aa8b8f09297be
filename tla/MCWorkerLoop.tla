---------------------------- MODULE MCWorkerLoop ----------------------------
(***************************************************************************)
(* Two workers drive a workflow with two root stages, one retried once,    *)
(* and a gated stage behind the other one.                                 *)
(***************************************************************************)
EXTENDS WorkerLoop

CONSTANTS lint, test, deploy

MCStages == {lint, test, deploy}
MCStageOrder == <<lint, test, deploy>>
MCDependsOn == (lint :> {}) @@ (test :> {}) @@ (deploy :> {lint})
MCRequiresApproval == {deploy}
MCAllowSkip == {lint}

Retries(n) == [max_attempts |-> n, backoff_seconds |-> 1,
               backoff_multiplier |-> 1, max_backoff_seconds |-> 1]
MCRetryPolicy == (lint :> Retries(0)) @@ (test :> Retries(1)) @@ (deploy :> Retries(0))
MCTimeoutPolicy == [s \in MCStages |-> [seconds |-> NoTime, on_timeout |-> "cancel"]]
MCStrandable == {}
=============================================================================
