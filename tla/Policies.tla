------------------------------ MODULE Policies ------------------------------
(***************************************************************************)
(* The three pure decision modules the executor consults: whether and when *)
(* a failed attempt is retried (retry_engine.py), whether a RUNNING stage  *)
(* has exceeded its timeout (timeout_engine.py), and what a human decision *)
(* means for the gated stage (approval_engine.py).  Seconds are natural    *)
(* numbers here; the code's are floats.                                    *)
(***************************************************************************)
EXTENDS Integers

\* A nullable timestamp or duration that is null.
NoTime == -1

TimeoutActions == {"retry", "escalate", "cancel"}

-----------------------------------------------------------------------------
\* max_attempts counts retries: attempt n may be followed by another one
\* while n <= max_attempts.
ShouldRetry_OffByOne(policy, n) == n <= policy.max_attempts + 1
ShouldRetry(policy, n) == n <= policy.max_attempts

\* The delay after attempt n failed: exponential in n, capped.
BackoffSeconds(policy, n) ==
  LET raw == policy.backoff_seconds * policy.backoff_multiplier ^ (n - 1)
  IN  IF raw < policy.max_backoff_seconds THEN raw ELSE policy.max_backoff_seconds

\* Strictly longer than the limit, and never without a limit.
HasTimedOut(policy, started, time) ==
  /\ policy.seconds # NoTime
  /\ time - started > policy.seconds

-----------------------------------------------------------------------------
Decisions == {"approve", "reject", "request_changes", "escalate", "timeout"}

\* The decisions that resume the gated stage and those that halt the
\* workflow.  "escalate" is in neither: it raises
\* UnsupportedApprovalDecisionError and changes nothing.
Resuming == {"approve", "request_changes"}
Halting  == {"reject", "timeout"}
=============================================================================
