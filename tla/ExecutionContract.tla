--------------------------- MODULE ExecutionContract ---------------------------
(***************************************************************************)
(* What a workflow execution promises whoever reads it: which stages count *)
(* as done, which of them a human let through, and how it came out.  No    *)
(* attempts, dates, approval rows, queue or transactions.                  *)
(***************************************************************************)
CONSTANTS
  Stages,
  DependsOn,         \* DependsOn[s]: the stages s waits for
  RequiresApproval   \* the stages a human must have let through

VARIABLES
  outcome,    \* "open", or how the execution ended
  completed,  \* the stages that were run to completion
  skipped,    \* the stages somebody decided to do without
  approved    \* the stages a human has resumed

contractVars == <<outcome, completed, skipped, approved>>

Init ==
  /\ outcome = "open"
  /\ completed = {} /\ skipped = {} /\ approved = {}

\* Of an open execution the stages of ran complete, each of them once, after
\* all it depends on was done before, and behind a human's decision where it
\* needs one.  The execution may come to its end by it: failed at any time,
\* completed when nothing is left to do.
Work(ran, resumed) ==
  /\ outcome = "open"
  /\ ran \cap (completed \cup skipped) = {}
  /\ \A s \in ran : DependsOn[s] \subseteq completed \cup skipped
  /\ approved' = approved \cup resumed
  /\ ran \cap RequiresApproval \subseteq approved'
  /\ completed' = completed \cup ran
  /\ outcome' \in {"open", "failed", "completed"}
  /\ outcome' = "completed" => completed' \cup skipped = Stages
  /\ UNCHANGED skipped

Cancel ==
  /\ outcome = "open"
  /\ outcome' = "cancelled"
  /\ UNCHANGED <<completed, skipped, approved>>

\* A stage that never ran is marked as skipped, even after the end.
Skip(s) ==
  /\ s \notin completed \cup skipped
  /\ skipped' = skipped \cup {s}
  /\ UNCHANGED <<outcome, completed, approved>>

Next ==
  \/ \E ran, resumed \in SUBSET Stages : Work(ran, resumed)
  \/ Cancel
  \/ \E s \in Stages : Skip(s)

Spec == Init /\ [][Next]_contractVars
================================================================================
