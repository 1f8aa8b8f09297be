----------------------------- MODULE MCSessions -----------------------------
(***************************************************************************)
(* Two sessions on a workflow of two stages: build, which may be skipped,  *)
(* and a gated review behind it, for which two ticks can each insert an    *)
(* approval row.                                                           *)
(***************************************************************************)
EXTENDS ExecutionSessions, TLC

CONSTANTS s1, s2, build, review, first, second

MCSessions == {s1, s2}
MCStages == {build, review}
MCDependsOn == (build :> {}) @@ (review :> {build})
MCRequiresApproval == {review}
MCAllowSkip == {build}
MCApprovals == {first, second}
MCAboutStage == (first :> review) @@ (second :> review)

\* The sessions, and the ids of the approvals, are interchangeable.
Symmetry == Permutations(MCSessions) \cup Permutations(MCApprovals)
=============================================================================
