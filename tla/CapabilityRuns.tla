---------------------------- MODULE CapabilityRuns ----------------------------
(***************************************************************************)
(* CapabilityStageRunner.run: a stage's capability looked up, checked and  *)
(* executed by CapabilityExecutor, for a capability that renders one       *)
(* prompt and makes one routed call (PromptDrivenCapability).  It shares   *)
(* the registry and the providers with the callers of ModelRouter.         *)
(***************************************************************************)
EXTENDS ModelRouter

CONSTANT Flaws  \* the sets of flaws a run may have

\* What can be wrong with a run, in the order in which it would be noticed,
\* and the exception's family.
Checks == <<"reference", "definition", "permissions", "input", "context", "prompt">>
Family(error) ==
  CASE error = "reference" -> "InvalidCapabilityReferenceError"
    [] error \in {"definition", "permissions", "input", "context", "output"} ->
         "CapabilityRegistryError"
    [] OTHER -> "Exception"

ASSUME FlawAssumption ==
  \A f \in Flaws : f \subseteq {Checks[k] : k \in DOMAIN Checks} \cup {"output"}

VARIABLES
  flaws,   \* flaws[c]: what is wrong with the run
  report   \* report[c]: "none" yet, a StageRunResult, or "raised"

runVars == <<flaws, report>>
vars == <<routerVars, runVars>>

Init ==
  /\ RouterInit
  /\ flaws = [c \in Calls |-> {}]
  /\ report = [c \in Calls |-> "none"]

-----------------------------------------------------------------------------
\* run()'s three except clauses.
Caught_RegistryOnly == {"InvalidCapabilityReferenceError", "CapabilityRegistryError"}
Caught == {"InvalidCapabilityReferenceError", "CapabilityRegistryError", "Exception"}

ReportError(c, error) ==
  report' = [report EXCEPT ![c] = IF Family(error) \in Caught THEN error ELSE "raised"]

\* The first check that fails ends the run; otherwise the capability's
\* supported_models are routed, with no retry policy and no recorder.
RunStage(c, models, flawed) ==
  LET failing == {k \in DOMAIN Checks : Checks[k] \in flawed}
  IN  /\ call[c].pc = "idle"
      /\ flaws' = [flaws EXCEPT ![c] = flawed]
      /\ IF failing = {}
         THEN Start(c, models, 0, FALSE, NoProject) /\ UNCHANGED report
         ELSE /\ ReportError(c, Checks[CHOOSE k \in failing : \A j \in failing : k <= j])
              /\ call' = [call EXCEPT ![c].pc = "reported"]
      /\ UNCHANGED <<active, saved, clock, flushed, ledger>>

\* What complete() returned or raised, the output's validation, and run()'s
\* answer to the executor.
EndStage(c) ==
  /\ call[c].pc = "done" /\ ~call[c].recorded
  /\ call' = [call EXCEPT ![c].pc = "reported"]
  /\ \/ call[c].outcome # "answered" /\ ReportError(c, call[c].outcome)
     \/ /\ call[c].outcome = "answered" /\ "output" \in flaws[c]
        /\ ReportError(c, "output")
     \/ /\ call[c].outcome = "answered" /\ "output" \notin flaws[c]
        /\ report' = [report EXCEPT ![c] = "success"]
  /\ UNCHANGED <<flaws, active, saved, clock, flushed, ledger>>

Next ==
  \/ RouterNext /\ UNCHANGED runVars
  \/ \E c \in Calls :
       \/ \E models \in Chains, flawed \in Flaws : RunStage(c, models, flawed)
       \/ EndStage(c)

Spec == Init /\ [][Next]_vars

-----------------------------------------------------------------------------
\* A run never raises into the executor's tick, which would lose the tick; it
\* succeeds exactly if nothing was wrong with it and a model answered; and one
\* that is refused for its reference, its permissions, its input or its prompt
\* has asked no model.
StageRunsReported ==
  \A c \in Calls :
    /\ report[c] # "raised"
    /\ report[c] = "success" <=>
         call[c].pc = "reported" /\ call[c].outcome = "answered" /\ flaws[c] = {}
    /\ report[c] \in {Checks[k] : k \in DOMAIN Checks} => call[c].total = 0
===============================================================================
