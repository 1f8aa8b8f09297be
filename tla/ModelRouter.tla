----------------------------- MODULE ModelRouter -----------------------------
(***************************************************************************)
(* complete() of router.py: an ordered list of candidate models, each      *)
(* asked until it answers or its retries are used up, while profiles are   *)
(* saved and deactivated and other calls run; and the usage_ledger row of  *)
(* an answer, written in the session of the caller (persistence.py).       *)
(*                                                                         *)
(* A call goes on between two awaits without interruption.  Here another   *)
(* call may come in between, which no property can tell from one that came *)
(* before the await.  Messages, texts and delays are left out; a timeout   *)
(* is a failed attempt.  Money is counted in hundredths of a millionth of  *)
(* a dollar, so that a price is cents per million tokens.                  *)
(***************************************************************************)
EXTENDS Integers, Sequences, FiniteSets

CONSTANTS
  Calls,       \* each is used once
  ModelKeys,   \* the strings a list of candidates may hold
  Registered,  \* those the ModelRegistry has a profile for
  Provider,    \* Provider[m]: the provider profile m names
  Configured,  \* the providers the router was given
  Managed,     \* the profiles that may be saved late or deactivated
  PriceIn,     \* cost_per_1m_input,
  PriceOut,    \* cost_per_1m_output, in cents
  Chains,      \* the lists of candidates
  Retries,     \* the max_attempts of the callers' retry policies
  TokenCounts, \* the pairs of input and output tokens an answer may use
  Projects,
  NoProject,   \* project_id is None
  NoModel,
  MaxTime      \* bound on the clock

ASSUME RouterAssumption ==
  /\ Registered \subseteq ModelKeys
  /\ Chains \subseteq Seq(ModelKeys)
  /\ Retries \subseteq Nat
  /\ TokenCounts \subseteq Nat \X Nat
  /\ PriceIn \in [Registered -> Nat] /\ PriceOut \in [Registered -> Nat]
  /\ MaxTime \in Nat

VARIABLES
  active,   \* the registered profiles with is_active
  saved,    \* the keys with a model_profiles row
  clock,
  call,     \* call[c]: the local state of complete() and of its caller
  flushed,  \* flushed[c]: the rows c's session has inserted, uncommitted
  ledger    \* the committed usage_ledger rows

routerVars == <<active, saved, clock, call, flushed, ledger>>

NoAnswer == [model |-> NoModel, tokens |-> <<0, 0>>, cost |-> 0]

RouterInit ==
  /\ active = Registered
  /\ saved \in {Registered, Registered \ Managed}
  /\ clock = 0
  /\ call = [c \in Calls |->
       [pc |-> "idle", recorded |-> FALSE, models |-> << >>, retries |-> 0,
        project |-> NoProject, begun |-> 0, at |-> 1, attempt |-> 0, total |-> 0,
        failures |-> << >>, answer |-> NoAnswer, outcome |-> "none"]]
  /\ flushed = [c \in Calls |-> {}]
  /\ ledger = {}

-----------------------------------------------------------------------------
(* The registry, the repository and the clock.                             *)

\* ModelRegistry.deactivate.
Deactivate(m) ==
  /\ m \in active \cap Managed
  /\ active' = active \ {m}
  /\ UNCHANGED <<saved, clock, call, flushed, ledger>>

\* ModelProfileRepository.save, committed.
Save(m) ==
  /\ m \in Managed \ saved
  /\ saved' = saved \cup {m}
  /\ UNCHANGED <<active, clock, call, flushed, ledger>>

Tick ==
  /\ clock < MaxTime
  /\ clock' = clock + 1
  /\ UNCHANGED <<active, saved, call, flushed, ledger>>

-----------------------------------------------------------------------------
(* The chain.                                                              *)

Start(c, models, retries, recorded, project) ==
  call' = [call EXCEPT ![c] =
    [@ EXCEPT !.pc = "candidate", !.models = models, !.retries = retries,
              !.recorded = recorded, !.project = project, !.begun = clock,
              !.failures = [k \in DOMAIN models |-> 0]]]

\* A caller with a ledger of its own session.
Complete(c, models, retries, project) ==
  /\ call[c].pc = "idle"
  /\ Start(c, models, retries, TRUE, project)
  /\ UNCHANGED <<active, saved, clock, flushed, ledger>>

Candidate(c) == call[c].models[call[c].at]

AtCandidate(c) == call[c].pc = "candidate" /\ call[c].at \in DOMAIN call[c].models

Raise(c, error) ==
  call' = [call EXCEPT ![c].pc = "done", ![c].outcome = error]

\* AllModelsExhaustedError, of an empty list too.
Exhaust(c) ==
  /\ call[c].pc = "candidate" /\ call[c].at > Len(call[c].models)
  /\ Raise(c, "exhausted")
  /\ UNCHANGED <<active, saved, clock, flushed, ledger>>

\* ModelNotFoundError: the lookup is outside the try, the rest is not tried.
UnknownModel(c) ==
  /\ AtCandidate(c) /\ Candidate(c) \notin Registered
  /\ Raise(c, "not found")
  /\ UNCHANGED <<active, saved, clock, flushed, ledger>>

Usable(m) == m \in active /\ Provider[m] \in Configured

SkipModel(c) ==
  /\ AtCandidate(c) /\ Candidate(c) \in Registered
  /\ ~Usable(Candidate(c))
  /\ call' = [call EXCEPT ![c].at = @ + 1]
  /\ UNCHANGED <<active, saved, clock, flushed, ledger>>

Ask(c) ==
  /\ AtCandidate(c) /\ Candidate(c) \in Registered
  /\ Usable(Candidate(c))
  /\ call' = [call EXCEPT ![c].pc = "asking", ![c].attempt = 1, ![c].total = @ + 1]
  /\ UNCHANGED <<active, saved, clock, flushed, ledger>>

\* The provider raises, or the timeout passes: the same candidate again, or
\* the next one.  is_active is not read again.
FailAttempt_OneShort(c) ==
  LET this == call[c]
      failures == [this.failures EXCEPT ![this.at] = @ + 1]
  IN  /\ this.pc = "asking"
      /\ call' = [call EXCEPT ![c] =
           IF this.attempt >= this.retries
           THEN [this EXCEPT !.failures = failures, !.pc = "candidate", !.at = @ + 1]
           ELSE [this EXCEPT !.failures = failures, !.attempt = @ + 1, !.total = @ + 1]]
      /\ UNCHANGED <<active, saved, clock, flushed, ledger>>
FailAttempt(c) ==
  LET this == call[c]
      failures == [this.failures EXCEPT ![this.at] = @ + 1]
  IN  /\ this.pc = "asking"
      /\ call' = [call EXCEPT ![c] =
           IF this.attempt > this.retries
           THEN [this EXCEPT !.failures = failures, !.pc = "candidate", !.at = @ + 1]
           ELSE [this EXCEPT !.failures = failures, !.attempt = @ + 1, !.total = @ + 1]]
      /\ UNCHANGED <<active, saved, clock, flushed, ledger>>

\* _compute_cost.
Cost(m, tokens) == tokens[1] * PriceIn[m] + tokens[2] * PriceOut[m]

\* The answer goes to the recorder, if the caller gave one, before it goes to
\* the caller.
Answer(c, tokens) ==
  /\ call[c].pc = "asking"
  /\ call' = [call EXCEPT
       ![c].pc = IF call[c].recorded THEN "record" ELSE "done",
       ![c].outcome = IF call[c].recorded THEN "none" ELSE "answered",
       ![c].answer = [model |-> Candidate(c), tokens |-> tokens,
                      cost |-> Cost(Candidate(c), tokens)]]
  /\ UNCHANGED <<active, saved, clock, flushed, ledger>>

-----------------------------------------------------------------------------
(* UsageLedger.                                                            *)

\* cost_usd is NUMERIC(12, 6): a row holds whole millionths of a dollar,
\* rounded half up.
Stored(cost) == (cost + 50) \div 100

\* created_at is when the session's transaction began: with the caller's own
\* first statement, or with this one.
Row(c, at) ==
  [call |-> c, model |-> call[c].answer.model, project |-> call[c].project,
   tokens |-> call[c].answer.tokens, cost |-> Stored(call[c].answer.cost),
   created_at |-> at]

Record_Committed(c) ==
  /\ call[c].pc = "record" /\ call[c].answer.model \in saved
  /\ ledger' = ledger \cup {Row(c, clock)}
  /\ call' = [call EXCEPT ![c].pc = "done", ![c].outcome = "answered"]
  /\ UNCHANGED <<active, saved, clock, flushed>>
Record(c) ==
  /\ call[c].pc = "record" /\ call[c].answer.model \in saved
  /\ \E at \in {call[c].begun, clock} :
       flushed' = [flushed EXCEPT ![c] = @ \cup {Row(c, at)}]
  /\ call' = [call EXCEPT ![c].pc = "done", ![c].outcome = "answered"]
  /\ UNCHANGED <<active, saved, clock, ledger>>

\* ModelNotFoundError again: the answer was paid for and is lost.
RecordFails(c) ==
  /\ call[c].pc = "record" /\ call[c].answer.model \notin saved
  /\ Raise(c, "unrecorded")
  /\ UNCHANGED <<active, saved, clock, flushed, ledger>>

\* The caller ends its session, or its process dies in it.
Commit(c) ==
  /\ call[c].pc = "done" /\ call[c].recorded
  /\ ledger' = ledger \cup flushed[c]
  /\ flushed' = [flushed EXCEPT ![c] = {}]
  /\ call' = [call EXCEPT ![c].pc = "committed"]
  /\ UNCHANGED <<active, saved, clock>>

Rollback(c) ==
  /\ call[c].pc \notin {"idle", "committed", "rolled back"} /\ call[c].recorded
  /\ flushed' = [flushed EXCEPT ![c] = {}]
  /\ call' = [call EXCEPT ![c].pc = "rolled back"]
  /\ UNCHANGED <<active, saved, clock, ledger>>

-----------------------------------------------------------------------------
Route(c) ==
  \/ Exhaust(c) \/ UnknownModel(c) \/ SkipModel(c) \/ Ask(c) \/ FailAttempt(c)
  \/ \E tokens \in TokenCounts : Answer(c, tokens)

RouterNext ==
  \/ \E m \in Registered : Deactivate(m) \/ Save(m)
  \/ Tick
  \/ \E c \in Calls :
       \/ \E models \in Chains, retries \in Retries, project \in Projects \cup {NoProject} :
            Complete(c, models, retries, project)
       \/ Route(c) \/ Record(c) \/ RecordFails(c) \/ Commit(c) \/ Rollback(c)

RouterSpec == RouterInit /\ [][RouterNext]_routerVars

-----------------------------------------------------------------------------
(* Properties.                                                             *)

\* Candidate k was given up for good reason: all its attempts failed, or it
\* could not be asked.
GivenUp(c, k) ==
  \/ call[c].failures[k] = call[c].retries + 1
  \/ call[c].failures[k] = 0 /\ call[c].models[k] \in Registered
       /\ ~Usable(call[c].models[k])

\* A call falls back only from candidates it has to give up, each after
\* exactly the attempts its policy grants, also when profiles are deactivated
\* under way; it ends exhausted only when that is all of them, and at an
\* unknown key without asking those behind it (complete()).
OutcomeIsEarned ==
  \A c \in Calls :
    LET tried == DOMAIN call[c].models
        at == call[c].at
    IN  /\ \A k \in tried : k < at => GivenUp(c, k)
        /\ \A k \in tried : k > at => call[c].failures[k] = 0
        /\ call[c].outcome = "exhausted" => \A k \in tried : GivenUp(c, k)
        /\ call[c].outcome = "not found" => call[c].models[at] \notin Registered
        /\ call[c].outcome = "answered" =>
             /\ call[c].answer.model = call[c].models[at]
             /\ call[c].failures[at] <= call[c].retries

\* The committed ledger has one row for every answer a committing caller got,
\* for its model and its project, within half a millionth of a dollar of the
\* price it was told; and none for an answer of a caller that rolled back, nor
\* for a failed attempt (UsageLedger.record).
LedgerMatchesAnswers ==
  /\ \A c \in Calls :
       LET rows == {r \in ledger : r.call = c}
       IN  IF call[c].pc = "committed" /\ call[c].outcome = "answered"
           THEN /\ Cardinality(rows) = 1
                /\ \A r \in rows :
                     /\ r.model = call[c].answer.model /\ r.project = call[c].project
                     /\ 100 * r.cost - call[c].answer.cost \in -50..50
           ELSE rows = {}
=============================================================================
