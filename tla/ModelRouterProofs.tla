-------------------------- MODULE ModelRouterProofs --------------------------
(***************************************************************************)
(* Proofs about ModelRouter and CapabilityRuns, for any calls, profiles,   *)
(* chains, retry policies, token counts and prices.                        *)
(***************************************************************************)
EXTENDS CapabilityRuns, TLAPS

Pcs == {"idle", "candidate", "asking", "record", "done", "committed",
        "rolled back", "reported"}
Ended == {"done", "committed", "rolled back", "reported"}
Outcomes == {"none", "answered", "exhausted", "not found", "unrecorded"}

AnswerOf == [model : ModelKeys \cup {NoModel}, tokens : Nat \X Nat, cost : Nat]

CallState ==
  [pc : Pcs, recorded : BOOLEAN, models : Seq(ModelKeys), retries : Nat,
   project : Projects \cup {NoProject}, begun : Nat, at : Nat, attempt : Nat,
   total : Nat, failures : Seq(Nat), answer : AnswerOf, outcome : Outcomes]

Typed ==
  /\ active \subseteq Registered
  /\ clock \in Nat
  /\ call \in [Calls -> CallState]

\* How far a call is along its chain.
Position(c) ==
  /\ DOMAIN call[c].failures = DOMAIN call[c].models
  /\ call[c].at >= 1
  /\ \A k \in DOMAIN call[c].models :
       /\ k < call[c].at => GivenUp(c, k)
       /\ k > call[c].at => call[c].failures[k] = 0
       /\ k = call[c].at /\ call[c].pc = "candidate" => call[c].failures[k] = 0

Asking(c) ==
  call[c].pc = "asking" =>
    /\ call[c].at \in DOMAIN call[c].models
    /\ call[c].models[call[c].at] \in Registered
    /\ call[c].attempt \in 1..(call[c].retries + 1)
    /\ call[c].failures[call[c].at] = call[c].attempt - 1

Answered(c) ==
  call[c].pc = "record" \/ call[c].outcome = "answered" =>
    /\ call[c].at \in DOMAIN call[c].models
    /\ call[c].answer.model = call[c].models[call[c].at]
    /\ call[c].failures[call[c].at] <= call[c].retries

Concluded(c) ==
  /\ call[c].outcome = "exhausted" => call[c].at > Len(call[c].models)
  /\ call[c].outcome = "not found" => call[c].models[call[c].at] \notin Registered
  /\ call[c].outcome # "none" => call[c].pc \in Ended

\* A call not begun.
Fresh(c) ==
  call[c].pc = "idle" => call[c].at = 1 /\ call[c].total = 0 /\ call[c].outcome = "none"

ChainOf(c) == Position(c) /\ Asking(c) /\ Answered(c) /\ Concluded(c) /\ Fresh(c)

ChainInv == Typed /\ \A c \in Calls : ChainOf(c)

-----------------------------------------------------------------------------
\* The earned outcome of every call follows from how far it is.
LEMMA ChainImpliesEarned ==
  ASSUME ChainInv
  PROVE  OutcomeIsEarned
<1> SUFFICES ASSUME NEW c \in Calls
             PROVE  /\ \A k \in DOMAIN call[c].models : k < call[c].at => GivenUp(c, k)
                    /\ \A k \in DOMAIN call[c].models : k > call[c].at => call[c].failures[k] = 0
                    /\ call[c].outcome = "exhausted" => \A k \in DOMAIN call[c].models : GivenUp(c, k)
                    /\ call[c].outcome = "not found" => call[c].models[call[c].at] \notin Registered
                    /\ call[c].outcome = "answered" =>
                         /\ call[c].answer.model = call[c].models[call[c].at]
                         /\ call[c].failures[call[c].at] <= call[c].retries
  BY DEF OutcomeIsEarned
<1>1. call[c].models \in Seq(ModelKeys) /\ call[c].at \in Nat
  BY DEF ChainInv, Typed, CallState
<1>2. ChainOf(c)
  BY DEF ChainInv
<1>3. ASSUME call[c].outcome = "exhausted", NEW k \in DOMAIN call[c].models
      PROVE  GivenUp(c, k)
  <2>1. call[c].at > Len(call[c].models)
    BY <1>2, <1>3 DEF ChainOf, Concluded
  <2>2. k < call[c].at
    BY <1>1, <2>1
  <2> QED
    BY <1>2, <2>2 DEF ChainOf, Position
<1> QED
  BY <1>2, <1>3 DEF ChainOf, Position, Answered, Concluded

\* A call whose own state a step leaves alone is as far as it was: a profile
\* once unusable stays so.
LEMMA Frame ==
  ASSUME NEW c \in Calls, ChainOf(c), call'[c] = call[c], active' \subseteq active
  PROVE  ChainOf(c)'
<1>1. \A k : GivenUp(c, k) => GivenUp(c, k)'
  BY DEF GivenUp, Usable
<1>2. Position(c)'
  BY <1>1 DEF ChainOf, Position
<1> QED
  BY <1>2 DEF ChainOf, Asking, Answered, Concluded, Fresh

\* A step of one call's own.
OwnStep(c) ==
  /\ UNCHANGED <<active, clock>>
  /\ \A d \in Calls : d # c => call'[d] = call[d]

LEMMA OwnStepSuffices ==
  ASSUME ChainInv, NEW c \in Calls, OwnStep(c), call' \in [Calls -> CallState], ChainOf(c)'
  PROVE  ChainInv'
<1>1. ASSUME NEW d \in Calls
      PROVE  ChainOf(d)'
  BY Frame DEF OwnStep, ChainInv
<1> QED
  BY <1>1 DEF ChainInv, Typed, OwnStep

-----------------------------------------------------------------------------
(* One lemma per step of complete().                                       *)

LEMMA StartStep ==
  ASSUME ChainInv, NEW c \in Calls, NEW models \in Chains, NEW retries \in Nat,
         NEW recorded \in BOOLEAN, NEW project \in Projects \cup {NoProject},
         call[c].pc = "idle", Start(c, models, retries, recorded, project),
         UNCHANGED <<active, clock>>
  PROVE  ChainInv'
<1> DEFINE fresh == [k \in DOMAIN models |-> 0]
<1>1. call[c] \in CallState /\ models \in Seq(ModelKeys) /\ clock \in Nat
  BY RouterAssumption DEF ChainInv, Typed
<1>2. fresh \in Seq(Nat) /\ DOMAIN fresh = DOMAIN models
  BY <1>1
<1>3. call' = [call EXCEPT ![c] =
        [@ EXCEPT !.pc = "candidate", !.models = models, !.retries = retries,
                  !.recorded = recorded, !.project = project, !.begun = clock,
                  !.failures = fresh]]
  BY DEF Start
<1> HIDE DEF fresh
<1>4. call' \in [Calls -> CallState] /\ OwnStep(c)
  BY <1>1, <1>2, <1>3 DEF ChainInv, Typed, CallState, Pcs, OwnStep
<1>5. /\ call'[c].pc = "candidate" /\ call'[c].at = 1 /\ call'[c].outcome = "none"
      /\ call'[c].models = models /\ call'[c].failures = fresh
  BY <1>1, <1>3 DEF ChainInv, Typed, CallState, ChainOf, Fresh
<1>6. \A k \in DOMAIN models : fresh[k] = 0 /\ k >= 1
  BY <1>1 DEF fresh
<1>7. ChainOf(c)'
  BY <1>2, <1>5, <1>6 DEF ChainOf, Position, Asking, Answered, Concluded, Fresh
<1> QED
  BY <1>4, <1>7, OwnStepSuffices

\* What a step writes is the call's new state.
LEMMA Updated ==
  ASSUME ChainInv, NEW c \in Calls, NEW r \in CallState, call' = [call EXCEPT ![c] = r],
         UNCHANGED <<active, clock>>
  PROVE  call' \in [Calls -> CallState] /\ call'[c] = r /\ OwnStep(c)
BY DEF ChainInv, Typed, OwnStep

\* The fields of a call a step keeps.
KeepsChain(c) ==
  /\ call'[c].models = call[c].models /\ call'[c].retries = call[c].retries
  /\ call'[c].failures = call[c].failures

LEMMA GivenUpStays ==
  ASSUME NEW c \in Calls, KeepsChain(c), active' = active
  PROVE  \A k : GivenUp(c, k) => GivenUp(c, k)'
BY DEF KeepsChain, GivenUp, Usable

LEMMA RaiseStep ==
  ASSUME ChainInv, NEW c \in Calls, UNCHANGED <<active, clock>>,
         \/ Exhaust(c) \/ UnknownModel(c) \/ RecordFails(c)
  PROVE  ChainInv'
<1>1. call[c] \in CallState /\ ChainOf(c)
  BY DEF ChainInv, Typed
<1>2. PICK error \in {"exhausted", "not found", "unrecorded"} :
        /\ call' = [call EXCEPT ![c] = [@ EXCEPT !.pc = "done", !.outcome = error]]
        /\ call[c].pc \in {"candidate", "record"}
        /\ error = "exhausted" => call[c].at > Len(call[c].models)
        /\ error = "not found" => call[c].models[call[c].at] \notin Registered
  BY DEF Exhaust, UnknownModel, RecordFails, Raise, Candidate, AtCandidate
<1> DEFINE r == [call[c] EXCEPT !.pc = "done", !.outcome = error]
<1>3. r \in CallState
  BY <1>1, <1>2 DEF CallState, Pcs, Outcomes
<1>4. /\ r.pc = "done" /\ r.outcome = error /\ r.at = call[c].at
      /\ r.models = call[c].models /\ r.retries = call[c].retries
      /\ r.failures = call[c].failures
  BY <1>1 DEF CallState
<1>5. call' = [call EXCEPT ![c] = r]
  BY <1>2
<1> HIDE DEF r
<1>6. call' \in [Calls -> CallState] /\ call'[c] = r /\ OwnStep(c)
  BY <1>3, <1>5, Updated
<1>7. KeepsChain(c)
  BY <1>4, <1>6 DEF KeepsChain
<1>8. Position(c)'
  BY <1>1, <1>4, <1>6, <1>7, GivenUpStays DEF ChainOf, Position
<1>9. ChainOf(c)'
  BY <1>2, <1>4, <1>6, <1>8 DEF ChainOf, Asking, Answered, Concluded, Fresh, Ended
<1> QED
  BY <1>6, <1>9, OwnStepSuffices

LEMMA SkipStep ==
  ASSUME ChainInv, NEW c \in Calls, SkipModel(c)
  PROVE  ChainInv'
<1> DEFINE r == [call[c] EXCEPT !.at = @ + 1]
<1>1. call[c] \in CallState /\ ChainOf(c) /\ call[c].at \in Nat
  BY DEF ChainInv, Typed, CallState
<1>2. /\ call' = [call EXCEPT ![c] = r]
      /\ call[c].pc = "candidate" /\ call[c].at \in DOMAIN call[c].models
      /\ call[c].models[call[c].at] \in Registered
      /\ ~Usable(call[c].models[call[c].at])
      /\ UNCHANGED <<active, clock>>
  BY DEF SkipModel, AtCandidate, Candidate
<1>3. r \in CallState
  <2>1. call[c].at + 1 \in Nat
    BY <1>1
  <2> QED
    BY <1>1, <2>1 DEF CallState
<1>4. /\ r.pc = call[c].pc /\ r.outcome = call[c].outcome /\ r.at = call[c].at + 1
      /\ r.models = call[c].models /\ r.retries = call[c].retries
      /\ r.failures = call[c].failures
  BY <1>1 DEF CallState
<1> HIDE DEF r
<1>5. call' \in [Calls -> CallState] /\ call'[c] = r /\ OwnStep(c)
  BY <1>2, <1>3, Updated
<1>6. \A k : GivenUp(c, k) => GivenUp(c, k)'
  BY <1>2, <1>4, <1>5, GivenUpStays DEF KeepsChain
<1>7. GivenUp(c, call[c].at)
  BY <1>1, <1>2 DEF GivenUp, ChainOf, Position
<1>8. ASSUME NEW k \in DOMAIN call[c].models
      PROVE  /\ k < call[c].at + 1 => GivenUp(c, k)'
             /\ k >= call[c].at + 1 => call[c].failures[k] = 0
  <2>1. k \in Nat
    BY <1>1 DEF CallState
  <2> QED
    BY <1>1, <1>6, <1>7, <2>1 DEF ChainOf, Position
<1>9. Position(c)'
  <2>1. /\ call'[c].models = call[c].models /\ call'[c].failures = call[c].failures
        /\ call'[c].at = call[c].at + 1
    BY <1>4, <1>5
  <2>2. DOMAIN call[c].failures = DOMAIN call[c].models /\ call[c].at + 1 >= 1
    BY <1>1 DEF ChainOf, Position
  <2>3. \A k \in DOMAIN call[c].models :
          /\ k < call[c].at + 1 => GivenUp(c, k)'
          /\ k > call[c].at + 1 => call[c].failures[k] = 0
          /\ k = call[c].at + 1 => call[c].failures[k] = 0
    <3>1. \A k \in DOMAIN call[c].models : k \in Nat
      BY <1>1 DEF CallState
    <3> QED
      BY <1>1, <1>8, <3>1
  <2> QED
    BY <2>1, <2>2, <2>3 DEF Position
<1>10. ChainOf(c)'
  BY <1>1, <1>2, <1>4, <1>5, <1>9 DEF ChainOf, Asking, Answered, Concluded, Fresh, Ended
<1> QED
  BY <1>5, <1>10, OwnStepSuffices

LEMMA AskStep ==
  ASSUME ChainInv, NEW c \in Calls, Ask(c)
  PROVE  ChainInv'
<1> DEFINE r == [call[c] EXCEPT !.pc = "asking", !.attempt = 1, !.total = @ + 1]
<1>1. /\ call[c] \in CallState /\ ChainOf(c)
      /\ call[c].retries \in Nat /\ call[c].total \in Nat
  BY DEF ChainInv, Typed, CallState
<1>2. /\ call' = [call EXCEPT ![c] = r]
      /\ call[c].pc = "candidate" /\ call[c].at \in DOMAIN call[c].models
      /\ call[c].models[call[c].at] \in Registered
      /\ UNCHANGED <<active, clock>>
  BY DEF Ask, AtCandidate, Candidate
<1>3. r \in CallState
  <2>1. call[c].total + 1 \in Nat /\ 1 \in Nat
    BY <1>1
  <2>2. "asking" \in Pcs
    BY DEF Pcs
  <2> QED
    BY <1>1, <2>1, <2>2 DEF CallState
<1>4. /\ r.pc = "asking" /\ r.outcome = call[c].outcome /\ r.at = call[c].at
      /\ r.models = call[c].models /\ r.retries = call[c].retries
      /\ r.failures = call[c].failures /\ r.attempt = 1
  BY <1>1 DEF CallState
<1> HIDE DEF r
<1>5. call' \in [Calls -> CallState] /\ call'[c] = r /\ OwnStep(c)
  BY <1>2, <1>3, Updated
<1>6. Position(c)'
  BY <1>1, <1>2, <1>4, <1>5, GivenUpStays DEF ChainOf, Position, KeepsChain
<1>7. Asking(c)'
  BY <1>1, <1>2, <1>4, <1>5 DEF ChainOf, Position, Asking
<1>8. ChainOf(c)'
  BY <1>1, <1>2, <1>4, <1>5, <1>6, <1>7 DEF ChainOf, Answered, Concluded, Fresh, Ended
<1> QED
  BY <1>5, <1>8, OwnStepSuffices

LEMMA FailAttemptStep ==
  ASSUME ChainInv, NEW c \in Calls, FailAttempt(c)
  PROVE  ChainInv'
<1>1. call[c] \in CallState /\ ChainOf(c) /\ active' = active /\ clock' = clock
  BY DEF ChainInv, Typed, FailAttempt
<1>2. /\ call[c].attempt \in Nat /\ call[c].retries \in Nat /\ call[c].total \in Nat
      /\ call[c].failures \in Seq(Nat)
      /\ \A k \in DOMAIN call[c].models : k \in Nat
  BY <1>1 DEF CallState
<1>3. PICK at \in Nat : at = call[c].at
  BY <1>1 DEF CallState
<1>4. /\ call[c].pc = "asking" /\ at \in DOMAIN call[c].models
      /\ call[c].failures[at] = call[c].attempt - 1
      /\ call[c].attempt \in 1..(call[c].retries + 1)
  BY <1>1, <1>3 DEF FailAttempt, ChainOf, Asking
<1>5. call[c].outcome = "none"
  BY <1>1, <1>4 DEF ChainOf, Concluded, Ended
<1>6. PICK failures : failures = [call[c].failures EXCEPT ![at] = @ + 1]
  OBVIOUS
<1>7. /\ DOMAIN call[c].failures = DOMAIN call[c].models
      /\ at \in DOMAIN call[c].failures /\ call[c].failures[at] \in Nat
  BY <1>1, <1>2, <1>4 DEF ChainOf, Position
<1>8. /\ failures \in Seq(Nat) /\ DOMAIN failures = DOMAIN call[c].models
      /\ failures[at] = call[c].attempt
      /\ \A k \in DOMAIN call[c].models : k # at => failures[k] = call[c].failures[k]
  <2>1. call[c].failures[at] + 1 \in Nat
    BY <1>7
  <2>2. failures = [call[c].failures EXCEPT ![at] = call[c].failures[at] + 1]
    BY <1>6
  <2>3. failures \in Seq(Nat)
    BY <1>2, <1>7, <2>1, <2>2
  <2>4. failures[at] = call[c].attempt
    BY <1>2, <1>4, <1>7, <2>2
  <2> QED
    BY <1>7, <2>2, <2>3, <2>4
<1>9. ASSUME NEW k \in DOMAIN call[c].models, k # at, GivenUp(c, k),
             call'[c].failures = failures, call'[c].models = call[c].models,
             call'[c].retries = call[c].retries
      PROVE  GivenUp(c, k)'
  BY <1>1, <1>8, <1>9 DEF GivenUp, Usable
<1>10. CASE call[c].attempt > call[c].retries
  <2> DEFINE r == [call[c] EXCEPT !.failures = failures, !.pc = "candidate", !.at = at + 1]
  <2>1. call' = [call EXCEPT ![c] = r]
    BY <1>3, <1>6, <1>10 DEF FailAttempt
  <2>2. r \in CallState
    <3>1. at + 1 \in Nat
      OBVIOUS
    <3>2. "candidate" \in Pcs
      BY DEF Pcs
    <3> QED
      BY <1>1, <1>8, <3>1, <3>2 DEF CallState
  <2>3. /\ r.pc = "candidate" /\ r.outcome = "none" /\ r.at = at + 1
        /\ r.models = call[c].models /\ r.retries = call[c].retries /\ r.failures = failures
    BY <1>1, <1>5 DEF CallState
  <2> HIDE DEF r
  <2>4. call' \in [Calls -> CallState] /\ call'[c] = r /\ OwnStep(c)
    BY <1>1, <2>1, <2>2, Updated
  <2>5. failures[at] = call[c].retries + 1
    BY <1>2, <1>4, <1>8, <1>10
  <2>6. \A k \in DOMAIN call[c].models :
          /\ k < at + 1 => GivenUp(c, k)'
          /\ k > at + 1 => failures[k] = 0
          /\ k = at + 1 => failures[k] = 0
    <3> SUFFICES ASSUME NEW k \in DOMAIN call[c].models
                 PROVE  /\ k < at + 1 => GivenUp(c, k)'
                        /\ k >= at + 1 => failures[k] = 0
      BY <1>2
    <3>1. k \in Nat
      BY <1>2
    <3>2. CASE k = at
      BY <2>3, <2>4, <2>5, <3>2 DEF GivenUp
    <3>3. CASE k < at
      <4>1. GivenUp(c, k)
        BY <1>1, <1>3, <3>3 DEF ChainOf, Position
      <4>2. k # at
        BY <3>1, <3>3
      <4>3. GivenUp(c, k)'
        BY <1>9, <2>3, <2>4, <4>1, <4>2
      <4> QED
        BY <3>1, <3>3, <4>3
    <3>4. CASE k > at
      <4>1. call[c].failures[k] = 0
        BY <1>1, <1>3, <3>4 DEF ChainOf, Position
      <4>2. k # at /\ ~(k < at + 1)
        BY <3>1, <3>4
      <4> QED
        BY <1>8, <4>1, <4>2
    <3> QED
      BY <3>1, <3>2, <3>3, <3>4
  <2>7. Position(c)'
    <3>1. at + 1 >= 1
      OBVIOUS
    <3> QED
      BY <1>8, <2>3, <2>4, <2>6, <3>1 DEF Position
  <2>8. ChainOf(c)'
    BY <2>3, <2>4, <2>7 DEF ChainOf, Asking, Answered, Concluded, Fresh
  <2> QED
    BY <2>4, <2>8, OwnStepSuffices
<1>11. CASE ~(call[c].attempt > call[c].retries)
  <2> DEFINE r == [call[c] EXCEPT !.failures = failures, !.attempt = @ + 1, !.total = @ + 1]
  <2>1. call' = [call EXCEPT ![c] = r]
    BY <1>3, <1>6, <1>11 DEF FailAttempt
  <2>2. r \in CallState
    <3>1. call[c].attempt + 1 \in Nat /\ call[c].total + 1 \in Nat
      BY <1>2
    <3> QED
      BY <1>1, <1>8, <3>1 DEF CallState
  <2>3. /\ r.pc = "asking" /\ r.outcome = "none" /\ r.at = at
        /\ r.models = call[c].models /\ r.retries = call[c].retries
        /\ r.failures = failures /\ r.attempt = call[c].attempt + 1
    BY <1>1, <1>3, <1>4, <1>5 DEF CallState
  <2> HIDE DEF r
  <2>4. call' \in [Calls -> CallState] /\ call'[c] = r /\ OwnStep(c)
    BY <1>1, <2>1, <2>2, Updated
  <2>5. \A k \in DOMAIN call[c].models :
          /\ k < at => GivenUp(c, k)'
          /\ k > at => failures[k] = 0
    <3> SUFFICES ASSUME NEW k \in DOMAIN call[c].models
                 PROVE  /\ k < at => GivenUp(c, k)'
                        /\ k > at => failures[k] = 0
      OBVIOUS
    <3>1. k \in Nat
      BY <1>2
    <3>2. CASE k < at
      <4>1. GivenUp(c, k)
        BY <1>1, <1>3, <3>2 DEF ChainOf, Position
      <4>2. k # at
        BY <3>1, <3>2
      <4>3. GivenUp(c, k)'
        BY <1>9, <2>3, <2>4, <4>1, <4>2
      <4> QED
        BY <3>1, <3>2, <4>3
    <3>3. CASE k > at
      <4>1. call[c].failures[k] = 0
        BY <1>1, <1>3, <3>3 DEF ChainOf, Position
      <4>2. k # at /\ ~(k < at)
        BY <3>1, <3>3
      <4> QED
        BY <1>8, <4>1, <4>2
    <3> QED
      BY <3>2, <3>3
  <2>6. Position(c)'
    BY <1>1, <1>3, <1>8, <2>3, <2>4, <2>5 DEF ChainOf, Position
  <2>7. Asking(c)'
    <3>1. call[c].models[at] \in Registered
      BY <1>1, <1>3, <1>4 DEF ChainOf, Asking
    <3>2. /\ call[c].attempt + 1 \in 1..(call[c].retries + 1)
          /\ failures[at] = (call[c].attempt + 1) - 1
      <4>1. \A a, b \in Nat : ~(a > b) /\ a \in 1..(b + 1) =>
              a + 1 \in 1..(b + 1) /\ (a + 1) - 1 = a
        OBVIOUS
      <4> QED
        BY <1>2, <1>4, <1>8, <1>11, <4>1
    <3> QED
      BY <1>4, <2>3, <2>4, <3>1, <3>2 DEF Asking
  <2>8. ChainOf(c)'
    BY <2>3, <2>4, <2>6, <2>7 DEF ChainOf, Answered, Concluded, Fresh
  <2> QED
    BY <2>4, <2>8, OwnStepSuffices
<1> QED
  BY <1>10, <1>11

LEMMA CostIsNatural ==
  ASSUME NEW m \in Registered, NEW tokens \in TokenCounts
  PROVE  Cost(m, tokens) \in Nat
<1>1. tokens[1] \in Nat /\ tokens[2] \in Nat /\ PriceIn[m] \in Nat /\ PriceOut[m] \in Nat
  BY RouterAssumption
<1> QED
  BY <1>1 DEF Cost

LEMMA AnswerStep ==
  ASSUME ChainInv, NEW c \in Calls, NEW tokens \in TokenCounts, Answer(c, tokens)
  PROVE  ChainInv'
<1> DEFINE m == call[c].models[call[c].at]
           answer == [model |-> m, tokens |-> tokens, cost |-> Cost(m, tokens)]
<1>1. call[c] \in CallState /\ ChainOf(c) /\ active' = active
  BY DEF ChainInv, Typed, Answer
<1>2. /\ call[c].pc = "asking" /\ call[c].outcome = "none"
      /\ call[c].at \in DOMAIN call[c].models
      /\ call[c].failures[call[c].at] <= call[c].retries
      /\ m \in Registered
  <2>1. call[c].pc = "asking"
    BY DEF Answer
  <2>2. /\ call[c].at \in DOMAIN call[c].models /\ m \in Registered
        /\ call[c].attempt \in 1..(call[c].retries + 1)
        /\ call[c].failures[call[c].at] = call[c].attempt - 1
    BY <1>1, <2>1 DEF ChainOf, Asking
  <2>3. call[c].retries \in Nat
    BY <1>1 DEF CallState
  <2>4. call[c].outcome = "none"
    BY <1>1, <2>1 DEF ChainOf, Concluded, Ended
  <2>5. call[c].failures[call[c].at] <= call[c].retries
    <3> HIDE DEF m
    <3> QED
      BY <2>2, <2>3
  <2> QED
    BY <2>1, <2>2, <2>4, <2>5
<1>3. answer \in AnswerOf
  BY <1>2, CostIsNatural, RouterAssumption DEF AnswerOf
<1>4. PICK pc \in {"record", "done"}, outcome \in {"none", "answered"} :
        /\ outcome # "none" => pc = "done"
        /\ call' = [call EXCEPT ![c] = [@ EXCEPT !.pc = pc, !.outcome = outcome, !.answer = answer]]
  BY <1>1, <1>2 DEF Answer, Candidate
<1> DEFINE r == [call[c] EXCEPT !.pc = pc, !.outcome = outcome, !.answer = answer]
<1>5. r \in CallState
  BY <1>1, <1>3 DEF CallState, Pcs, Outcomes
<1>6. /\ r.pc = pc /\ r.outcome = outcome /\ r.at = call[c].at
      /\ r.models = call[c].models /\ r.retries = call[c].retries
      /\ r.failures = call[c].failures /\ r.answer.model = m
  BY <1>1 DEF CallState
<1>7. call' = [call EXCEPT ![c] = r] /\ UNCHANGED <<active, clock>>
  BY <1>4 DEF Answer
<1> HIDE DEF r, answer
<1>8. call' \in [Calls -> CallState] /\ call'[c] = r /\ OwnStep(c)
  BY <1>5, <1>7, Updated
<1>9. Position(c)'
  BY <1>1, <1>4, <1>6, <1>7, <1>8, GivenUpStays DEF ChainOf, Position, KeepsChain
<1>10. ChainOf(c)'
  BY <1>2, <1>4, <1>6, <1>8, <1>9 DEF ChainOf, Asking, Answered, Concluded, Fresh, Ended
<1> QED
  BY <1>8, <1>10, OwnStepSuffices

-----------------------------------------------------------------------------
(* The other steps.                                                        *)

\* A step that only moves an ended call on.
LEMMA EndedStep ==
  ASSUME ChainInv, NEW c \in Calls, NEW pc \in Ended, NEW outcome \in {"answered", call[c].outcome},
         call' = [call EXCEPT ![c] = [@ EXCEPT !.pc = pc, !.outcome = outcome]],
         outcome = "answered" => call[c].pc = "record" \/ call[c].outcome = "answered",
         call[c].pc # "idle", UNCHANGED <<active, clock>>
  PROVE  ChainInv'
<1> DEFINE r == [call[c] EXCEPT !.pc = pc, !.outcome = outcome]
<1>1. call[c] \in CallState /\ ChainOf(c)
  BY DEF ChainInv, Typed
<1>2. r \in CallState
  <2>1. pc \in Pcs /\ outcome \in Outcomes
    BY <1>1 DEF Pcs, Ended, CallState, Outcomes
  <2> QED
    BY <1>1, <2>1 DEF CallState
<1>3. /\ r.pc = pc /\ r.outcome = outcome /\ r.at = call[c].at
      /\ r.models = call[c].models /\ r.retries = call[c].retries
      /\ r.failures = call[c].failures /\ r.answer = call[c].answer
  BY <1>1 DEF CallState
<1>4. call' = [call EXCEPT ![c] = r]
  OBVIOUS
<1> HIDE DEF r
<1>5. call' \in [Calls -> CallState] /\ call'[c] = r /\ OwnStep(c)
  BY <1>2, <1>4, Updated
<1>6. Position(c)'
  BY <1>1, <1>3, <1>5, GivenUpStays DEF ChainOf, Position, KeepsChain, Ended
<1>7. ChainOf(c)'
  BY <1>1, <1>3, <1>5, <1>6 DEF ChainOf, Asking, Answered, Concluded, Fresh, Ended
<1> QED
  BY <1>5, <1>7, OwnStepSuffices

\* A call refused before it routes anything.
LEMMA RefusedStep ==
  ASSUME ChainInv, NEW c \in Calls, call[c].pc = "idle",
         call' = [call EXCEPT ![c].pc = "reported"], UNCHANGED <<active, clock>>
  PROVE  ChainInv'
<1> DEFINE r == [call[c] EXCEPT !.pc = "reported"]
<1>1. call[c] \in CallState /\ ChainOf(c)
  BY DEF ChainInv, Typed
<1>2. r \in CallState
  BY <1>1 DEF CallState, Pcs
<1>3. /\ r.pc = "reported" /\ r.outcome = call[c].outcome /\ r.at = call[c].at
      /\ r.models = call[c].models /\ r.retries = call[c].retries
      /\ r.failures = call[c].failures /\ r.answer = call[c].answer
  BY <1>1 DEF CallState
<1>4. call' = [call EXCEPT ![c] = r]
  OBVIOUS
<1> HIDE DEF r
<1>5. call' \in [Calls -> CallState] /\ call'[c] = r /\ OwnStep(c)
  BY <1>2, <1>4, Updated
<1>6. Position(c)'
  BY <1>1, <1>3, <1>5, GivenUpStays DEF ChainOf, Position, KeepsChain
<1>7. ChainOf(c)'
  BY <1>1, <1>3, <1>5, <1>6 DEF ChainOf, Asking, Answered, Concluded, Fresh, Ended
<1> QED
  BY <1>5, <1>7, OwnStepSuffices

\* A step of no call.
LEMMA NoCallStep ==
  ASSUME ChainInv, call' = call, active' \subseteq active, clock' \in Nat
  PROVE  ChainInv'
<1>1. ASSUME NEW c \in Calls
      PROVE  ChainOf(c)'
  BY Frame DEF ChainInv
<1> QED
  BY <1>1 DEF ChainInv, Typed

-----------------------------------------------------------------------------
LEMMA InitChain ==
  ASSUME Init
  PROVE  ChainInv
<1>1. NoAnswer \in AnswerOf
  BY DEF NoAnswer, AnswerOf
<1>2. << >> \in Seq(ModelKeys) /\ << >> \in Seq(Nat) /\ DOMAIN << >> = {}
  OBVIOUS
<1> DEFINE idle ==
       [pc |-> "idle", recorded |-> FALSE, models |-> << >>, retries |-> 0,
        project |-> NoProject, begun |-> 0, at |-> 1, attempt |-> 0, total |-> 0,
        failures |-> << >>, answer |-> NoAnswer, outcome |-> "none"]
<1>3. idle \in CallState
  BY <1>1, <1>2 DEF CallState, Pcs, Outcomes
<1>4. active = Registered /\ clock = 0 /\ call = [c \in Calls |-> idle]
  BY DEF Init, RouterInit
<1>5. Typed
  <2> HIDE DEF idle
  <2> QED
    BY <1>3, <1>4 DEF Typed
<1>6. ASSUME NEW c \in Calls
      PROVE  ChainOf(c)
  <2>1. /\ call[c].pc = "idle" /\ call[c].outcome = "none" /\ call[c].at = 1
        /\ call[c].total = 0 /\ call[c].models = << >> /\ call[c].failures = << >>
    BY <1>4
  <2>2. Position(c)
    BY <1>2, <2>1 DEF Position
  <2> QED
    BY <2>1, <2>2 DEF ChainOf, Asking, Answered, Concluded, Fresh
<1> QED
  BY <1>5, <1>6 DEF ChainInv

LEMMA RouteStep ==
  ASSUME ChainInv, NEW c \in Calls,
         \/ Route(c) \/ Record(c) \/ RecordFails(c) \/ Commit(c) \/ Rollback(c)
  PROVE  ChainInv'
<1>1. CASE Exhaust(c) \/ UnknownModel(c) \/ RecordFails(c)
  BY <1>1, RaiseStep DEF Exhaust, UnknownModel, RecordFails
<1>2. CASE SkipModel(c)
  BY <1>2, SkipStep
<1>3. CASE Ask(c)
  BY <1>3, AskStep
<1>4. CASE FailAttempt(c)
  BY <1>4, FailAttemptStep
<1>5. CASE \E tokens \in TokenCounts : Answer(c, tokens)
  BY <1>5, AnswerStep
<1>6. CASE Record(c)
  <2>1. call' = [call EXCEPT ![c] = [@ EXCEPT !.pc = "done", !.outcome = "answered"]]
    BY <1>6 DEF Record
  <2>2. "done" \in Ended /\ call[c].pc = "record"
    BY <1>6 DEF Record, Ended
  <2> QED
    BY <1>6, <2>1, <2>2, EndedStep DEF Record
<1>7. CASE Commit(c)
  <2>1. call' = [call EXCEPT ![c] = [@ EXCEPT !.pc = "committed", !.outcome = call[c].outcome]]
    BY <1>7 DEF Commit, ChainInv, Typed, CallState
  <2>2. "committed" \in Ended /\ call[c].pc = "done"
    BY <1>7 DEF Commit, Ended
  <2> QED
    BY <1>7, <2>1, <2>2, EndedStep DEF Commit
<1>8. CASE Rollback(c)
  <2>1. call' = [call EXCEPT ![c] = [@ EXCEPT !.pc = "rolled back", !.outcome = call[c].outcome]]
    BY <1>8 DEF Rollback, ChainInv, Typed, CallState
  <2>2. "rolled back" \in Ended /\ call[c].pc # "idle"
    BY <1>8 DEF Rollback, Ended
  <2> QED
    BY <1>8, <2>1, <2>2, EndedStep DEF Rollback
<1> QED
  BY <1>1, <1>2, <1>3, <1>4, <1>5, <1>6, <1>7, <1>8 DEF Route

LEMMA NextChain ==
  ASSUME ChainInv, [Next]_vars
  PROVE  ChainInv'
<1>1. ASSUME NEW m \in Registered, Deactivate(m) \/ Save(m)
      PROVE  ChainInv'
  BY <1>1, NoCallStep DEF Deactivate, Save, ChainInv, Typed
<1>2. CASE Tick
  BY <1>2, NoCallStep DEF Tick, ChainInv, Typed
<1>3. ASSUME NEW c \in Calls, NEW models \in Chains, NEW retries \in Retries,
             NEW project \in Projects \cup {NoProject}, Complete(c, models, retries, project)
      PROVE  ChainInv'
  <2>1. retries \in Nat
    BY RouterAssumption
  <2> QED
    BY <1>3, <2>1, StartStep DEF Complete
<1>4. ASSUME NEW c \in Calls,
             Route(c) \/ Record(c) \/ RecordFails(c) \/ Commit(c) \/ Rollback(c)
      PROVE  ChainInv'
  BY <1>4, RouteStep
<1>5. ASSUME NEW c \in Calls, NEW models \in Chains, NEW flawed \in Flaws,
             RunStage(c, models, flawed)
      PROVE  ChainInv'
  <2>1. call[c].pc = "idle" /\ UNCHANGED <<active, clock>>
    BY <1>5 DEF RunStage
  <2>2. \/ Start(c, models, 0, FALSE, NoProject)
        \/ call' = [call EXCEPT ![c].pc = "reported"]
    BY <1>5 DEF RunStage
  <2>3. CASE Start(c, models, 0, FALSE, NoProject)
    BY <2>1, <2>3, StartStep
  <2>4. CASE call' = [call EXCEPT ![c].pc = "reported"]
    BY <2>1, <2>4, RefusedStep
  <2> QED
    BY <2>2, <2>3, <2>4
<1>6. ASSUME NEW c \in Calls, EndStage(c)
      PROVE  ChainInv'
  <2>1. call' = [call EXCEPT ![c] = [@ EXCEPT !.pc = "reported", !.outcome = call[c].outcome]]
    BY <1>6 DEF EndStage, ChainInv, Typed, CallState
  <2>2. "reported" \in Ended /\ call[c].pc = "done"
    BY <1>6 DEF EndStage, Ended
  <2> QED
    BY <1>6, <2>1, <2>2, EndedStep DEF EndStage
<1>7. CASE UNCHANGED vars
  BY <1>7, NoCallStep DEF vars, routerVars, ChainInv, Typed
<1> QED
  BY <1>1, <1>2, <1>3, <1>4, <1>5, <1>6, <1>7 DEF Next, RouterNext

\* However calls, runs, deactivations and saves interleave, every outcome of
\* complete() is earned.
THEOREM RoutedAsEarned == Spec => []OutcomeIsEarned
<1>1. Init => ChainInv
  BY InitChain
<1>2. ChainInv /\ [Next]_vars => ChainInv'
  BY NextChain
<1>3. ChainInv => OutcomeIsEarned
  BY ChainImpliesEarned
<1> QED
  BY <1>1, <1>2, <1>3, PTL DEF Spec

-----------------------------------------------------------------------------
(* What run() reports.                                                     *)

CheckNames == {Checks[k] : k \in DOMAIN Checks}

Reports == CheckNames \cup Outcomes \cup {"output", "success"}

\* A run gets past the checks with a flaw of its output at most, and has a
\* report once it has ended.
RunOf(c) ==
  /\ call[c].pc \in {"idle", "reported"} => ~call[c].recorded
  /\ call[c].pc \notin {"idle", "reported"} /\ ~call[c].recorded => flaws[c] \subseteq {"output"}
  /\ call[c].pc # "reported" => report[c] = "none"
  /\ call[c].pc = "reported" =>
       /\ report[c] # "raised"
       /\ report[c] = "success" <=> call[c].outcome = "answered" /\ flaws[c] = {}
       /\ report[c] \in CheckNames => call[c].total = 0

RunInv ==
  /\ flaws \in [Calls -> SUBSET (CheckNames \cup {"output"})]
  /\ report \in [Calls -> Reports]
  /\ \A c \in Calls : RunOf(c)

LEMMA Names == CheckNames = {"reference", "definition", "permissions", "input", "context", "prompt"}
<1>1. DOMAIN Checks = 1..6
  BY DEF Checks
<1>2. 1..6 = {1, 2, 3, 4, 5, 6}
  OBVIOUS
<1>3. /\ Checks[1] = "reference" /\ Checks[2] = "definition" /\ Checks[3] = "permissions"
      /\ Checks[4] = "input" /\ Checks[5] = "context" /\ Checks[6] = "prompt"
  BY DEF Checks
<1> QED
  BY <1>1, <1>2, <1>3 DEF CheckNames

\* Every exception has a family, and run() catches every family.
LEMMA AllCaught ==
  ASSUME NEW error
  PROVE  Family(error) \in Caught
BY DEF Family, Caught

\* complete() and its callers with a ledger leave the runs' reports alone, and
\* move none of the ended runs.
LEMMA RouterLeavesRuns ==
  ASSUME ChainInv, RunInv, RouterNext, UNCHANGED runVars, NEW c \in Calls
  PROVE  RunOf(c)'
<1> DEFINE Moves ==
      \/ call'[c] = call[c]
      \/ /\ call[c].pc # "reported" /\ call'[c].pc \notin {"idle", "reported"} /\ call'[c].recorded
      \/ /\ call[c].pc \notin {"idle", "reported"} /\ call'[c].pc \notin {"idle", "reported"}
         /\ call'[c].recorded = call[c].recorded
<1>1. call \in [Calls -> CallState]
  BY DEF ChainInv, Typed
<1>2. ASSUME NEW d \in Calls, Exhaust(d) \/ UnknownModel(d) \/ RecordFails(d)
      PROVE  Moves
  <2>1. PICK error : call' = [call EXCEPT ![d].pc = "done", ![d].outcome = error]
    BY <1>2 DEF Exhaust, UnknownModel, RecordFails, Raise
  <2>2. call[d].pc \in {"candidate", "record"}
    BY <1>2 DEF Exhaust, UnknownModel, RecordFails, AtCandidate
  <2>3. call'[d].pc = "done" /\ call'[d].recorded = call[d].recorded
    BY <1>1, <2>1 DEF CallState
  <2> QED
    BY <1>1, <2>1, <2>2, <2>3
<1>3. ASSUME NEW d \in Calls, SkipModel(d)
      PROVE  Moves
  BY <1>1, <1>3 DEF SkipModel, AtCandidate, CallState
<1>4. ASSUME NEW d \in Calls, Ask(d)
      PROVE  Moves
  BY <1>1, <1>4 DEF Ask, AtCandidate, CallState
<1>5. ASSUME NEW d \in Calls, FailAttempt(d)
      PROVE  Moves
  BY <1>1, <1>5 DEF FailAttempt, CallState
<1>6. ASSUME NEW d \in Calls, NEW tokens \in TokenCounts, Answer(d, tokens)
      PROVE  Moves
  BY <1>1, <1>6 DEF Answer, CallState
<1>7. ASSUME NEW d \in Calls, Record(d) \/ Commit(d) \/ Rollback(d)
      PROVE  Moves
  <2>1. CASE Record(d)
    BY <1>1, <2>1 DEF Record, CallState
  <2>2. CASE Commit(d)
    BY <1>1, <2>2 DEF Commit, CallState
  <2>3. CASE Rollback(d)
    <3>1. call[d].pc # "idle" /\ call[d].recorded
      BY <2>3 DEF Rollback
    <3>2. call' = [call EXCEPT ![d].pc = "rolled back"]
      BY <2>3 DEF Rollback
    <3>3. call'[d].pc = "rolled back" /\ call'[d].recorded
      BY <1>1, <3>1, <3>2 DEF CallState
    <3>4. call[d].pc # "reported"
      BY <3>1 DEF RunInv, RunOf
    <3> QED
      BY <1>1, <3>1, <3>2, <3>3, <3>4
  <2> QED
    BY <1>7, <2>1, <2>2, <2>3
<1>8. ASSUME NEW d \in Calls, NEW models \in Chains, NEW retries \in Retries,
             NEW project \in Projects \cup {NoProject}, Complete(d, models, retries, project)
      PROVE  Moves
  BY <1>1, <1>8 DEF Complete, Start, CallState
<1>9. ASSUME Tick \/ \E m \in Registered : Deactivate(m) \/ Save(m)
      PROVE  Moves
  <2>1. call' = call
    BY <1>9 DEF Tick, Deactivate, Save
  <2> QED
    BY <2>1
<1> HIDE DEF Moves
<1>10. Moves
  BY <1>2, <1>3, <1>4, <1>5, <1>6, <1>7, <1>8, <1>9 DEF RouterNext, Route
<1> QED
  BY <1>10 DEF RunInv, RunOf, runVars, Moves

\* One run's own step.
LEMMA RunStep ==
  ASSUME ChainInv, RunInv, NEW c \in Calls,
         \/ \E models \in Chains, flawed \in Flaws : RunStage(c, models, flawed)
         \/ EndStage(c)
  PROVE  RunInv'
<1>1. /\ call \in [Calls -> CallState] /\ call[c] \in CallState /\ ChainOf(c)
      /\ flaws \in [Calls -> SUBSET (CheckNames \cup {"output"})]
      /\ report \in [Calls -> Reports] /\ RunOf(c)
  BY DEF ChainInv, Typed, RunInv
<1>2. /\ flaws' \in [Calls -> SUBSET (CheckNames \cup {"output"})]
      /\ report' \in [Calls -> Reports] /\ RunOf(c)'
  <2>1. ASSUME NEW models \in Chains, NEW flawed \in Flaws, RunStage(c, models, flawed)
        PROVE  /\ flaws' \in [Calls -> SUBSET (CheckNames \cup {"output"})]
               /\ report' \in [Calls -> Reports] /\ RunOf(c)'
    <3> DEFINE failing == {k \in DOMAIN Checks : Checks[k] \in flawed}
    <3>1. flawed \subseteq CheckNames \cup {"output"}
      BY FlawAssumption DEF CheckNames
    <3>2. flaws' = [flaws EXCEPT ![c] = flawed] /\ call[c].pc = "idle"
      BY <2>1 DEF RunStage
    <3>3. flaws' \in [Calls -> SUBSET (CheckNames \cup {"output"})] /\ flaws'[c] = flawed
      BY <1>1, <3>1, <3>2
    <3>4. CASE failing = {}
      <4>1. Start(c, models, 0, FALSE, NoProject) /\ report' = report
        BY <2>1, <3>4 DEF RunStage
      <4>2. call'[c].pc = "candidate" /\ call'[c].recorded = FALSE
        BY <1>1, <4>1 DEF Start, CallState
      <4>3. flawed \subseteq {"output"}
        BY <3>1, <3>4 DEF CheckNames
      <4> QED
        BY <1>1, <3>2, <3>3, <4>1, <4>2, <4>3 DEF RunOf
    <3>5. CASE failing # {}
      <4> DEFINE first == CHOOSE k \in failing : \A j \in failing : k <= j
      <4>1. /\ ReportError(c, Checks[first])
            /\ call' = [call EXCEPT ![c].pc = "reported"]
        BY <2>1, <3>5 DEF RunStage
      <4>2. first \in DOMAIN Checks /\ Checks[first] \in flawed
        <5>1. failing \subseteq 1..6 /\ failing # {}
          BY <3>5 DEF Checks
        <5>2. \E k \in failing : \A j \in failing : k <= j
          <6> HIDE DEF failing
          <6>1. \A k \in failing : k \in 1..6 /\ k \in {1, 2, 3, 4, 5, 6}
            BY <5>1
          <6>2. \/ 1 \in failing \/ 2 \in failing \/ 3 \in failing
                \/ 4 \in failing \/ 5 \in failing \/ 6 \in failing
            BY <5>1, <6>1
          <6> DEFINE Least(k) == k \in failing /\ \A j \in failing : k <= j
          <6>3. \/ Least(1) \/ Least(2) \/ Least(3) \/ Least(4) \/ Least(5) \/ Least(6)
            BY <6>1, <6>2
          <6> QED
            BY <6>3
        <5>3. first \in failing
          <6> HIDE DEF failing
          <6> QED
            BY <5>2
        <5> QED
          BY <5>3
      <4> HIDE DEF first
      <4>3. Checks[first] \in CheckNames
        BY <4>2 DEF CheckNames
      <4>4. report' = [report EXCEPT ![c] = Checks[first]]
        BY <4>1, AllCaught DEF ReportError
      <4>5. Checks[first] \in Reports /\ Checks[first] \notin {"none", "raised", "success"}
        BY <4>3, Names DEF Reports
      <4>6. /\ call'[c].pc = "reported" /\ call'[c].total = call[c].total
            /\ call'[c].outcome = call[c].outcome /\ call'[c].recorded = call[c].recorded
        BY <1>1, <4>1 DEF CallState
      <4>7. call[c].total = 0 /\ call[c].outcome = "none"
        BY <1>1, <3>2 DEF ChainOf, Fresh
      <4> QED
        BY <1>1, <3>2, <3>3, <4>4, <4>5, <4>6, <4>7 DEF RunOf
    <3> QED
      BY <3>4, <3>5
  <2>2. ASSUME EndStage(c)
        PROVE  /\ flaws' \in [Calls -> SUBSET (CheckNames \cup {"output"})]
               /\ report' \in [Calls -> Reports] /\ RunOf(c)'
    <3>1. /\ call[c].pc = "done" /\ ~call[c].recorded /\ flaws' = flaws
          /\ call' = [call EXCEPT ![c].pc = "reported"]
      BY <2>2 DEF EndStage
    <3>2. /\ call'[c].pc = "reported" /\ call'[c].outcome = call[c].outcome
          /\ call'[c].recorded = call[c].recorded
      BY <1>1, <3>1 DEF CallState
    <3>3. flaws[c] \subseteq {"output"}
      BY <1>1, <3>1 DEF RunOf
    <3>4. \/ /\ call[c].outcome # "answered"
             /\ report' = [report EXCEPT ![c] = call[c].outcome]
          \/ /\ call[c].outcome = "answered" /\ "output" \in flaws[c]
             /\ report' = [report EXCEPT ![c] = "output"]
          \/ /\ call[c].outcome = "answered" /\ "output" \notin flaws[c]
             /\ report' = [report EXCEPT ![c] = "success"]
      BY <2>2, AllCaught DEF EndStage, ReportError
    <3>5. call[c].outcome \in {"none", "answered", "exhausted", "not found", "unrecorded"}
      BY <1>1 DEF CallState, Outcomes
    <3>6. PICK e \in Outcomes \cup {"output", "success"} :
            /\ report' = [report EXCEPT ![c] = e]
            /\ e = "success" <=> call[c].outcome = "answered" /\ "output" \notin flaws[c]
      BY <3>4, <3>5 DEF Outcomes
    <3>7. e \in Reports /\ e \notin CheckNames \cup {"raised"}
      BY Names DEF Reports, Outcomes
    <3> QED
      BY <1>1, <3>1, <3>2, <3>3, <3>6, <3>7 DEF RunOf
  <2> QED
    BY <2>1, <2>2
<1>3. \A d \in Calls : d # c => call'[d] = call[d] /\ flaws'[d] = flaws[d] /\ report'[d] = report[d]
  BY <1>1 DEF RunStage, EndStage, Start, ReportError
<1>4. ASSUME NEW d \in Calls
      PROVE  RunOf(d)'
  BY <1>2, <1>3 DEF RunInv, RunOf
<1> QED
  BY <1>2, <1>4 DEF RunInv

\* A stage's run never raises, succeeds exactly if a model answered and nothing
\* was wrong with it, and asks no model before its checks.
THEOREM RunsReported == Spec => []StageRunsReported
<1>1. Init => ChainInv /\ RunInv
  <2> SUFFICES ASSUME Init
               PROVE  ChainInv /\ RunInv
    OBVIOUS
  <2>1. ChainInv
    BY InitChain
  <2>2. \A c \in Calls : /\ call[c].pc = "idle" /\ ~call[c].recorded
                         /\ flaws[c] = {} /\ report[c] = "none"
    BY DEF Init, RouterInit
  <2>3. "none" \in Reports
    BY DEF Reports, Outcomes
  <2>4. \A c \in Calls : RunOf(c)
    BY <2>2 DEF RunOf
  <2>5. RunInv
    BY <2>3, <2>4 DEF RunInv, Init
  <2> QED
    BY <2>1, <2>5
<1>2. ChainInv /\ RunInv /\ [Next]_vars => ChainInv' /\ RunInv'
  <2> SUFFICES ASSUME ChainInv, RunInv, [Next]_vars
               PROVE  ChainInv' /\ RunInv'
    OBVIOUS
  <2>1. ChainInv'
    BY NextChain
  <2>2. CASE RouterNext /\ UNCHANGED runVars
    <3>1. \A c \in Calls : RunOf(c)'
      BY <2>2, RouterLeavesRuns
    <3> QED
      BY <2>1, <2>2, <3>1 DEF RunInv, runVars
  <2>3. CASE \E c \in Calls : \/ \E models \in Chains, flawed \in Flaws : RunStage(c, models, flawed)
                              \/ EndStage(c)
    <3>1. PICK c \in Calls : \/ \E models \in Chains, flawed \in Flaws : RunStage(c, models, flawed)
                             \/ EndStage(c)
      BY <2>3
    <3> QED
      BY <2>1, <3>1, RunStep
  <2>4. CASE UNCHANGED vars
    <3>1. \A c \in Calls : RunOf(c)'
      BY <2>4 DEF vars, routerVars, runVars, RunInv, RunOf
    <3> QED
      BY <2>1, <2>4, <3>1 DEF vars, runVars, RunInv
  <2> QED
    BY <2>1, <2>2, <2>3, <2>4 DEF Next
<1>3. ChainInv /\ RunInv => StageRunsReported
  <2> SUFFICES ASSUME ChainInv, RunInv, NEW c \in Calls
               PROVE  /\ report[c] # "raised"
                      /\ report[c] = "success" <=>
                           call[c].pc = "reported" /\ call[c].outcome = "answered" /\ flaws[c] = {}
                      /\ report[c] \in CheckNames => call[c].total = 0
    BY DEF StageRunsReported, CheckNames
  <2>1. RunOf(c)
    BY DEF RunInv
  <2> QED
    BY <2>1, Names DEF RunOf
<1> QED
  BY <1>1, <1>2, <1>3, PTL DEF Spec
=============================================================================
