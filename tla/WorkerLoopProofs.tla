-------------------------- MODULE WorkerLoopProofs --------------------------
(***************************************************************************)
(* What the queue and the workers guarantee for any number of workers and  *)
(* of crashes, and for every workflow definition.                          *)
(*                                                                         *)
(* Most of it rests on the number of live entries: an entry is created     *)
(* only while there is none, because submitting needs a DRAFT execution    *)
(* and re-enqueueing needs the entry that was claimed.  The executor's own *)
(* invariants carry over because a crash undoes nothing but a start.       *)
(***************************************************************************)
EXTENDS WorkerLoop, WorkflowExecutorProofs, FiniteSetTheorems

\* What the queue, or a worker's hand, may hold: no entry, or one.
Dates == Nat \cup {NoTime}
AtMostOne == {<<>>} \cup {<<e>> : e \in Dates}

\* Only one of the queue and the workers holds an entry.
OneHolder ==
  \A w \in Workers : claimed[w] # <<>> =>
    /\ queue = <<>>
    /\ \A v \in Workers : claimed[v] # <<>> => v = w

NothingHeld == queue = <<>> /\ \A w \in Workers : claimed[w] = <<>>

LoopInv ==
  /\ Safe
  /\ queue \in AtMostOne
  /\ claimed \in [Workers -> AtMostOne]
  /\ OneHolder
  /\ seen \in [Workers -> WorkflowStatuses \cup {"none"}]
  /\ requeueAt \in [Workers -> Dates]
  /\ \A w \in Workers : seen[w] # "none" => claimed[w] # <<>>
  /\ status = "draft" => NothingHeld
  /\ session \in {"none", "create"} \cup Workers
  /\ session \in Workers => status = "running"
  /\ crashes \in 0..MaxCrashes

-----------------------------------------------------------------------------
(* Sequences of at most one entry.                                         *)

\* Taking the entry of a sequence leaves nothing.
LEMMA TakeEntry ==
  ASSUME NEW q \in AtMostOne, NEW i \in DOMAIN q
  PROVE  /\ <<q[i]>> \in AtMostOne /\ <<q[i]>> # <<>>
         /\ SubSeq(q, 1, i - 1) \o SubSeq(q, i + 1, Len(q)) = <<>>
<1>1. q # <<>>
  OBVIOUS
<1>2. PICK e \in Dates : q = <<e>>
  BY <1>1 DEF AtMostOne
<1>3. i = 1
  BY <1>2
<1>4. SubSeq(q, 1, 0) = <<>> /\ SubSeq(q, 2, 1) = <<>>
  BY <1>2
<1> QED
  BY <1>2, <1>3, <1>4 DEF AtMostOne

\* Adding an entry to none makes one.
LEMMA PutEntry ==
  ASSUME NEW e \in Dates
  PROVE  Append(<<>>, e) = <<e>> /\ <<e>> \in AtMostOne /\ <<e>> # <<>>
BY DEF AtMostOne

\* A non-empty set of natural numbers has a least one.
LEMMA LeastOf ==
  ASSUME NEW S \in SUBSET Nat, S # {}
  PROVE  Min(S) \in S
<1> DEFINE Less == OpToRel(<, Nat)
<1>1. PICK x \in S : \A y \in S : ~(<<y, x>> \in Less)
  BY WFMin, NatLessThanWellFounded, Zenon
<1>2. \A y \in S : ~(y < x)
  BY <1>1 DEF OpToRel
<1>3. \A y \in S : x <= y
  BY <1>2
<1> QED
  BY <1>3 DEF Min

-----------------------------------------------------------------------------
(* The executor's steps.                                                   *)

\* No step of the executor makes an execution a DRAFT again.
LEMMA NeverDraftAgain ==
  ASSUME [Next]_vars
  PROVE  status' = status \/ status' # "draft"
<1>1. ASSUME NEW from, NEW to, CanMoveWorkflow(from, to) PROVE to # "draft"
  BY <1>1 DEF CanMoveWorkflow
<1>2. \A to : Move(to) => status' # "draft"
  BY <1>1 DEF Move
<1>3. \A from, to : Finish(from, to) => status' # "draft"
  BY <1>1 DEF Finish
<1>4. \A from : FailWorkflow(from) => status' # "draft"
  BY <1>3 DEF FailWorkflow
<1>5. CheckCompletion("running") \/ CheckCompletion(status) =>
        status' = status \/ status' # "draft"
  BY <1>3 DEF CheckCompletion
<1>6. Submit \/ Start \/ Pause \/ Resume \/ Cancel => status' # "draft"
  BY <1>2, <1>3 DEF Submit, Start, Pause, Resume, Cancel
<1>7. ResolveApproval => status' = status \/ status' # "draft"
  BY <1>4, <1>5 DEF ResolveApproval, ApproveAndComplete, ApproveAndRetry,
     ApproveAndFail, Reject, RejectRefused
<1>8. Advance => status' = status \/ status' # "draft"
  BY <1>2, <1>4, <1>5 DEF Advance, ReapEscalate, ReapRetry, ReapExhausted, ReapCancel,
     AdvanceIdle, AdvanceRun, AdvanceToGate, AdvanceToFailure
<1> QED
  BY <1>6, <1>7, <1>8 DEF Next, SkipStage, StrandStage, Tick, vars

\* The date a RUNNING execution is enqueued with, if RETRYING stages have one.
LEMMA EarliestRetryType ==
  ASSUME NEW st, NEW dates, \A s \in Stages : st[s] = "retrying" => dates[s] \in Nat
  PROVE  EarliestRetry(st, dates) \in Dates
<1> DEFINE pending == {dates[s] : s \in {r \in Stages : st[r] = "retrying"}}
<1>1. pending \in SUBSET Nat
  OBVIOUS
<1>2. pending # {} => Min(pending) \in Nat
  BY <1>1, LeastOf
<1> QED
  BY <1>2 DEF EarliestRetry, Dates

-----------------------------------------------------------------------------
(* Each action preserves the invariant.                                    *)

\* The executor's part of a step that is not a crash.
LEMMA ExecutorStep ==
  ASSUME LoopInv, [Next]_vars
  PROVE  /\ Safe'
         /\ status' = "draft" => NothingHeld
BY SafeStep, NeverDraftAgain DEF LoopInv

\* Claiming moves the entry from the queue to a worker.
LEMMA ClaimStep ==
  ASSUME LoopInv, NEW w \in Workers, Claim(w)
  PROVE  LoopInv'
<1>1. PICK i \in DOMAIN queue :
        /\ claimed' = [claimed EXCEPT ![w] = <<queue[i]>>]
        /\ queue' = SubSeq(queue, 1, i - 1) \o SubSeq(queue, i + 1, Len(queue))
  BY DEF Claim
<1>2. <<queue[i]>> \in AtMostOne /\ <<queue[i]>> # <<>> /\ queue' = <<>>
  BY <1>1, TakeEntry DEF LoopInv
<1>3. UNCHANGED vars /\ UNCHANGED <<seen, requeueAt, session, crashes>>
  BY DEF Claim
<1>4. queue # <<>>
  BY <1>1
<1>5. \A v \in Workers : claimed[v] = <<>>
  BY <1>4 DEF LoopInv, OneHolder
<1>6. claimed' \in [Workers -> AtMostOne] /\ OneHolder'
  BY <1>1, <1>2, <1>5 DEF LoopInv, OneHolder
<1>7. Safe' /\ (status' = "draft" => NothingHeld)
  BY <1>3, ExecutorStep
<1>8. \A v \in Workers : seen'[v] # "none" => claimed'[v] # <<>>
  BY <1>1, <1>2, <1>3 DEF LoopInv
<1>9. queue' \in AtMostOne /\ status' # "draft"
  BY <1>2, <1>3, <1>4 DEF LoopInv, NothingHeld, AtMostOne, vars
<1> QED
  BY <1>3, <1>6, <1>7, <1>8, <1>9 DEF LoopInv, vars

\* Releasing the entry leaves the workers with nothing.
LEMMA ReleaseStep ==
  ASSUME LoopInv, NEW w \in Workers, claimed[w] # <<>>, Release(w)
  PROVE  /\ queue = <<>>
         /\ \A v \in Workers : claimed'[v] = <<>> /\ seen'[v] = "none"
         /\ claimed' \in [Workers -> AtMostOne] /\ OneHolder'
         /\ seen' \in [Workers -> WorkflowStatuses \cup {"none"}]
         /\ requeueAt' \in [Workers -> Dates]
         /\ session' = "none" /\ session' \notin Workers
<1>1. queue = <<>> /\ \A v \in Workers : v # w => claimed[v] = <<>>
  BY DEF LoopInv, OneHolder
<1>2. \A v \in Workers : v # w => seen[v] = "none"
  BY <1>1 DEF LoopInv
<1>3. \A v \in Workers : claimed'[v] = <<>>
  BY <1>1 DEF Release, LoopInv
<1>4. \A v \in Workers : seen'[v] = "none"
  BY <1>2 DEF Release, LoopInv
<1>5. claimed' \in [Workers -> AtMostOne] /\ OneHolder'
  BY <1>3 DEF Release, LoopInv, AtMostOne, OneHolder
<1>6. /\ seen' \in [Workers -> WorkflowStatuses \cup {"none"}]
      /\ requeueAt' \in [Workers -> Dates]
  BY DEF Release, LoopInv, Dates
<1>7. session' = "none" /\ session' \notin Workers
  BY LoopAssumption DEF Release
<1> QED
  BY <1>1, <1>3, <1>4, <1>5, <1>6, <1>7

\* A committed iteration gives the entry up, or puts a new one in its place.
LEMMA CommitStep ==
  ASSUME LoopInv, [Next]_vars, NEW w \in Workers, claimed[w] # <<>>,
         NEW known, NEW date \in Dates, Commit(w, known, date)
  PROVE  LoopInv'
<1>1. Release(w)
  BY DEF Commit
<1>2. Safe' /\ status' # "draft"
  BY ExecutorStep DEF NothingHeld
<1>3. queue = <<>>
  BY <1>1, ReleaseStep
<1>4. queue' \in AtMostOne
  BY <1>3, PutEntry DEF Commit, AtMostOne
<1>5. crashes' = crashes
  BY DEF Commit
<1> QED
  BY <1>1, <1>2, <1>4, <1>5, ReleaseStep DEF LoopInv

\* A worker's step is a step of the executor, committed or left open, or a
\* read.
LEMMA WorkerStepInv ==
  ASSUME LoopInv, NEW w \in Workers, WorkerStep(w)
  PROVE  LoopInv'
<1>1. CASE WorkerStart(w)
  <2>1. [Next]_vars /\ status' = "running" /\ session' = w
    BY <1>1 DEF WorkerStart, Start, Move, Next
  <2>2. Safe'
    BY <2>1, ExecutorStep
  <2> QED
    BY <1>1, <2>1, <2>2 DEF WorkerStart, workerVars, LoopInv, OneHolder
<1>2. CASE WorkerTick(w)
  <2>1. [Next]_vars /\ claimed[w] # <<>>
    BY <1>2 DEF WorkerTick, Iterating, Next
  <2>2. EarliestRetry(stageStatus', retryAfter') \in Dates
    <3>1. \A s \in Stages : stageStatus'[s] = "retrying" => retryAfter'[s] \in Nat
      BY <2>1, ExecutorStep DEF Safe, TypeOK, RetryIsScheduled
    <3> QED
      BY <3>1, EarliestRetryType
  <2> QED
    BY <1>2, <2>1, <2>2, CommitStep DEF WorkerTick
<1>3. CASE WorkerLook(w)
  <2>1. UNCHANGED vars /\ UNCHANGED <<queue, claimed, session, crashes>>
    BY <1>3 DEF WorkerLook
  <2>2. Safe' /\ (status' = "draft" => NothingHeld)
    BY <2>1, ExecutorStep
  <2>3. /\ seen' \in [Workers -> WorkflowStatuses \cup {"none"}]
        /\ \A v \in Workers : seen'[v] # "none" => claimed[v] # <<>>
    BY <1>3 DEF WorkerLook, Iterating, LoopInv, Safe, TypeOK
  <2>4. requeueAt' \in [Workers -> Dates]
    <3>1. \A s \in Stages : stageStatus[s] = "retrying" => retryAfter[s] \in Nat
      BY DEF LoopInv, Safe, TypeOK, RetryIsScheduled
    <3> QED
      BY <1>3, <3>1, EarliestRetryType DEF WorkerLook, LoopInv
  <2> QED
    BY <2>1, <2>2, <2>3, <2>4 DEF vars, LoopInv, OneHolder, NothingHeld
<1>4. CASE WorkerDone(w)
  <2>1. claimed[w] # <<>> /\ requeueAt[w] \in Dates
    BY <1>4 DEF WorkerDone, LoopInv
  <2> QED
    BY <1>4, <2>1, CommitStep DEF WorkerDone
<1> QED
  BY <1>1, <1>2, <1>3, <1>4 DEF WorkerStep

\* A crash puts the entry back and undoes a start at most: the stages are as
\* they were, so every invariant of a PENDING execution holds.
LEMMA CrashStep ==
  ASSUME LoopInv, NEW w \in Workers, Crash(w)
  PROVE  LoopInv'
<1>1. claimed[w] # <<>> /\ queue = <<>> /\ Release(w)
  BY ReleaseStep DEF Crash
<1>2. queue' = claimed[w] /\ queue' \in AtMostOne
  BY <1>1 DEF Crash, LoopInv, AtMostOne
<1>4. UNCHANGED <<stageVars, approvals, metrics, runs, rolledBack, now>>
  BY DEF Crash
<1>5. \/ status' = status
      \/ status = "running" /\ status' = "pending"
  BY DEF Crash, LoopInv
<1>6. Safe'
  <2>1. TypeOK' /\ DependencyOrder' /\ OneApprovalPerWait' /\ RetryIsScheduled'
    BY <1>4, <1>5
    DEF LoopInv, Safe, TypeOK, DependencyOrder, DependenciesDone, StagesIn,
        OneApprovalPerWait, RetryIsScheduled, stageVars, WorkflowStatuses
  <2>2. RunAccounting' /\ ApprovalGate'
    BY <1>4 DEF LoopInv, Safe, RunAccounting, ApprovalGate, stageVars
  <2>3. WaitingHasReason' /\ OutcomeAgreement'
    BY <1>4, <1>5
    DEF LoopInv, Safe, WaitingHasReason, OutcomeAgreement, StagesIn, stageVars
  <2>4. MetricRow(stageStatus, attempt)' = MetricRow(stageStatus, attempt)
    BY <1>4 DEF stageVars
  <2>5. MetricIsFinal'
    BY <1>4, <1>5, <2>4 DEF LoopInv, Safe, MetricIsFinal, TerminalWorkflow
  <2> QED
    BY <2>1, <2>2, <2>3, <2>5 DEF Safe
<1>7. crashes' \in 0..MaxCrashes
  BY LoopAssumption DEF Crash, LoopInv
<1>8. status' # "draft"
  BY <1>1, <1>5 DEF LoopInv, NothingHeld
<1>9. /\ \A v \in Workers : claimed'[v] = <<>> /\ seen'[v] = "none"
      /\ claimed' \in [Workers -> AtMostOne] /\ OneHolder'
      /\ seen' \in [Workers -> WorkflowStatuses \cup {"none"}]
      /\ requeueAt' \in [Workers -> Dates]
      /\ session' = "none" /\ session' \notin Workers
  BY <1>1, ReleaseStep
<1> QED
  BY <1>2, <1>6, <1>7, <1>8, <1>9 DEF LoopInv

\* Creating an execution makes its first entry; nothing a request does later
\* touches the queue.
LEMMA RequestStep ==
  ASSUME LoopInv,
         \/ CreateSubmit \/ CreateStart \/ CreateAdvance \/ SubmitForWorker
         \/ Request \/ LoopTick
  PROVE  LoopInv'
<1>1. [Next]_vars
  BY DEF CreateSubmit, CreateStart, CreateAdvance, SubmitForWorker, Request, LoopTick, Next
<1>2. Safe' /\ (status' = "draft" => NothingHeld)
  BY <1>1, ExecutorStep
<1>3. CASE CreateSubmit \/ SubmitForWorker
  <2>1. NothingHeld /\ status' = "pending"
    BY <1>3 DEF CreateSubmit, SubmitForWorker, Submit, Move, LoopInv
  <2>2. queue' \in AtMostOne
    BY <1>3, <2>1, PutEntry DEF CreateSubmit, SubmitForWorker, NothingHeld, Dates
  <2>3. session' \in {"none", "create"} /\ session' \notin Workers
    BY <1>3, LoopAssumption DEF CreateSubmit, SubmitForWorker
  <2> QED
    BY <1>2, <1>3, <2>1, <2>2, <2>3
    DEF CreateSubmit, SubmitForWorker, workerVars, NothingHeld, LoopInv, OneHolder
<1>4. CASE CreateStart \/ CreateAdvance
  <2>1. session' \in {"none", "create"} /\ session' \notin Workers
    BY <1>4, LoopAssumption DEF CreateStart, CreateAdvance, loopOnly
  <2> QED
    BY <1>2, <1>4, <2>1 DEF CreateStart, CreateAdvance, loopOnly, workerVars, LoopInv, OneHolder,
       NothingHeld
<1>5. CASE Request
  <2>1. session' = "none" /\ session' \notin Workers
    BY <1>5, LoopAssumption DEF Request, loopOnly
  <2> QED
    BY <1>2, <1>5, <2>1 DEF Request, loopOnly, workerVars, LoopInv, OneHolder, NothingHeld
<1>6. CASE LoopTick
  <2>1. status' = status
    BY <1>6 DEF LoopTick, Tick
  <2> QED
    BY <1>2, <1>6, <2>1 DEF LoopTick, loopOnly, workerVars, LoopInv, OneHolder, NothingHeld
<1> QED
  BY <1>3, <1>4, <1>5, <1>6

LEMMA LoopInvInit == LoopInit => LoopInv
<1> SUFFICES ASSUME LoopInit PROVE LoopInv
  OBVIOUS
<1>1. Safe
  BY SafeInit DEF LoopInit
<1>2. session = "none" /\ session \notin Workers
  BY LoopAssumption DEF LoopInit
<1> QED
  BY <1>1, <1>2, LoopAssumption DEF LoopInit, LoopInv, OneHolder, NothingHeld, AtMostOne, Dates

LEMMA LoopInvStep == LoopInv /\ [LoopNext]_loopVars => LoopInv'
<1> SUFFICES ASSUME LoopInv, [LoopNext]_loopVars PROVE LoopInv'
  OBVIOUS
<1>1. CASE UNCHANGED loopVars
  <2>1. Safe' /\ (status' = "draft" => NothingHeld)
    BY <1>1, ExecutorStep DEF loopVars
  <2> QED
    BY <1>1, <2>1 DEF loopVars, loopOnly, workerVars, vars, LoopInv, OneHolder, NothingHeld
<1> QED
  BY <1>1, RequestStep, ClaimStep, WorkerStepInv, CrashStep DEF LoopNext

LEMMA LoopInvAlways == LoopSpec => []LoopInv
BY LoopInvInit, LoopInvStep, PTL DEF LoopSpec

-----------------------------------------------------------------------------
(* The theorems.                                                           *)

\* The queue, the claims, the open transaction and the executor's rows keep
\* their types through every iteration, request and crash.
THEOREM LoopTypes == LoopSpec => []LoopTypeOK
<1>1. ASSUME LoopInv PROVE LoopTypeOK
  <2>1. queue \in Seq(Dates)
    <3>1. PICK e \in Dates : queue = <<>> \/ queue = <<e>>
      BY <1>1 DEF LoopInv, AtMostOne, Dates
    <3>2. <<>> \in Seq(Dates) /\ <<e>> \in Seq(Dates)
      OBVIOUS
    <3> QED
      BY <3>1, <3>2
  <2>2. ASSUME NEW w \in Workers PROVE claimed[w] = <<>> \/ claimed[w][1] \in Dates
    BY <1>1 DEF LoopInv, AtMostOne
  <2> QED
    BY <1>1, <2>1, <2>2 DEF LoopTypeOK, LoopInv, Safe, Dates
<1> QED
  BY <1>1, LoopInvAlways, PTL

\* However many workers there are and whenever they crash, an execution has
\* one live queue entry at most: no two workers tick it at once.
THEOREM OneEntry == LoopSpec => []OneLiveEntry
<1>1. ASSUME LoopInv PROVE OneLiveEntry
  <2>1. Len(queue) \in {0, 1} /\ (queue = <<>> => Len(queue) = 0)
    BY <1>1 DEF LoopInv, AtMostOne
  <2>2. CASE Claimants = {}
    BY <2>1, <2>2, FS_EmptySet DEF OneLiveEntry
  <2>3. CASE Claimants # {}
    <3>1. PICK w \in Claimants : TRUE
      BY <2>3
    <3>2. Claimants = {w} /\ queue = <<>>
      BY <1>1, <3>1 DEF LoopInv, OneHolder, Claimants
    <3>3. Cardinality(Claimants) = 1
      BY <3>2, FS_Singleton
    <3> QED
      BY <2>1, <3>2, <3>3 DEF OneLiveEntry
  <2> QED
    BY <2>2, <2>3
<1> QED
  BY <1>1, LoopInvAlways, PTL

\* The executor's safety invariants hold under workers, requests and crashes
\* as they hold of the executor alone: a transaction that is lost takes
\* nothing back but the start of an execution.
THEOREM SafeInLoop ==
  LoopSpec => [](/\ DependencyOrder /\ ApprovalGate /\ OneApprovalPerWait
                 /\ WaitingHasReason /\ OutcomeAgreement /\ RetryIsScheduled
                 /\ RunAccounting /\ MetricIsFinal)
<1>1. LoopInv => /\ DependencyOrder /\ ApprovalGate /\ OneApprovalPerWait
                 /\ WaitingHasReason /\ OutcomeAgreement /\ RetryIsScheduled
                 /\ RunAccounting /\ MetricIsFinal
  BY DEF LoopInv, Safe
<1> QED
  BY <1>1, LoopInvAlways, PTL

-----------------------------------------------------------------------------
(* The composed system implements ExecutionContract.                       *)

\* But for a crash, every step is one of the executor's or leaves its rows.
LEMMA LoopSteps ==
  ASSUME [LoopNext]_loopVars
  PROVE  [Next]_vars \/ \E w \in Workers : Crash(w)
<1>1. ASSUME NEW w \in Workers, Claim(w) \/ WorkerLook(w) \/ WorkerDone(w)
       PROVE  UNCHANGED vars
  BY <1>1 DEF Claim, WorkerLook, WorkerDone
<1>2. ASSUME NEW w \in Workers, WorkerStart(w) \/ WorkerTick(w) PROVE Next
  BY <1>2 DEF WorkerStart, WorkerTick, Next
<1>3. CASE \/ CreateSubmit \/ CreateStart \/ CreateAdvance \/ SubmitForWorker
           \/ Request \/ LoopTick
  BY <1>3
  DEF CreateSubmit, CreateStart, CreateAdvance, SubmitForWorker, Request, LoopTick, Next
<1>4. CASE UNCHANGED loopVars
  BY <1>4 DEF loopVars
<1> QED
  BY <1>1, <1>2, <1>3, <1>4 DEF LoopNext, WorkerStep

\* A crash takes back nothing the contract speaks of.
LEMMA CrashIsSilent ==
  ASSUME LoopInv, NEW w \in Workers, Crash(w)
  PROVE  UNCHANGED Contract!contractVars
<1>1. stageStatus' = stageStatus /\ approvals' = approvals
  BY DEF Crash, stageVars
<1>2. status' = status \/ (status = "running" /\ status' = "pending")
  BY DEF Crash, LoopInv
<1> QED
  BY <1>1, <1>2 DEF Contract!contractVars, StagesIn, TerminalWorkflow

\* Any number of workers, requests and crashes keep an execution's contract:
\* what was reported as done, approved or ended is never taken back, although
\* the transactions that lead there are.
THEOREM ContractKeptInLoop == LoopSpec => ImplementsContract
<1>1. LoopInit => Contract!Init
  BY ContractInit DEF LoopInit
<1>2. LoopInv /\ [LoopNext]_loopVars => [Contract!Next]_(Contract!contractVars)
  BY LoopSteps, CrashIsSilent, ContractStep DEF LoopInv
<1> QED
  BY <1>1, <1>2, LoopInvAlways, PTL DEF LoopSpec, ImplementsContract, Contract!Spec
=============================================================================
