----------------------------- MODULE WorkerLoop -----------------------------
(***************************************************************************)
(* What drives an execution: the worker processes (loop.py, main.py), each *)
(* claiming an entry of the workflow queue (queue.py), ticking the         *)
(* execution and re-enqueueing it in one transaction, and the requests of  *)
(* the API (service.py), each one transaction as well.                     *)
(*                                                                         *)
(* The executor's own transitions are those of WorkflowExecutor.  Added    *)
(* here are the queue entries of the execution, the entry a worker has     *)
(* locked, what it read of the execution, the transaction that has         *)
(* uncommitted rows, and crashes.                                          *)
(*                                                                         *)
(* A worker reads the execution without a lock and decides by what it read *)
(* whether to enqueue it again.  An iteration that finds nothing to do     *)
(* writes no row of the execution, so requests commit between its read and *)
(* its end.  What a tick reads and writes is one step: of transactions     *)
(* that both write, ExecutionSessions has the overlaps.                    *)
(***************************************************************************)
EXTENDS WorkflowExecutor

CONSTANTS
  Workers,      \* the worker processes
  MaxCrashes    \* bound: how often a worker crashes

ASSUME LoopAssumption ==
  /\ MaxCrashes \in Nat
  /\ Workers \cap {"none", "create"} = {}

VARIABLES
  queue,     \* scheduled_for of the QUEUED entries, oldest first
  claimed,   \* claimed[w]: the entry worker w holds locked, <<>> if none
  seen,      \* seen[w]: the status w read when it found nothing to do,
             \* "none" until then
  requeueAt, \* requeueAt[w]: the earliest retry_after it read with it
  session,   \* whose transaction has changed the execution and not
             \* committed: "none", "create" or a worker
  crashes    \* how many crashes there were

workerVars == <<claimed, seen, requeueAt>>
loopOnly == <<queue, workerVars, session, crashes>>
loopVars == <<vars, loopOnly>>

LoopInit ==
  /\ Init
  /\ queue = <<>>
  /\ claimed = [w \in Workers |-> <<>>]
  /\ seen = [w \in Workers |-> "none"]
  /\ requeueAt = [w \in Workers |-> NoTime]
  /\ session = "none"
  /\ crashes = 0

-----------------------------------------------------------------------------
(* The queue.                                                              *)

Due_NullNeverDue(entry) == entry # NoTime /\ entry <= now
Due(entry) == entry = NoTime \/ entry <= now

\* claim_next: the oldest entry that is due and that nobody has locked.
Claim(w) ==
  /\ claimed[w] = <<>>
  /\ session # "create"
  /\ \E i \in DOMAIN queue :
       /\ Due(queue[i])
       /\ \A j \in 1..(i - 1) : ~Due(queue[j])
       /\ claimed' = [claimed EXCEPT ![w] = <<queue[i]>>]
       /\ queue' = SubSeq(queue, 1, i - 1) \o SubSeq(queue, i + 1, Len(queue))
  /\ UNCHANGED <<vars, seen, requeueAt, session, crashes>>

\* _earliest_pending_retry_after, of the rows as the worker's session has them.
EarliestRetry(st, dates) ==
  LET pending == {dates[s] : s \in {r \in Stages : st[r] = "retrying"}}
  IN  IF pending = {} THEN NoTime ELSE Min(pending)

\* The end of run_iteration: an execution that is RUNNING as far as the worker
\* knows is enqueued again, the claimed entry is DONE, and all of it is
\* committed.
Release(w) ==
  /\ claimed' = [claimed EXCEPT ![w] = <<>>]
  /\ seen' = [seen EXCEPT ![w] = "none"]
  /\ requeueAt' = [requeueAt EXCEPT ![w] = NoTime]
  /\ session' = "none"
Commit_WithoutRequeue(w, known, date) ==
  /\ Release(w)
  /\ UNCHANGED <<queue, crashes>>
Commit(w, known, date) ==
  /\ Release(w)
  /\ queue' = IF known = "running" THEN Append(queue, date) ELSE queue
  /\ UNCHANGED crashes

-----------------------------------------------------------------------------
(* The rest of a worker's iteration.                                       *)

Iterating(w) == claimed[w] # <<>> /\ seen[w] = "none" /\ session \in {"none", w}

\* A first claim starts the execution; the row stays locked until the commit.
WorkerStart(w) ==
  /\ Iterating(w)
  /\ status = "pending" /\ Start
  /\ session' = w
  /\ UNCHANGED <<queue, workerVars, crashes>>

\* What a tick knows of the execution at its end is what it wrote itself.
WorkerTick(w) ==
  /\ Iterating(w)
  /\ Advance
  /\ Commit(w, status', EarliestRetry(stageStatus', retryAfter'))

\* advance() has nothing to do: the execution is not RUNNING, or no stage of
\* it is ready and not all are done.
NothingToDo ==
  /\ status # "pending"
  /\ status = "running" =>
       Gates \cup Runnable \cup TimedOut = {} /\ StagesIn(Done) # Stages

\* The worker reads that.  It writes nothing, so it locks nothing.
WorkerLook(w) ==
  /\ Iterating(w)
  /\ NothingToDo
  /\ seen' = [seen EXCEPT ![w] = status]
  /\ requeueAt' = [requeueAt EXCEPT ![w] = EarliestRetry(stageStatus, retryAfter)]
  /\ UNCHANGED <<vars, queue, claimed, session, crashes>>

\* And ends by it, whatever the execution has become in the meantime: its
\* session goes on with the row it has (get_execution answers from its identity
\* map).
WorkerDone(w) ==
  /\ seen[w] # "none"
  /\ Commit(w, seen[w], requeueAt[w])
  /\ UNCHANGED vars

WorkerStep(w) == WorkerStart(w) \/ WorkerTick(w) \/ WorkerLook(w) \/ WorkerDone(w)

\* The process dies, or runner.run raises, anywhere in its iteration, and is
\* started again.  The transaction and the locks are gone.
Crash(w) ==
  /\ crashes < MaxCrashes
  /\ claimed[w] # <<>>
  /\ crashes' = crashes + 1
  /\ queue' = claimed[w] \o queue
  /\ Release(w)
  /\ status' = IF session = w THEN "pending" ELSE status
  /\ UNCHANGED <<stageVars, approvals, metrics, runs, rolledBack, now>>

-----------------------------------------------------------------------------
(* The API's requests.                                                     *)

\* create_and_start_execution: create, submit, start and one tick, committed
\* together.
CreateSubmit ==
  /\ session = "none" /\ status = "draft"
  /\ Submit
  /\ queue' = Append(queue, NoTime)
  /\ session' = "create"
  /\ UNCHANGED <<workerVars, crashes>>

CreateStart ==
  /\ session = "create"
  /\ Start
  /\ UNCHANGED loopOnly

CreateAdvance ==
  /\ session = "create"
  /\ Advance
  /\ session' = "none"
  /\ UNCHANGED <<queue, workerVars, crashes>>

\* An execution submitted and left to a worker to start, as executor.submit
\* describes and the worker's tests do.
SubmitForWorker ==
  /\ session = "none" /\ status = "draft"
  /\ Submit
  /\ queue' = Append(queue, NoTime)
  /\ UNCHANGED <<workerVars, session, crashes>>

\* The control requests change the execution and never the queue.
Request_WithRequeue ==
  /\ session = "none" /\ status # "draft"
  /\ \/ Pause \/ Cancel \/ Advance
     \/ Resume \/ ResolveApproval
     \/ \E s \in Stages : SkipStage(s)
  /\ queue' = IF status' = "running" THEN Append(queue, NoTime) ELSE queue
  /\ UNCHANGED <<workerVars, session, crashes>>
Request ==
  /\ session = "none" /\ status # "draft"
  /\ \/ Pause \/ Cancel \/ Advance
     \/ Resume \/ ResolveApproval
     \/ \E s \in Stages : SkipStage(s)
  /\ UNCHANGED loopOnly

LoopTick == Tick /\ UNCHANGED loopOnly

LoopNext ==
  \/ CreateSubmit \/ CreateStart \/ CreateAdvance \/ SubmitForWorker
  \/ Request
  \/ \E w \in Workers : Claim(w) \/ WorkerStep(w) \/ Crash(w)
  \/ LoopTick

\* main.py's loop calls run_iteration again and again, a request handler runs
\* to its end, and time passes.  Nobody is obliged to make a request.
LoopSpec ==
  /\ LoopInit /\ [][LoopNext]_loopVars
  /\ \A w \in Workers : WF_loopVars(Claim(w)) /\ WF_loopVars(WorkerStep(w))
  /\ WF_loopVars(CreateStart) /\ WF_loopVars(CreateAdvance)
  /\ WF_loopVars(LoopTick)

-----------------------------------------------------------------------------
(* Properties.                                                             *)

LoopTypeOK ==
  /\ TypeOK
  /\ queue \in Seq(Nat \cup {NoTime})
  /\ \A w \in Workers : claimed[w] = <<>> \/ claimed[w][1] \in Nat \cup {NoTime}
  /\ seen \in [Workers -> WorkflowStatuses \cup {"none"}]
  /\ requeueAt \in [Workers -> Nat \cup {NoTime}]
  /\ session \in {"none", "create"} \cup Workers
  /\ crashes \in 0..MaxCrashes

Claimants == {w \in Workers : claimed[w] # <<>>}

\* An execution never has two live queue entries, so no two workers ever tick
\* it at once, through crashes and whatever is requested in between.
OneLiveEntry == Len(queue) + Cardinality(Claimants) <= 1

\* Some worker will look at the execution or enqueue it again: it is in the
\* queue, or claimed by a worker that has not read it or that read RUNNING.
Driven ==
  \/ queue # <<>>
  \/ \E w \in Claimants : seen[w] \in {"none", "running"}

\* A submitted execution is started or cancelled.
SubmittedIsStarted == (status = "pending") ~> (status # "pending")

\* A RUNNING execution that is driven comes to an end or to a human: the
\* worker's ticks, backoffs and crashes do not go on for ever.
DrivenSettles ==
  (status = "running" /\ Driven) ~>
    (status # "running" \/ StagesIn({"waiting_approval"}) # {})

-----------------------------------------------------------------------------
(* What the documentation says and the code does not do.                   *)

\* docs/architecture/03-workflow-engine.md:70 enqueues the execution when an
\* approval is decided.  resolve_approval leaves it RUNNING with no entry (so
\* does resume), and no worker ever looks at it again.
ApprovalReenqueues ==
  [][approvals' # approvals /\ status' = "running" => Driven']_loopVars

\* loop.py:24-25 says of an iteration: "If it's still RUNNING afterward,
\* re-enqueues it".  A worker that read PAUSED marks its entry DONE although a
\* resume has been committed since, which enqueued nothing because resume never
\* does: the execution is RUNNING and nobody drives it.
StillRunningReenqueued ==
  [][\A w \in Workers : claimed[w] # <<>> /\ claimed'[w] = <<>> /\ status' = "running"
                         => queue' # <<>>]_loopVars
=============================================================================
