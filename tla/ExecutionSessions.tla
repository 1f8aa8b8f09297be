------------------------- MODULE ExecutionSessions -------------------------
(***************************************************************************)
(* Requests of the API (service.py) and a worker's tick (loop.py) on one   *)
(* execution, each in a database session of its own, overlapping.  Where   *)
(* WorkflowExecutor takes an operation for one step, here every SQL        *)
(* statement is a step: a session reads rows, keeps what it first read in  *)
(* its identity map, decides on that, and writes row by row.               *)
(*                                                                         *)
(* The database is PostgreSQL at READ COMMITTED: a read sees the committed *)
(* value or the session's own, takes no lock and waits for nobody; a write *)
(* waits for the row's lock, which is then held to the end of the          *)
(* transaction, and replaces whatever it finds there, because no UPDATE of *)
(* this code names an old value or a version.  Attempt numbers, dates and  *)
(* policies are left out: whether a retry is due, and whether a failure is *)
(* retried, is anybody's choice here.  So are the dates of the queue: an   *)
(* entry may be claimed at any time.                                       *)
(***************************************************************************)
EXTENDS WorkflowStates

CONSTANTS
  Sessions,          \* the sessions that may be open at once
  NoSession,
  Stages,
  DependsOn,         \* as in WorkflowExecutor
  RequiresApproval,
  AllowSkip,
  Approvals,         \* the workflow_approvals rows there can be
  AboutStage,        \* AboutStage[a]: the stage execution approval a names
  Execution,         \* the workflow_executions row
  Metric,            \* the workflow_metrics row
  Nothing

Rows == {Execution, Metric} \cup Stages \cup Approvals

ASSUME RowAssumption ==
  /\ Sessions \cap {NoSession, "queued", "none"} = {}
  /\ Execution # Metric
  /\ Stages \cap Approvals = {}
  /\ {Execution, Metric} \cap (Stages \cup Approvals) = {}
  /\ AboutStage \in [Approvals -> Stages]
  /\ DependsOn \in [Stages -> SUBSET Stages]
  /\ AllowSkip \subseteq Stages /\ RequiresApproval \subseteq Stages

VARIABLES
  committed,  \* committed[r]: the value every other session reads
  working,    \* working[r]: the value of the row's last writer
  owner,      \* owner[r]: the session whose transaction locks the row
  entry,      \* the execution's live queue entry: "queued", claimed by a
              \* session, or "none" (there is one at most: OneLiveEntry of
              \* WorkerLoop)
  pc,         \* pc[p]: the statement session p is about to execute
  op,         \* op[p]: the operation it performs
  seen,       \* seen[p]: its identity map
  todo,       \* todo[p]: the stages it has still to run or to cancel
  current,    \* current[p]: the approval or the stage it is at
  goal        \* goal[p]: the status it is about to give the execution

rows == <<committed, working, owner>>
locals == <<pc, op, seen, todo, current, goal>>
vars == <<rows, entry, locals>>

-----------------------------------------------------------------------------
(* The database.                                                           *)

\* A status column's value; of an approval row "open" or "decided"; of the
\* metric row the end it was written for; "absent" while there is no row.
Values == WorkflowStatuses \cup StageStatuses \cup {"absent", "open", "decided"}

\* A flushed UPDATE or INSERT.
Write_Unlocked(p, r, v) ==
  /\ working' = [working EXCEPT ![r] = v]
  /\ owner' = [owner EXCEPT ![r] = p]
  /\ seen' = [seen EXCEPT ![p][r] = v]
  /\ UNCHANGED committed
Write(p, r, v) ==
  /\ owner[r] \in {NoSession, p}
  /\ working' = [working EXCEPT ![r] = v]
  /\ owner' = [owner EXCEPT ![r] = p]
  /\ seen' = [seen EXCEPT ![p][r] = v]
  /\ UNCHANGED committed

\* What a SELECT returns to session p.
Visible(p, r) == IF owner[r] = p THEN working[r] ELSE committed[r]

Blank == [r \in Rows |-> "absent"]

\* The end of a transaction, one way or the other.
Close(p) ==
  /\ owner' = [r \in Rows |-> IF owner[r] = p THEN NoSession ELSE owner[r]]
  /\ pc' = [pc EXCEPT ![p] = "idle"]
  /\ op' = [op EXCEPT ![p] = "none"]
  /\ seen' = [seen EXCEPT ![p] = Blank]
  /\ todo' = [todo EXCEPT ![p] = {}]
  /\ current' = [current EXCEPT ![p] = Nothing]
  /\ goal' = [goal EXCEPT ![p] = "none"]

\* A worker ends its iteration by what its session has of the execution: it
\* enqueues the execution again if that is RUNNING, and its entry is DONE.
Requeue_Never(p) == entry' = IF entry = p THEN "none" ELSE entry
Requeue(p) ==
  entry' = IF entry # p THEN entry
           ELSE IF seen[p][Execution] = "running" THEN "queued" ELSE "none"

Commit(p) ==
  /\ pc[p] = "commit"
  /\ committed' = [r \in Rows |-> IF owner[r] = p THEN working[r] ELSE committed[r]]
  /\ UNCHANGED working
  /\ Requeue(p)
  /\ Close(p)

\* An exception of the code, of the runner or of the database (a unique key,
\* or the victim of a deadlock), or the death of the process.  A claim is
\* taken back with the rest.
ReturnEntry(p) == entry' = IF entry = p THEN "queued" ELSE entry
Abort_WithoutRollback(p) ==
  /\ pc[p] # "idle"
  /\ UNCHANGED <<committed, working>>
  /\ ReturnEntry(p)
  /\ Close(p)
Abort(p) ==
  /\ pc[p] # "idle"
  /\ working' = [r \in Rows |-> IF owner[r] = p THEN committed[r] ELSE working[r]]
  /\ UNCHANGED committed
  /\ ReturnEntry(p)
  /\ Close(p)

-----------------------------------------------------------------------------
(* Opening a session: the first statements read the execution, and the     *)
(* approval a decision is about (_validated_execution, _validated_approval *)
(* and _validated_stage_execution_id; get_execution in a worker).          *)

Open(p, operation, at, subject, target) ==
  /\ pc[p] = "idle"
  /\ pc' = [pc EXCEPT ![p] = at]
  /\ op' = [op EXCEPT ![p] = operation]
  /\ seen' = [seen EXCEPT ![p][Execution] = committed[Execution]]
  /\ current' = [current EXCEPT ![p] = subject]
  /\ goal' = [goal EXCEPT ![p] = target]
  /\ UNCHANGED <<rows, todo>>

\* POST advance: a tick of a RUNNING execution.
OpenAdvance(p) ==
  /\ committed[Execution] = "running"
  /\ Open(p, "advance", "read", Nothing, "none")

\* A worker's iteration: it claims the entry and starts a PENDING execution,
\* ticks a RUNNING one, and has nothing to do for any other.
OpenWork(p) ==
  /\ entry = "queued"
  /\ entry' = p
  /\ \/ /\ committed[Execution] = "pending"
        /\ Open(p, "work", "move", Nothing, "running")
     \/ /\ committed[Execution] = "running"
        /\ Open(p, "work", "read", Nothing, "none")
     \/ /\ committed[Execution] \notin {"pending", "running"}
        /\ Open(p, "work", "commit", Nothing, "none")

OpenPause(p)  == Open(p, "pause", "move", Nothing, "paused")
OpenResume(p) == Open(p, "resume", "move", Nothing, "running")
OpenCancel(p) == Open(p, "cancel", "read", Nothing, "none")

OpenSkip(p) == \E s \in AllowSkip : Open(p, "skip", "read", s, "none")

\* An approval that is decided already raises.
OpenDecision(p) ==
  \E a \in Approvals, decision \in {"approve", "reject"} :
    /\ committed[a] = "open"
    /\ Open(p, decision, "decide", a, "none")

\* The decision is flushed before anything else is read.
Decide(p) ==
  /\ pc[p] = "decide"
  /\ Write(p, current[p], "decided")
  /\ pc' = [pc EXCEPT ![p] = "read"]
  /\ UNCHANGED <<op, todo, current, goal>>

-----------------------------------------------------------------------------
(* Reading the stages, and what each operation then has to do.             *)

\* The stages of a tick: the PENDING ones whose dependencies are done, and
\* the RETRYING ones that happen to be due.
ReadyIn(stage, due) ==
  due \cup {s \in Stages : /\ stage[s] = "pending"
                           /\ \A d \in DependsOn[s] : stage[d] \in Done}

Read(p) ==
  LET stage == [s \in Stages |-> Visible(p, s)]
      Continue(at, stages, target) ==
        /\ pc' = [pc EXCEPT ![p] = at]
        /\ todo' = [todo EXCEPT ![p] = stages]
        /\ goal' = [goal EXCEPT ![p] = target]
  IN  /\ pc[p] = "read"
      /\ seen' = [seen EXCEPT ![p] = [r \in Rows |-> IF r \in Stages THEN stage[r]
                                                     ELSE seen[p][r]]]
      /\ \/ /\ op[p] \in {"work", "advance"}
            /\ \E due \in SUBSET {s \in Stages : stage[s] = "retrying"} :
                 Continue("tick", ReadyIn(stage, due), "none")
         \/ /\ op[p] = "cancel"
            /\ Continue("cancel", {s \in Stages : stage[s] \in Cancellable}, "none")
         \/ op[p] = "skip" /\ Continue("skip", {}, "none")
         \/ op[p] = "approve" /\ Continue("move", {AboutStage[current[p]]}, "running")
         \/ op[p] = "reject" /\ Continue("reject", {AboutStage[current[p]]}, "none")
      /\ UNCHANGED <<rows, op, current>>

\* transition_workflow to a status that is no end: what the table is asked is
\* the status this session read, what is overwritten is the row.
Move(p) ==
  /\ pc[p] = "move"
  /\ CanMoveWorkflow(seen[p][Execution], goal[p])
  /\ Write(p, Execution, goal[p])
  /\ pc' = [pc EXCEPT ![p] = CASE op[p] = "work" /\ goal[p] = "running" -> "read"
                               [] op[p] = "approve" -> "tick"
                               [] OTHER -> "commit"]
  /\ UNCHANGED <<op, todo, current, goal>>

\* transition_workflow to an end: the row first, then the metric row, whose
\* unique key admits one per execution.
End(p) ==
  /\ pc[p] = "end"
  /\ CanMoveWorkflow(seen[p][Execution], goal[p])
  /\ Write(p, Execution, goal[p])
  /\ pc' = [pc EXCEPT ![p] = "record"]
  /\ UNCHANGED <<op, todo, current, goal>>

Record_Upsert(p) ==
  /\ pc[p] = "record"
  /\ pc' = [pc EXCEPT ![p] = "commit"]
  /\ IF committed[Metric] = "absent" THEN Write(p, Metric, goal[p])
                                     ELSE UNCHANGED <<rows, seen>>
  /\ UNCHANGED <<op, todo, current, goal>>
Record(p) ==
  /\ pc[p] = "record"
  /\ committed[Metric] = "absent"
  /\ Write(p, Metric, goal[p])
  /\ pc' = [pc EXCEPT ![p] = "commit"]
  /\ UNCHANGED <<op, todo, current, goal>>

-----------------------------------------------------------------------------
(* A tick, and the stage a decision resumes.                               *)

\* The ready list has the due retries first.
MayTake(p, s) ==
  /\ pc[p] = "tick"
  /\ s \in todo[p]
  /\ seen[p][s] = "pending" => \A other \in todo[p] : seen[p][other] # "retrying"

AtGate_Never(p, s) == FALSE
AtGate(p, s) == seen[p][s] = "pending" /\ s \in RequiresApproval

\* The approval row of a gated stage is inserted under a fresh id; the stage
\* and then the execution wait.
RequestApproval(p, s) ==
  /\ MayTake(p, s) /\ AtGate(p, s)
  /\ \E a \in Approvals :
       /\ AboutStage[a] = s /\ working[a] = "absent"
       /\ Write(p, a, "open")
  /\ pc' = [pc EXCEPT ![p] = "gate"]
  /\ current' = [current EXCEPT ![p] = s]
  /\ UNCHANGED <<op, todo, goal>>

AwaitApproval(p) ==
  /\ pc[p] = "gate"
  /\ Write(p, current[p], "waiting_approval")
  /\ pc' = [pc EXCEPT ![p] = "move"]
  /\ op' = [op EXCEPT ![p] = "gate"]
  /\ goal' = [goal EXCEPT ![p] = "waiting_approval"]
  /\ UNCHANGED <<todo, current>>

\* RUNNING is flushed before the runner is called.
StartRun_CommittedFirst(p, s) ==
  /\ MayTake(p, s) /\ ~AtGate(p, s)
  /\ CanMoveStage(seen[p][s], "running")
  /\ owner[s] \in {NoSession, p}
  /\ committed' = [committed EXCEPT ![s] = "running"]
  /\ working' = [working EXCEPT ![s] = "running"]
  /\ owner' = [owner EXCEPT ![s] = p]
  /\ seen' = [seen EXCEPT ![p][s] = "running"]
  /\ pc' = [pc EXCEPT ![p] = "run"]
  /\ todo' = [todo EXCEPT ![p] = @ \ {s}]
  /\ current' = [current EXCEPT ![p] = s]
  /\ UNCHANGED <<op, goal>>
StartRun(p, s) ==
  /\ MayTake(p, s) /\ ~AtGate(p, s)
  /\ CanMoveStage(seen[p][s], "running")
  /\ Write(p, s, "running")
  /\ pc' = [pc EXCEPT ![p] = "run"]
  /\ todo' = [todo EXCEPT ![p] = @ \ {s}]
  /\ current' = [current EXCEPT ![p] = s]
  /\ UNCHANGED <<op, goal>>

\* The runner answers: the stage is done, is retried later, or fails the
\* execution.
FinishRun(p, result) ==
  /\ pc[p] = "run"
  /\ Write(p, current[p], result)
  /\ pc' = [pc EXCEPT ![p] = IF result = "failed" THEN "end" ELSE "tick"]
  /\ goal' = [goal EXCEPT ![p] = IF result = "failed" THEN "failed" ELSE @]
  /\ UNCHANGED <<op, todo, current>>

\* _check_completion, on the statuses this session knows of.
EndTick(p) ==
  LET completed == \A s \in Stages : seen[p][s] \in Done
  IN  /\ pc[p] = "tick" /\ todo[p] = {}
      /\ pc' = [pc EXCEPT ![p] = IF completed THEN "end" ELSE "commit"]
      /\ goal' = [goal EXCEPT ![p] = IF completed THEN "completed" ELSE @]
      /\ UNCHANGED <<rows, op, seen, todo, current>>

-----------------------------------------------------------------------------
(* cancel, skip_stage and a rejection.                                     *)

CancelStage(p, s) ==
  /\ pc[p] = "cancel" /\ s \in todo[p]
  /\ Write(p, s, "cancelled")
  /\ todo' = [todo EXCEPT ![p] = @ \ {s}]
  /\ UNCHANGED <<pc, op, current, goal>>

CancelExecution(p) ==
  /\ pc[p] = "cancel" /\ todo[p] = {}
  /\ pc' = [pc EXCEPT ![p] = "end"]
  /\ goal' = [goal EXCEPT ![p] = "cancelled"]
  /\ UNCHANGED <<rows, op, seen, todo, current>>

SkipStage(p) ==
  /\ pc[p] = "skip"
  /\ CanMoveStage(seen[p][current[p]], "skipped")
  /\ Write(p, current[p], "skipped")
  /\ pc' = [pc EXCEPT ![p] = "commit"]
  /\ UNCHANGED <<op, todo, current, goal>>

RejectStage(p, s) ==
  /\ pc[p] = "reject" /\ s \in todo[p]
  /\ CanMoveStage(seen[p][s], "failed")
  /\ Write(p, s, "failed")
  /\ pc' = [pc EXCEPT ![p] = "end"]
  /\ goal' = [goal EXCEPT ![p] = "failed"]
  /\ UNCHANGED <<op, todo, current>>

-----------------------------------------------------------------------------
\* An execution submitted and committed: PENDING, its entry in the queue.
InitialValue(r) ==
  IF r \in Stages \cup {Execution} THEN "pending" ELSE "absent"

Init ==
  /\ committed = [r \in Rows |-> InitialValue(r)]
  /\ working = [r \in Rows |-> InitialValue(r)]
  /\ owner = [r \in Rows |-> NoSession]
  /\ entry = "queued"
  /\ pc = [p \in Sessions |-> "idle"]
  /\ op = [p \in Sessions |-> "none"]
  /\ seen = [p \in Sessions |-> Blank]
  /\ todo = [p \in Sessions |-> {}]
  /\ current = [p \in Sessions |-> Nothing]
  /\ goal = [p \in Sessions |-> "none"]

\* The requests: none of them touches the queue.
OpenRequest(p) ==
  \/ OpenAdvance(p) \/ OpenPause(p) \/ OpenResume(p)
  \/ OpenCancel(p) \/ OpenSkip(p) \/ OpenDecision(p)

OnStage(p, s) ==
  \/ RequestApproval(p, s) \/ StartRun(p, s)
  \/ CancelStage(p, s) \/ RejectStage(p, s)

Proceed(p) ==
  \/ OpenRequest(p)
  \/ Decide(p) \/ Read(p) \/ Move(p) \/ End(p) \/ Record(p)
  \/ \E s \in Stages : OnStage(p, s)
  \/ AwaitApproval(p)
  \/ \E result \in {"completed", "retrying", "failed"} : FinishRun(p, result)
  \/ EndTick(p) \/ CancelExecution(p) \/ SkipStage(p)

Step(p) ==
  \/ Proceed(p) /\ UNCHANGED entry
  \/ OpenWork(p) \/ Commit(p) \/ Abort(p)

Next == \E p \in Sessions : Step(p)

Spec == Init /\ [][Next]_vars

-----------------------------------------------------------------------------
(* Properties.                                                             *)

\* Every variable has its type, and only what a session wrote differs from
\* what is committed.
SessionsTypeOK ==
  /\ committed \in [Rows -> Values]
  /\ working \in [Rows -> Values]
  /\ owner \in [Rows -> Sessions \cup {NoSession}]
  /\ entry \in {"queued", "none"} \cup Sessions
  /\ pc \in [Sessions -> {"idle", "decide", "read", "move", "tick", "gate", "run",
                          "cancel", "skip", "reject", "end", "record", "commit"}]
  /\ seen \in [Sessions -> [Rows -> Values]]
  /\ todo \in [Sessions -> SUBSET Stages]
  /\ current \in [Sessions -> Stages \cup Approvals \cup {Nothing}]
  /\ \A r \in Rows : owner[r] = NoSession => working[r] = committed[r]

\* However requests and ticks overlap, an execution ends in one way: once an
\* end and its metric row are committed, no later session ends it otherwise.
\* Of two that end it at once the second waits for the row's lock, replaces
\* the status, and then fails on the metric's unique key, which takes its
\* replacement back (transition_workflow and _record_metric).
OneEnd ==
  [][committed[Metric] # "absent" =>
       /\ committed'[Metric] = committed[Metric]
       /\ committed'[Execution] \in TerminalWorkflow =>
            committed'[Execution] = committed[Metric]]_vars

\* No stage is in two runs of the runner at one time, even when an API tick, a
\* worker's tick and an approval all chose it: RUNNING is flushed before the
\* runner is called, and the row's lock makes the others wait
\* (_run_and_apply_stage_result).
RunsDoNotOverlap ==
  \A p, q \in Sessions :
    pc[p] = "run" /\ pc[q] = "run" /\ current[p] = current[q] => p = q

\* No other session, and nobody after a crash, ever sees a stage RUNNING: a
\* run and its result are one transaction, so a stage is never stranded
\* (executor.py's _reap_timed_out_stage has nothing to find).
NeverStranded == \A s \in Stages : committed[s] # "running"

\* A gated stage is run only after a decision on an approval of it, also when
\* two ticks ask for its approval twice and two people decide.
DecidedBeforeRun ==
  \A s \in RequiresApproval :
    working[s] \in {"running", "retrying", "completed"} =>
      \E a \in Approvals : AboutStage[a] = s /\ working[a] = "decided"

\* Nobody is left to see the execution through: it has no entry, or the worker
\* that has claimed it read a status at rest and will let go of it.
LetGo ==
  \/ entry = "none"
  \/ \E p \in Sessions :
       /\ entry = p /\ owner[Execution] # p
       /\ seen[p][Execution] \notin {"pending", "running"}

\* However a worker's iteration overlaps with requests, it is not the worker
\* that loses an execution: it lets go of what is paused, waits for a human or
\* has ended, and enqueues again what is RUNNING (loop.py).  A resume or an
\* approval that overlaps with it finds the execution let go of, and enqueues
\* nothing: StillRunningReenqueued of WorkerLoop.
NeverDropped ==
  [][~LetGo /\ LetGo' => committed'[Execution] \notin {"pending", "running"}]_vars

\* What state_machine.py's table says of every change of an execution: an end
\* may be archived and nothing else.  It is checked against the status the
\* session read, so an overlapping session's end is overwritten.
CommittedEndIsFinal ==
  [][committed[Execution] \in TerminalWorkflow =>
       committed'[Execution] \in {committed[Execution], "archived"}]_vars
=============================================================================
