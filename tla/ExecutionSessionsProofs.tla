---------------------- MODULE ExecutionSessionsProofs ----------------------
(***************************************************************************)
(* For any set of sessions, any workflow and any number of approvals: an   *)
(* end is recorded once, a stage is never in two runs, none is ever left   *)
(* RUNNING, no gated stage runs before a decision, and a worker lets go    *)
(* only of an execution at rest.  The first three follow from one          *)
(* inductive invariant about what a transaction owns at each of its        *)
(* statements; the fourth adds what a session has read of the stage, and   *)
(* what decision stands behind it, the last what it has of the execution.  *)
(***************************************************************************)
EXTENDS ExecutionSessions, TLAPS

PCs == {"idle", "decide", "read", "move", "tick", "gate", "run",
        "cancel", "skip", "reject", "end", "record", "commit"}

OpenAny(p) == OpenRequest(p) \/ OpenWork(p)

Ops == {"none", "work", "advance", "pause", "resume", "cancel", "skip",
        "approve", "reject", "gate"}

\* The part of the type invariant the proofs need.
TypeInv ==
  /\ committed \in [Rows -> Values]
  /\ working \in [Rows -> Values]
  /\ owner \in [Rows -> Sessions \cup {NoSession}]
  /\ entry \in {"queued", "none"} \cup Sessions
  /\ pc \in [Sessions -> PCs]
  /\ op \in [Sessions -> Ops]
  /\ seen \in [Sessions -> [Rows -> Values]]
  /\ todo \in [Sessions -> SUBSET Stages]
  /\ current \in [Sessions -> Stages \cup Approvals \cup {Nothing}]
  /\ goal \in [Sessions -> Values \cup {"none"}]

Subject == \A p \in Sessions :
  /\ pc[p] = "decide" => current[p] \in Approvals
  /\ pc[p] \in {"gate", "run", "skip"} => current[p] \in Stages
  /\ pc[p] = "read" /\ op[p] = "skip" => current[p] \in Stages
  /\ pc[p] = "read" /\ op[p] \in {"approve", "reject"} => current[p] \in Approvals
  /\ pc[p] = "decide" => op[p] \in {"approve", "reject"}

OwnedOnly == \A r \in Rows :
  /\ owner[r] = NoSession => working[r] = committed[r]
  /\ owner[r] # NoSession => pc[owner[r]] # "idle"

\* A session calls the runner with its stage locked and RUNNING, and no stage
\* is RUNNING otherwise.
RunIsLocked ==
  /\ \A p \in Sessions : pc[p] = "run" =>
       owner[current[p]] = p /\ working[current[p]] = "running"
  /\ \A s \in Stages : working[s] = "running" =>
       owner[s] # NoSession /\ pc[owner[s]] = "run" /\ current[owner[s]] = s
  /\ NeverStranded

\* A committed end is the one its metric row was written for.
EndedOnce ==
  committed[Execution] \in TerminalWorkflow =>
    committed[Metric] = committed[Execution]

\* A session about to write the metric row has locked the execution at its
\* end, one that has written it is about to commit, and an end is always on
\* its way from the first to the second.
Recording ==
  \A p \in Sessions : pc[p] = "record" =>
    owner[Execution] = p /\ working[Execution] = goal[p]
Recorded ==
  owner[Metric] # NoSession =>
    /\ owner[Execution] = owner[Metric] /\ pc[owner[Metric]] = "commit"
    /\ working[Metric] = working[Execution] /\ committed[Metric] = "absent"
Ending ==
  owner[Execution] # NoSession /\ working[Execution] \in TerminalWorkflow =>
    pc[owner[Execution]] = "record" \/ owner[Metric] = owner[Execution]

\* The metric row is written by the session that has locked the execution at
\* an end, as the last thing before its commit.
EndIsLocked ==
  /\ \A p \in Sessions :
       /\ pc[p] = "move" => goal[p] \notin TerminalWorkflow
       /\ pc[p] = "end" => goal[p] \in TerminalWorkflow
       /\ pc[p] = "record" => goal[p] \in TerminalWorkflow
  /\ Recording /\ Recorded /\ Ending /\ EndedOnce

IndInv == TypeInv /\ Subject /\ OwnedOnly /\ RunIsLocked /\ EndIsLocked

-----------------------------------------------------------------------------
(* What a step of session p is, as far as locks and ends are concerned.    *)

Others(p) == \A q \in Sessions \ {p} :
  pc'[q] = pc[q] /\ current'[q] = current[q] /\ goal'[q] = goal[q]

\* The statement p goes on to, unless that is a run, a metric row or the end.
GoesOn(p) ==
  /\ Others(p)
  /\ pc'[p] \in PCs \ {"idle", "run", "record"}
  /\ pc'[p] = "move" => goal'[p] \notin TerminalWorkflow
  /\ pc'[p] = "end" => goal'[p] \in TerminalWorkflow

Thinks(p) ==
  /\ UNCHANGED rows /\ GoesOn(p)
  /\ pc[p] \notin {"run", "record", "commit"}

WritesRow(p) ==
  /\ \E r \in Stages \cup Approvals, v \in Values :
       /\ Write(p, r, v)
       /\ r \in Stages => v # "running"
       /\ pc[p] = "run" => r = current[p]
  /\ pc[p] \notin {"idle", "record", "commit"} /\ GoesOn(p)

StartsRun(p) ==
  /\ pc[p] = "tick" /\ pc'[p] = "run" /\ Others(p)
  /\ \E s \in Stages : Write(p, s, "running") /\ current'[p] = s

Moves(p) ==
  /\ pc[p] = "move" /\ GoesOn(p)
  /\ \E v \in Values \ TerminalWorkflow : Write(p, Execution, v)

Ends(p) ==
  /\ pc[p] = "end" /\ pc'[p] = "record" /\ Others(p)
  /\ \E v \in TerminalWorkflow : Write(p, Execution, v) /\ goal'[p] = v

Records(p) ==
  /\ pc[p] = "record" /\ pc'[p] = "commit" /\ Others(p)
  /\ committed[Metric] = "absent" /\ Write(p, Metric, goal[p])

\* Statuses are statuses and rows are rows.
LEMMA RowsAreRows ==
  /\ Execution \in Rows /\ Metric \in Rows /\ Stages \subseteq Rows /\ Approvals \subseteq Rows
  /\ Execution # Metric
  /\ \A r \in Stages \cup Approvals : r # Execution /\ r # Metric
  /\ TerminalWorkflow \subseteq Values
  /\ StageStatuses \subseteq Values /\ WorkflowStatuses \subseteq Values
BY RowAssumption DEF Rows, Values, TerminalWorkflow, WorkflowStatuses

\* Every step is of one of these kinds.
LEMMA StepKinds ==
  ASSUME TypeInv, Subject, EndIsLocked, NEW p \in Sessions, Step(p)
  PROVE  \/ Thinks(p) \/ WritesRow(p) \/ StartsRun(p) \/ Moves(p)
         \/ Ends(p) \/ Records(p) \/ Commit(p) \/ Abort(p)
<1> USE DEF Others, GoesOn, PCs, TypeInv
<1>1. ASSUME OpenAny(p) PROVE Thinks(p)
  BY <1>1 DEF OpenAny, OpenRequest, OpenAdvance, OpenWork, OpenPause, OpenResume, OpenCancel, OpenSkip,
     OpenDecision, Open, Thinks, TerminalWorkflow
<1>2. ASSUME Decide(p) PROVE WritesRow(p)
  <2>1. current[p] \in Approvals /\ Write(p, current[p], "decided") /\ "decided" \in Values
    BY <1>2 DEF Decide, Subject, Values
  <2> QED BY <1>2, <2>1, RowAssumption DEF Decide, WritesRow
<1>3. ASSUME Read(p) PROVE Thinks(p)
  BY <1>3 DEF Read, Thinks, TerminalWorkflow
<1>4. ASSUME Move(p) PROVE Moves(p)
  <2>1. goal[p] \in Values \ TerminalWorkflow
    BY <1>4 DEF Move, EndIsLocked, CanMoveWorkflow, Values, WorkflowStatuses
  <2> QED BY <1>4, <2>1 DEF Move, Moves
<1>5. ASSUME End(p) PROVE Ends(p)
  BY <1>5 DEF End, EndIsLocked, Ends
<1>6. ASSUME Record(p) PROVE Records(p)
  BY <1>6 DEF Record, Records
<1>7. ASSUME NEW s \in Stages, RequestApproval(p, s) PROVE WritesRow(p)
  <2>1. PICK a \in Approvals : Write(p, a, "open")
    BY <1>7 DEF RequestApproval
  <2>2. "open" \in Values /\ a \notin Stages
    BY RowAssumption DEF Values
  <2> QED BY <1>7, <2>1, <2>2 DEF RequestApproval, MayTake, WritesRow
<1>8. ASSUME NEW s \in Stages, StartRun(p, s) PROVE StartsRun(p)
  BY <1>8 DEF StartRun, MayTake, StartsRun
<1>9. ASSUME NEW s \in Stages, CancelStage(p, s) PROVE WritesRow(p)
  <2>1. "cancelled" \in Values /\ Write(p, s, "cancelled")
    BY <1>9 DEF CancelStage, Values, StageStatuses
  <2> QED BY <1>9, <2>1 DEF CancelStage, WritesRow
<1>10. ASSUME NEW s \in Stages, RejectStage(p, s) PROVE WritesRow(p)
  <2>1. "failed" \in Values /\ Write(p, s, "failed")
    BY <1>10 DEF RejectStage, Values, StageStatuses
  <2> QED BY <1>10, <2>1 DEF RejectStage, WritesRow, TerminalWorkflow
<1>11. ASSUME AwaitApproval(p) PROVE WritesRow(p)
  <2>1. current[p] \in Stages /\ "waiting_approval" \in Values
    BY <1>11 DEF AwaitApproval, Subject, Values, StageStatuses
  <2> QED BY <1>11, <2>1 DEF AwaitApproval, WritesRow, TerminalWorkflow
<1>12. ASSUME NEW result \in {"completed", "retrying", "failed"}, FinishRun(p, result)
       PROVE  WritesRow(p)
  <2>1. current[p] \in Stages /\ result \in Values /\ result # "running"
    BY <1>12 DEF FinishRun, Subject, Values, StageStatuses
  <2>2. Write(p, current[p], result) /\ pc[p] = "run"
    BY <1>12 DEF FinishRun
  <2>3. GoesOn(p)
    BY <1>12 DEF FinishRun, TerminalWorkflow
  <2> QED BY <2>1, <2>2, <2>3 DEF WritesRow
<1>13. ASSUME EndTick(p) PROVE Thinks(p)
  BY <1>13 DEF EndTick, Thinks, TerminalWorkflow
<1>14. ASSUME CancelExecution(p) PROVE Thinks(p)
  BY <1>14 DEF CancelExecution, Thinks, TerminalWorkflow
<1>15. ASSUME SkipStage(p) PROVE WritesRow(p)
  <2>1. current[p] \in Stages /\ "skipped" \in Values /\ Write(p, current[p], "skipped")
    BY <1>15 DEF SkipStage, Subject, Values, StageStatuses
  <2> QED BY <1>15, <2>1 DEF SkipStage, WritesRow
<1> QED
  BY <1>1, <1>2, <1>3, <1>4, <1>5, <1>6, <1>7, <1>8, <1>9, <1>10, <1>11, <1>12, <1>13,
     <1>14, <1>15 DEF Step, Proceed, OpenAny, OnStage

-----------------------------------------------------------------------------
(* Types.                                                                  *)

\* A write keeps the rows, and the identity map, typed.
LEMMA WriteTypes ==
  ASSUME TypeInv, NEW p \in Sessions, NEW r \in Rows, NEW v \in Values, Write(p, r, v)
  PROVE  /\ committed' \in [Rows -> Values]
         /\ working' \in [Rows -> Values]
         /\ owner' \in [Rows -> Sessions \cup {NoSession}]
         /\ seen' \in [Sessions -> [Rows -> Values]]
BY DEF TypeInv, Write

\* A step writes rows of their types.
LEMMA StepRowTypes ==
  ASSUME TypeInv, Subject, EndIsLocked, NEW p \in Sessions, Step(p)
  PROVE  /\ committed' \in [Rows -> Values]
         /\ working' \in [Rows -> Values]
         /\ owner' \in [Rows -> Sessions \cup {NoSession}]
<1> USE RowsAreRows
<1>1. CASE Thinks(p)
  BY <1>1 DEF Thinks, rows, TypeInv
<1>2. CASE WritesRow(p)
  BY <1>2, WriteTypes DEF WritesRow
<1>3. CASE StartsRun(p)
  BY <1>3, WriteTypes DEF StartsRun, StageStatuses
<1>4. CASE Moves(p)
  BY <1>4, WriteTypes DEF Moves
<1>5. CASE Ends(p)
  BY <1>5, WriteTypes DEF Ends
<1>6. CASE Records(p)
  <2>1. goal[p] \in Values
    BY <1>6 DEF Records, EndIsLocked
  <2> QED BY <1>6, <2>1, WriteTypes DEF Records
<1>7. CASE Commit(p)
  BY <1>7 DEF Commit, Close, TypeInv
<1>8. CASE Abort(p)
  BY <1>8 DEF Abort, Close, TypeInv
<1> QED
  BY <1>1, <1>2, <1>3, <1>4, <1>5, <1>6, <1>7, <1>8, StepKinds

\* The entry is in the queue, with one session, or gone.
LEMMA EntryType ==
  ASSUME TypeInv, NEW p \in Sessions, Step(p)
  PROVE  entry' \in {"queued", "none"} \cup Sessions
BY DEF Step, OpenWork, Commit, Requeue, Abort, ReturnEntry, TypeInv

\* What StepLocals shows of each kind of step.
LocalTypes ==
  /\ pc \in [Sessions -> PCs]
  /\ op \in [Sessions -> Ops]
  /\ seen \in [Sessions -> [Rows -> Values]]
  /\ todo \in [Sessions -> SUBSET Stages]
  /\ current \in [Sessions -> Stages \cup Approvals \cup {Nothing}]
  /\ goal \in [Sessions -> Values \cup {"none"}]
  /\ Subject

\* A step keeps every session's own variables typed, and each session at a
\* row of the kind its next statement is about.
LEMMA StepLocals ==
  ASSUME TypeInv, Subject, EndIsLocked, NEW p \in Sessions, Step(p)
  PROVE  LocalTypes'
<1> USE DEF PCs, Ops
<1>v. /\ {"running", "paused", "waiting_approval", "completed", "failed", "cancelled",
          "retrying", "skipped", "open", "decided", "absent"} \subseteq Values
      /\ TerminalWorkflow \subseteq Values
      /\ AllowSkip \subseteq Stages /\ Stages \subseteq Rows /\ Approvals \subseteq Rows
      /\ Execution \in Rows /\ Metric \in Rows
  BY RowAssumption, RowsAreRows DEF Values, WorkflowStatuses, StageStatuses
<1>l. LocalTypes
  BY DEF TypeInv, LocalTypes
<1>1. ASSUME OpenAny(p) PROVE LocalTypes'
  <2>1. committed[Execution] \in Values
    BY <1>v DEF TypeInv
  <2>2. ASSUME NEW o \in Ops, NEW at \in PCs, NEW x \in Stages \cup Approvals \cup {Nothing},
               NEW g \in Values \cup {"none"}, Open(p, o, at, x, g),
               /\ at = "decide" => x \in Approvals /\ o \in {"approve", "reject"}
               /\ at \in {"read", "move", "decide"} /\ o = "skip" => x \in Stages
               /\ at = "read" => o \notin {"approve", "reject"}
               /\ at \in {"read", "move", "decide", "commit"}
        PROVE  LocalTypes'
    BY <2>1, <2>2, <1>l, <1>v DEF Open, LocalTypes, Subject
  <2>3. CASE OpenAdvance(p) BY <2>2, <2>3 DEF OpenAdvance
  <2>4. CASE OpenWork(p) BY <2>2, <2>4, <1>v DEF OpenWork
  <2>5. CASE OpenPause(p) BY <2>2, <2>5, <1>v DEF OpenPause
  <2>6. CASE OpenResume(p) BY <2>2, <2>6, <1>v DEF OpenResume
  <2>7. CASE OpenCancel(p) BY <2>2, <2>7 DEF OpenCancel
  <2>8. CASE OpenSkip(p) BY <2>2, <2>8, <1>v DEF OpenSkip
  <2>9. CASE OpenDecision(p) BY <2>2, <2>9 DEF OpenDecision
  <2> QED BY <1>1, <2>3, <2>4, <2>5, <2>6, <2>7, <2>8, <2>9 DEF OpenAny, OpenRequest
<1>w. ASSUME NEW r \in Rows, NEW v \in Values, Write(p, r, v)
      PROVE  seen' \in [Sessions -> [Rows -> Values]]
  BY <1>w, WriteTypes
<1>2. ASSUME Decide(p) PROVE LocalTypes'
  <2>1. seen' \in [Sessions -> [Rows -> Values]]
    BY <1>2, <1>w, <1>v DEF Decide, Subject
  <2> QED BY <1>2, <2>1, <1>l DEF Decide, LocalTypes, Subject
<1>3. ASSUME Read(p) PROVE LocalTypes'
  <2> DEFINE stage == [s \in Stages |-> Visible(p, s)]
  <2>1. \A s \in Stages : stage[s] \in Values
    BY <1>v DEF TypeInv, Visible
  <2>2. seen' \in [Sessions -> [Rows -> Values]]
    <3>1. [r \in Rows |-> IF r \in Stages THEN stage[r] ELSE seen[p][r]] \in [Rows -> Values]
      BY <2>1, <1>l DEF LocalTypes
    <3>2. seen' = [seen EXCEPT ![p] = [r \in Rows |-> IF r \in Stages THEN stage[r]
                                                      ELSE seen[p][r]]]
      BY <1>3 DEF Read
    <3> QED BY <3>1, <3>2, <1>l DEF LocalTypes
  <2>3. PICK at \in PCs, set \in SUBSET Stages, g \in Values \cup {"none"} :
          /\ pc' = [pc EXCEPT ![p] = at]
          /\ todo' = [todo EXCEPT ![p] = set]
          /\ goal' = [goal EXCEPT ![p] = g]
          /\ at = "skip" => op[p] = "skip"
          /\ at \notin {"decide", "gate", "run", "read"}
    <3> DEFINE C(at, set, g) == /\ pc' = [pc EXCEPT ![p] = at]
                                /\ todo' = [todo EXCEPT ![p] = set]
                                /\ goal' = [goal EXCEPT ![p] = g]
    <3>1. CASE op[p] \in {"work", "advance"}
      <4>1. PICK due \in SUBSET {s \in Stages : stage[s] = "retrying"} :
              C("tick", ReadyIn(stage, due), "none")
        BY <1>3, <3>1 DEF Read
      <4>2. ReadyIn(stage, due) \in SUBSET Stages
        BY DEF ReadyIn
      <4> QED BY <4>1, <4>2
    <3>2. CASE op[p] = "cancel"
      <4>1. C("cancel", {s \in Stages : stage[s] \in Cancellable}, "none")
        BY <1>3, <3>2 DEF Read
      <4> QED BY <4>1
    <3>3. CASE op[p] = "skip"
      <4>1. C("skip", {}, "none")
        BY <1>3, <3>3 DEF Read
      <4> QED BY <4>1, <3>3
    <3>4. CASE op[p] \in {"approve", "reject"}
      <4>1. AboutStage[current[p]] \in Stages
        BY <1>3, <3>4, RowAssumption DEF Read, Subject
      <4>2. \/ C("move", {AboutStage[current[p]]}, "running")
            \/ C("reject", {AboutStage[current[p]]}, "none")
        BY <1>3, <3>4 DEF Read
      <4> QED BY <4>1, <4>2, <1>v
    <3> QED BY <1>3, <3>1, <3>2, <3>3, <3>4 DEF Read
  <2>4. UNCHANGED <<op, current>> /\ pc[p] = "read"
    BY <1>3 DEF Read
  <2> QED BY <2>2, <2>3, <2>4, <1>l DEF LocalTypes, Subject
<1>4. ASSUME Move(p) PROVE LocalTypes'
  <2>1. goal[p] \in Values
    BY <1>4, <1>l DEF Move, LocalTypes, CanMoveWorkflow, Values, WorkflowStatuses
  <2>2. seen' \in [Sessions -> [Rows -> Values]]
    BY <1>4, <1>w, <1>v, <2>1 DEF Move
  <2>3. PICK at \in {"read", "tick", "commit"} :
          pc' = [pc EXCEPT ![p] = at] /\ (at = "read" => op[p] = "work")
    BY <1>4 DEF Move
  <2> QED BY <1>4, <2>2, <2>3, <1>l DEF Move, LocalTypes, Subject
<1>5. ASSUME End(p) PROVE LocalTypes'
  <2>1. goal[p] \in Values
    BY <1>5, <1>l DEF End, LocalTypes, CanMoveWorkflow, Values, WorkflowStatuses
  <2>2. seen' \in [Sessions -> [Rows -> Values]]
    BY <1>5, <1>w, <1>v, <2>1 DEF End
  <2> QED BY <1>5, <2>2, <1>l DEF End, LocalTypes, Subject
<1>6. ASSUME Record(p) PROVE LocalTypes'
  <2>1. seen' \in [Sessions -> [Rows -> Values]]
    BY <1>6, <1>w, <1>v DEF Record, EndIsLocked
  <2> QED BY <1>6, <2>1, <1>l DEF Record, LocalTypes, Subject
<1>7. ASSUME NEW s \in Stages, OnStage(p, s) PROVE LocalTypes'
  <2>1. seen' \in [Sessions -> [Rows -> Values]]
    BY <1>7, <1>w, <1>v DEF OnStage, RequestApproval, StartRun, CancelStage, RejectStage
  <2>2. CASE RequestApproval(p, s) BY <2>1, <2>2, <1>l DEF RequestApproval, LocalTypes, Subject
  <2>3. CASE StartRun(p, s) BY <2>1, <2>3, <1>l DEF StartRun, LocalTypes, Subject
  <2>4. CASE CancelStage(p, s) BY <2>1, <2>4, <1>l DEF CancelStage, LocalTypes, Subject
  <2>5. CASE RejectStage(p, s) BY <2>1, <2>5, <1>l, <1>v DEF RejectStage, LocalTypes, Subject
  <2> QED BY <1>7, <2>2, <2>3, <2>4, <2>5 DEF OnStage
<1>8. ASSUME AwaitApproval(p) PROVE LocalTypes'
  <2>1. seen' \in [Sessions -> [Rows -> Values]]
    BY <1>8, <1>w, <1>v DEF AwaitApproval, Subject
  <2> QED BY <1>8, <2>1, <1>l, <1>v DEF AwaitApproval, LocalTypes, Subject
<1>9. ASSUME NEW result \in {"completed", "retrying", "failed"}, FinishRun(p, result)
      PROVE  LocalTypes'
  <2>1. seen' \in [Sessions -> [Rows -> Values]]
    BY <1>9, <1>w, <1>v DEF FinishRun, Subject
  <2> QED BY <1>9, <2>1, <1>l, <1>v DEF FinishRun, LocalTypes, Subject
<1>10. ASSUME EndTick(p) PROVE LocalTypes'
  BY <1>10, <1>l, <1>v DEF EndTick, LocalTypes, Subject
<1>11. ASSUME CancelExecution(p) PROVE LocalTypes'
  BY <1>11, <1>l, <1>v DEF CancelExecution, LocalTypes, Subject
<1>12. ASSUME SkipStage(p) PROVE LocalTypes'
  <2>1. seen' \in [Sessions -> [Rows -> Values]]
    BY <1>12, <1>w, <1>v DEF SkipStage, Subject
  <2> QED BY <1>12, <2>1, <1>l DEF SkipStage, LocalTypes, Subject
<1>13. ASSUME Commit(p) \/ Abort(p) PROVE LocalTypes'
  <2>1. Close(p) BY <1>13 DEF Commit, Abort
  <2>2. Blank \in [Rows -> Values] BY <1>v DEF Blank
  <2> QED BY <2>1, <2>2, <1>l DEF Close, LocalTypes, Subject
<1> QED
  BY <1>1, <1>2, <1>3, <1>4, <1>5, <1>6, <1>7, <1>8, <1>9, <1>10, <1>11, <1>12, <1>13
  DEF Step, Proceed, OpenAny

-----------------------------------------------------------------------------
(* Locks, runs and ends.                                                   *)

\* Only what a session with an open transaction wrote differs from what is
\* committed.
LEMMA StepOwned ==
  ASSUME IndInv, NEW p \in Sessions, Step(p)
  PROVE  OwnedOnly'
<1> USE RowsAreRows, RowAssumption DEF IndInv, TypeInv, OwnedOnly
<1>k. \/ Thinks(p) \/ WritesRow(p) \/ StartsRun(p) \/ Moves(p)
      \/ Ends(p) \/ Records(p) \/ Commit(p) \/ Abort(p)
  BY StepKinds
<1>t. pc' \in [Sessions -> PCs]
  BY StepLocals DEF LocalTypes
<1>1. CASE Thinks(p)
  BY <1>1, <1>t DEF Thinks, rows, GoesOn, Others
<1>w. ASSUME NEW r \in Rows, NEW v, Write(p, r, v), Others(p), pc'[p] # "idle"
      PROVE  OwnedOnly'
  BY <1>w, <1>t DEF Write, Others
<1>2. CASE WritesRow(p)
  BY <1>2, <1>w DEF WritesRow, GoesOn
<1>3. CASE StartsRun(p)
  BY <1>3, <1>w DEF StartsRun
<1>4. CASE Moves(p)
  BY <1>4, <1>w DEF Moves, GoesOn
<1>5. CASE Ends(p)
  BY <1>5, <1>w DEF Ends
<1>6. CASE Records(p)
  BY <1>6, <1>w DEF Records
<1>7. CASE Commit(p)
  BY <1>7 DEF Commit, Close
<1>8. CASE Abort(p)
  BY <1>8 DEF Abort, Close
<1> QED BY <1>k, <1>1, <1>2, <1>3, <1>4, <1>5, <1>6, <1>7, <1>8

\* A stage is RUNNING exactly while the session that locks it is in the
\* runner, and never in a committed row.
LEMMA StepRuns ==
  ASSUME IndInv, NEW p \in Sessions, Step(p)
  PROVE  RunIsLocked'
<1> USE RowsAreRows, RowAssumption DEF IndInv, TypeInv, RunIsLocked, NeverStranded
<1>k. \/ Thinks(p) \/ WritesRow(p) \/ StartsRun(p) \/ Moves(p)
      \/ Ends(p) \/ Records(p) \/ Commit(p) \/ Abort(p)
  BY StepKinds
<1>s. \A q \in Sessions : pc[q] = "run" => current[q] \in Stages
  BY DEF Subject
<1>1. CASE Thinks(p)
  BY <1>1 DEF Thinks, rows, GoesOn, Others
<1>2. CASE WritesRow(p)
  <2>1. PICK r \in Stages \cup Approvals, v \in Values :
          /\ Write(p, r, v)
          /\ r \in Stages => v # "running"
          /\ pc[p] = "run" => r = current[p]
    BY <1>2 DEF WritesRow
  <2>2. Others(p) /\ pc'[p] # "run"
    BY <1>2 DEF WritesRow, GoesOn
  <2>3. \A q \in Sessions : pc'[q] = "run" =>
          owner'[current'[q]] = q /\ working'[current'[q]] = "running"
    BY <1>s, <2>1, <2>2 DEF Write, Others
  <2>4. \A s \in Stages : working'[s] = "running" =>
          owner'[s] # NoSession /\ pc'[owner'[s]] = "run" /\ current'[owner'[s]] = s
    BY <1>s, <2>1, <2>2 DEF Write, Others
  <2>5. committed' = committed
    BY <2>1 DEF Write
  <2> QED BY <2>3, <2>4, <2>5
<1>3. CASE StartsRun(p)
  <2>1. PICK s \in Stages : Write(p, s, "running") /\ current'[p] = s
    BY <1>3 DEF StartsRun
  <2>2. Others(p) /\ pc[p] = "tick" /\ pc'[p] = "run"
    BY <1>3 DEF StartsRun
  <2>3. \A q \in Sessions : pc'[q] = "run" =>
          owner'[current'[q]] = q /\ working'[current'[q]] = "running"
    <3>1. ASSUME NEW q \in Sessions \ {p}, pc'[q] = "run"
          PROVE  owner'[current'[q]] = q /\ working'[current'[q]] = "running"
      <4>1. pc[q] = "run" /\ current'[q] = current[q] /\ current[q] \in Stages
        BY <1>s, <2>2, <3>1 DEF Others
      <4>2. owner[current[q]] = q /\ current[q] # s
        BY <2>1, <4>1 DEF Write
      <4> QED BY <2>1, <4>1, <4>2 DEF Write
    <3>2. owner'[s] = p /\ working'[s] = "running"
      BY <2>1 DEF Write
    <3> QED BY <2>1, <3>1, <3>2
  <2>4. \A x \in Stages : working'[x] = "running" =>
          owner'[x] # NoSession /\ pc'[owner'[x]] = "run" /\ current'[owner'[x]] = x
    <3>1. owner'[s] = p /\ p # NoSession
      BY <2>1 DEF Write
    <3>2. ASSUME NEW x \in Stages \ {s}, working'[x] = "running"
          PROVE  owner'[x] # NoSession /\ pc'[owner'[x]] = "run" /\ current'[owner'[x]] = x
      <4>1. working[x] = "running" /\ owner'[x] = owner[x]
        BY <2>1, <3>2 DEF Write
      <4>2. owner[x] \in Sessions \ {p}
        BY <2>2, <3>2, <4>1
      <4> QED BY <2>2, <3>2, <4>1, <4>2 DEF Others
    <3> QED BY <2>1, <2>2, <3>1, <3>2
  <2>5. committed' = committed
    BY <2>1 DEF Write
  <2> QED BY <2>3, <2>4, <2>5
<1>w. ASSUME NEW r \in {Execution, Metric}, NEW v, Write(p, r, v), Others(p),
             pc[p] # "run", pc'[p] # "run"
      PROVE  RunIsLocked'
  <2>1. \A q \in Sessions : pc'[q] = "run" =>
          owner'[current'[q]] = q /\ working'[current'[q]] = "running"
    BY <1>s, <1>w DEF Write, Others
  <2>2. \A s \in Stages : working'[s] = "running" =>
          owner'[s] # NoSession /\ pc'[owner'[s]] = "run" /\ current'[owner'[s]] = s
    BY <1>s, <1>w DEF Write, Others
  <2> QED BY <1>w, <2>1, <2>2 DEF Write
<1>4. CASE Moves(p)
  BY <1>4, <1>w DEF Moves, GoesOn
<1>5. CASE Ends(p)
  BY <1>5, <1>w DEF Ends
<1>6. CASE Records(p)
  BY <1>6, <1>w DEF Records
<1>7. CASE Commit(p)
  <2>1. pc[p] # "run" /\ Close(p)
    BY <1>7 DEF Commit
  <2>2. \A s \in Stages : owner[s] = p => working[s] # "running"
    BY <2>1
  <2>3. NeverStranded'
    BY <1>7, <2>2 DEF Commit
  <2>4. \A q \in Sessions : pc'[q] = "run" =>
          owner'[current'[q]] = q /\ working'[current'[q]] = "running"
    BY <1>s, <1>7, <2>1 DEF Commit, Close
  <2>5. \A s \in Stages : working'[s] = "running" =>
          owner'[s] # NoSession /\ pc'[owner'[s]] = "run" /\ current'[owner'[s]] = s
    BY <1>7, <2>1, <2>2 DEF Commit, Close
  <2> QED BY <2>3, <2>4, <2>5
<1>8. CASE Abort(p)
  <2>1. \A q \in Sessions : pc'[q] = "run" =>
          owner'[current'[q]] = q /\ working'[current'[q]] = "running"
    BY <1>s, <1>8 DEF Abort, Close
  <2>2. \A s \in Stages : working'[s] = "running" =>
          owner'[s] # NoSession /\ pc'[owner'[s]] = "run" /\ current'[owner'[s]] = s
    BY <1>8 DEF Abort, Close
  <2> QED BY <1>8, <2>1, <2>2 DEF Abort
<1> QED BY <1>k, <1>1, <1>2, <1>3, <1>4, <1>5, <1>6, <1>7, <1>8

\* An end, its metric row and the lock on the execution go together.
LEMMA StepEnds ==
  ASSUME IndInv, NEW p \in Sessions, Step(p)
  PROVE  EndIsLocked'
<1> USE RowsAreRows, RowAssumption DEF IndInv, TypeInv, EndIsLocked
<1>k. \/ Thinks(p) \/ WritesRow(p) \/ StartsRun(p) \/ Moves(p)
      \/ Ends(p) \/ Records(p) \/ Commit(p) \/ Abort(p)
  BY StepKinds
<1>t. pc' \in [Sessions -> PCs] /\ goal' \in [Sessions -> Values \cup {"none"}]
  BY StepLocals DEF LocalTypes
<1>g. \A q \in Sessions :
        /\ pc'[q] = "move" => goal'[q] \notin TerminalWorkflow
        /\ pc'[q] = "end" => goal'[q] \in TerminalWorkflow
        /\ pc'[q] = "record" => goal'[q] \in TerminalWorkflow
  <2>1. CASE Others(p) /\ pc'[p] \notin {"move", "end", "record"}
    BY <2>1 DEF Others
  <2>2. CASE GoesOn(p)
    BY <2>2 DEF Others, GoesOn
  <2>3. CASE Ends(p)
    BY <2>3 DEF Ends, Others
  <2>4. CASE Close(p)
    BY <2>4 DEF Close
  <2> QED BY <1>k, <2>1, <2>2, <2>3, <2>4
          DEF Thinks, WritesRow, StartsRun, Moves, Records, Commit, Abort
<1> DEFINE Rest == Recording' /\ Recorded' /\ Ending' /\ EndedOnce'
<1>n. ASSUME /\ working'[Execution] = working[Execution] /\ owner'[Execution] = owner[Execution]
             /\ working'[Metric] = working[Metric] /\ owner'[Metric] = owner[Metric]
             /\ committed' = committed
             /\ Others(p) /\ pc[p] \notin {"record", "commit"} /\ pc'[p] # "record"
      PROVE  Rest
  <2>1. Recording' BY <1>n DEF Recording, Others
  <2>2. Recorded' BY <1>n DEF Recorded, Others
  <2>3. Ending'
    <3>1. SUFFICES ASSUME owner[Execution] # NoSession, working[Execution] \in TerminalWorkflow
                   PROVE  pc'[owner[Execution]] = "record" \/ owner[Metric] = owner[Execution]
      BY <1>n DEF Ending
    <3>2. CASE owner[Execution] = p
      BY <1>n, <3>1, <3>2 DEF Ending
    <3>3. CASE owner[Execution] # p
      BY <1>n, <3>1, <3>3 DEF Ending, Others
    <3> QED BY <3>2, <3>3
  <2>4. EndedOnce' BY <1>n DEF EndedOnce
  <2> QED BY <2>1, <2>2, <2>3, <2>4
<1>1. ASSUME Thinks(p) PROVE Rest
  BY <1>1, <1>n DEF Thinks, rows, GoesOn
<1>2. ASSUME WritesRow(p) PROVE Rest
  <2>1. PICK r \in Stages \cup Approvals, v \in Values : Write(p, r, v)
    BY <1>2 DEF WritesRow
  <2>2. \A x \in {Execution, Metric} : working'[x] = working[x] /\ owner'[x] = owner[x]
    BY <2>1 DEF Write
  <2> QED BY <1>2, <1>n, <2>1, <2>2 DEF WritesRow, GoesOn, Write
<1>3. ASSUME StartsRun(p) PROVE Rest
  <2>1. PICK s \in Stages : Write(p, s, "running")
    BY <1>3 DEF StartsRun
  <2>2. \A x \in {Execution, Metric} : working'[x] = working[x] /\ owner'[x] = owner[x]
    BY <2>1 DEF Write
  <2> QED BY <1>3, <1>n, <2>1, <2>2 DEF StartsRun, Write
<1>4. ASSUME Moves(p) PROVE Rest
  <2>1. PICK v \in Values \ TerminalWorkflow : Write(p, Execution, v)
    BY <1>4 DEF Moves
  <2>2. owner[Execution] \in {NoSession, p} /\ pc[p] = "move"
    BY <1>4, <2>1 DEF Moves, Write
  <2>3. owner[Metric] = NoSession
    BY <2>2 DEF Recorded
  <2>4. \A q \in Sessions : pc[q] # "record" /\ pc'[q] # "record"
    BY <1>4, <2>2 DEF Recording, Moves, GoesOn, Others
  <2>5. committed' = committed /\ owner'[Metric] = NoSession /\ working'[Execution] = v
    BY <2>1, <2>3 DEF Write
  <2> QED BY <2>4, <2>5 DEF Recording, Recorded, Ending, EndedOnce
<1>5. ASSUME Ends(p) PROVE Rest
  <2>1. PICK v \in TerminalWorkflow : Write(p, Execution, v) /\ goal'[p] = v
    BY <1>5 DEF Ends
  <2>2. /\ owner[Execution] \in {NoSession, p} /\ pc[p] = "end" /\ pc'[p] = "record"
        /\ Others(p)
    BY <1>5, <2>1 DEF Ends, Write
  <2>3. owner[Metric] = NoSession
    BY <2>2 DEF Recorded
  <2>4. \A q \in Sessions \ {p} : pc'[q] # "record"
    BY <2>2 DEF Recording, Others
  <2>5. /\ committed' = committed /\ owner'[Metric] = NoSession
        /\ working'[Execution] = v /\ owner'[Execution] = p
    BY <2>1, <2>3 DEF Write
  <2>6. Recording' BY <2>1, <2>4, <2>5 DEF Recording
  <2>7. Recorded' /\ Ending' /\ EndedOnce' BY <2>2, <2>5 DEF Recorded, Ending, EndedOnce
  <2> QED BY <2>6, <2>7
<1>6. ASSUME Records(p) PROVE Rest
  <2>1. pc[p] = "record" /\ pc'[p] = "commit" /\ Others(p) /\ committed[Metric] = "absent"
    BY <1>6 DEF Records
  <2>2. owner[Execution] = p /\ working[Execution] = goal[p]
    BY <2>1 DEF Recording
  <2>3. /\ committed' = committed
        /\ owner'[Metric] = p /\ working'[Metric] = goal[p]
        /\ owner'[Execution] = p /\ working'[Execution] = goal[p]
    BY <1>6, <2>2 DEF Records, Write
  <2>4. Recording' BY <2>1, <2>2, <2>3 DEF Recording, Others
  <2>5. Recorded' BY <2>1, <2>3 DEF Recorded
  <2>6. Ending' BY <2>3 DEF Ending
  <2>7. EndedOnce' BY <2>3 DEF EndedOnce
  <2> QED BY <2>4, <2>5, <2>6, <2>7
<1>7. ASSUME Commit(p) PROVE Rest
  <2>1. pc[p] = "commit" /\ Close(p) /\ working' = working
    BY <1>7 DEF Commit
  <2>2. /\ pc' = [pc EXCEPT ![p] = "idle"]
        /\ goal' = [goal EXCEPT ![p] = "none"]
        /\ \A x \in Rows : owner'[x] = IF owner[x] = p THEN NoSession ELSE owner[x]
        /\ \A x \in Rows : committed'[x] = IF owner[x] = p THEN working[x] ELSE committed[x]
    BY <1>7, <2>1 DEF Commit, Close
  <2>3. Recording' BY <2>1, <2>2 DEF Recording
  <2>4. Recorded' BY <2>1, <2>2 DEF Recorded
  <2>5. Ending' BY <2>1, <2>2 DEF Ending
  <2>6. EndedOnce' BY <2>1, <2>2 DEF Recorded, Ending, EndedOnce
  <2> QED BY <2>3, <2>4, <2>5, <2>6
<1>8. ASSUME Abort(p) PROVE Rest
  <2>1. /\ pc' = [pc EXCEPT ![p] = "idle"]
        /\ goal' = [goal EXCEPT ![p] = "none"]
        /\ \A x \in Rows : owner'[x] = IF owner[x] = p THEN NoSession ELSE owner[x]
        /\ \A x \in Rows : working'[x] = IF owner[x] = p THEN committed[x] ELSE working[x]
        /\ committed' = committed
    BY <1>8 DEF Abort, Close
  <2>2. Recording' BY <2>1 DEF Recording
  <2>3. Recorded' BY <2>1 DEF Recorded
  <2>4. Ending' BY <2>1 DEF Ending
  <2>5. EndedOnce' BY <2>1 DEF EndedOnce
  <2> QED BY <2>2, <2>3, <2>4, <2>5
<1> QED BY <1>k, <1>g, <1>1, <1>2, <1>3, <1>4, <1>5, <1>6, <1>7, <1>8

-----------------------------------------------------------------------------
(* The theorems.                                                           *)

\* The initial rows are unlocked and no session is open.
LEMMA InitInv == Init => IndInv
<1> SUFFICES ASSUME Init PROVE IndInv
  OBVIOUS
<1> USE RowsAreRows, RowAssumption DEF Init
<1>1. "pending" \in Values /\ "absent" \in Values /\ "pending" \notin TerminalWorkflow
  BY DEF Values, WorkflowStatuses, TerminalWorkflow
<1>2. TypeInv
  BY <1>1 DEF TypeInv, PCs, Ops, Blank, InitialValue
<1>3. Subject /\ OwnedOnly
  BY DEF Subject, OwnedOnly
<1>4. RunIsLocked
  BY DEF RunIsLocked, NeverStranded, InitialValue
<1>5. EndIsLocked
  BY <1>1 DEF EndIsLocked, Recording, Recorded, Ending, EndedOnce, InitialValue
<1> QED BY <1>2, <1>3, <1>4, <1>5 DEF IndInv

\* Every step of every session preserves the inductive invariant.
LEMMA StepInv == IndInv /\ [Next]_vars => IndInv'
<1> SUFFICES ASSUME IndInv, [Next]_vars PROVE IndInv'
  OBVIOUS
<1>1. ASSUME NEW p \in Sessions, Step(p) PROVE IndInv'
  <2>1. TypeInv' /\ Subject'
    BY <1>1, EntryType, StepRowTypes, StepLocals DEF IndInv, TypeInv, LocalTypes
  <2> QED BY <1>1, <2>1, StepOwned, StepRuns, StepEnds DEF IndInv
<1>2. CASE UNCHANGED vars
  BY <1>2 DEF vars, rows, locals, IndInv, TypeInv, Subject, OwnedOnly, RunIsLocked,
     NeverStranded, EndIsLocked, Recording, Recorded, Ending, EndedOnce
<1> QED BY <1>1, <1>2 DEF Next

\* The inductive invariant holds in every behaviour.
THEOREM Inductive == Spec => []IndInv
<1> QED BY InitInv, StepInv, PTL DEF Spec

\* Rows, locks and every session's variables keep their types.
THEOREM SessionsTypes == Spec => []SessionsTypeOK
<1>1. IndInv => SessionsTypeOK
  BY DEF IndInv, TypeInv, OwnedOnly, SessionsTypeOK, PCs
<1> QED BY <1>1, Inductive, PTL

\* No stage is ever in two runs, for any number of sessions.
THEOREM NoOverlap == Spec => []RunsDoNotOverlap
<1>1. IndInv => RunsDoNotOverlap
  BY DEF IndInv, RunIsLocked, RunsDoNotOverlap
<1> QED BY <1>1, Inductive, PTL

\* No stage is ever left RUNNING in a committed row.
THEOREM NothingStranded == Spec => []NeverStranded
<1>1. IndInv => NeverStranded
  BY DEF IndInv, RunIsLocked
<1> QED BY <1>1, Inductive, PTL

\* An execution ends in one way, for any number of overlapping sessions.
THEOREM EndsOnce == Spec => OneEnd
<1>1. ASSUME IndInv, IndInv', [Next]_vars, committed[Metric] # "absent"
      PROVE  /\ committed'[Metric] = committed[Metric]
             /\ committed'[Execution] \in TerminalWorkflow =>
                  committed'[Execution] = committed[Metric]
  <2>1. committed'[Metric] = committed[Metric]
    <3>1. ASSUME NEW p \in Sessions, Step(p) PROVE committed'[Metric] = committed[Metric]
      <4>1. \/ Thinks(p) \/ WritesRow(p) \/ StartsRun(p) \/ Moves(p)
            \/ Ends(p) \/ Records(p) \/ Commit(p) \/ Abort(p)
        BY <1>1, <3>1, StepKinds DEF IndInv
      <4>2. CASE Commit(p)
        <5>1. owner[Metric] # p
          BY <1>1, RowAssumption DEF IndInv, EndIsLocked, Recorded
        <5> QED BY <4>2, <5>1, RowsAreRows DEF Commit
      <4> QED BY <4>1, <4>2 DEF Thinks, rows, WritesRow, StartsRun, Moves, Ends, Records,
              Write, Abort
    <3>2. CASE UNCHANGED vars
      BY <3>2 DEF vars, rows
    <3> QED BY <1>1, <3>1, <3>2 DEF Next
  <2> QED BY <1>1, <2>1 DEF IndInv, EndIsLocked, EndedOnce
<1>2. IndInv /\ IndInv' /\ [Next]_vars =>
        [committed[Metric] # "absent" =>
           /\ committed'[Metric] = committed[Metric]
           /\ committed'[Execution] \in TerminalWorkflow =>
                committed'[Execution] = committed[Metric]]_vars
  BY <1>1
<1> QED BY <1>2, Inductive, PTL DEF Spec, OneEnd

-----------------------------------------------------------------------------
(* A decision before every run of a gated stage.                           *)

\* The statuses of a stage that was run.
WasRun == {"running", "retrying", "completed"}

\* A decision about stage s is committed, or is session p's own and commits
\* or is rolled back with whatever else p writes.
Backed(p, s) == \E a \in Approvals :
  /\ AboutStage[a] = s
  /\ \/ committed[a] = "decided"
     \/ owner[a] = p /\ working[a] = "decided"

DecidedStays == \A a \in Approvals : committed[a] = "decided" => working[a] = "decided"

\* A decision backs every stage that was run, where it is committed, where
\* it is written and wherever it has been read.
RowsBacked == \A s \in RequiresApproval :
  /\ committed[s] \in WasRun =>
       \E a \in Approvals : AboutStage[a] = s /\ committed[a] = "decided"
  /\ owner[s] # NoSession /\ working[s] \in WasRun => Backed(owner[s], s)

ReadBacked == \A p \in Sessions, s \in RequiresApproval :
  seen[p][s] \in WasRun => Backed(p, s)

\* The session of an APPROVE has decided before it reads the stages, and is
\* the only one that runs a stage it has seen waiting.
ResumingAt(p) ==
  /\ pc[p] = "read" /\ op[p] = "approve" =>
       owner[current[p]] = p /\ working[current[p]] = "decided"
  /\ pc[p] \in {"move", "tick", "run"} /\ op[p] = "approve" => \A s \in todo[p] : Backed(p, s)
  /\ pc[p] \in {"tick", "run"} /\ op[p] # "approve" =>
       \A s \in todo[p] : seen[p][s] # "waiting_approval"

Resuming == \A p \in Sessions : ResumingAt(p)

DecisionInv == DecidedStays /\ RowsBacked /\ ReadBacked /\ Resuming

\* The first is what the runs check.
LEMMA DecisionInvImplies ==
  ASSUME IndInv, DecisionInv
  PROVE  DecidedBeforeRun
<1> SUFFICES ASSUME NEW s \in RequiresApproval, working[s] \in WasRun
             PROVE  \E a \in Approvals : AboutStage[a] = s /\ working[a] = "decided"
  BY DEF DecidedBeforeRun, WasRun
<1>1. s \in Rows
  BY RowAssumption, RowsAreRows
<1>2. CASE owner[s] = NoSession
  BY <1>1, <1>2 DEF IndInv, OwnedOnly, DecisionInv, RowsBacked, DecidedStays
<1>3. CASE owner[s] # NoSession
  BY <1>3 DEF DecisionInv, RowsBacked, Backed, DecidedStays
<1> QED BY <1>2, <1>3

\* What a step writes: nothing, a row that takes no decision back and runs no
\* stage without one, or the end of its transaction.
BackedWrite(p, r, v) ==
  /\ Write(p, r, v)
  /\ r \in Approvals => v = "decided" \/ working[r] = "absent"
  /\ r \in RequiresApproval /\ v \in WasRun => Backed(p, r)

Looks(p) == OpenAny(p) \/ Read(p) \/ EndTick(p) \/ CancelExecution(p)

BackedKind(p) ==
  \/ Looks(p) /\ UNCHANGED rows
  \/ \E r \in Rows, v \in Values : BackedWrite(p, r, v)
  \/ Commit(p) \/ Abort(p)

LEMMA StepBacked ==
  ASSUME IndInv, DecisionInv, NEW p \in Sessions, Step(p)
  PROVE  BackedKind(p)
<1> USE RowsAreRows, RowAssumption
<1>v. {"open", "decided", "waiting_approval", "cancelled", "failed", "skipped", "running",
       "completed", "retrying"} \subseteq Values
  BY DEF Values, StageStatuses
<1>g. pc[p] \in {"move", "end", "record"} => goal[p] \in Values \cup {"none"}
  BY DEF IndInv, TypeInv
<1>1. ASSUME Looks(p) PROVE UNCHANGED rows
  BY <1>1 DEF Looks, OpenAny, OpenRequest, OpenAdvance, OpenWork, OpenPause, OpenResume, OpenCancel, OpenSkip,
     OpenDecision, Open, Read, EndTick, CancelExecution
<1>2. ASSUME Decide(p) PROVE BackedKind(p)
  <2>1. current[p] \in Approvals /\ Write(p, current[p], "decided")
    BY <1>2 DEF Decide, IndInv, Subject
  <2>2. BackedWrite(p, current[p], "decided")
    BY <2>1 DEF BackedWrite, WasRun
  <2> QED BY <2>1, <2>2, <1>v DEF BackedKind
<1>3. ASSUME Move(p) \/ End(p) PROVE BackedKind(p)
  <2>1. Write(p, Execution, goal[p]) /\ goal[p] \in Values
    BY <1>3 DEF Move, End, CanMoveWorkflow, Values, WorkflowStatuses
  <2>2. BackedWrite(p, Execution, goal[p])
    BY <2>1 DEF BackedWrite
  <2> QED BY <2>1, <2>2 DEF BackedKind
<1>4. ASSUME Record(p) PROVE BackedKind(p)
  <2>1. Write(p, Metric, goal[p]) /\ goal[p] \in Values
    BY <1>4 DEF Record, IndInv, EndIsLocked
  <2>2. BackedWrite(p, Metric, goal[p])
    BY <2>1 DEF BackedWrite
  <2> QED BY <2>1, <2>2 DEF BackedKind
<1>5. ASSUME NEW s \in Stages, RequestApproval(p, s) PROVE BackedKind(p)
  <2>1. PICK a \in Approvals : working[a] = "absent" /\ Write(p, a, "open")
    BY <1>5 DEF RequestApproval
  <2>2. BackedWrite(p, a, "open")
    BY <2>1 DEF BackedWrite, WasRun
  <2> QED BY <2>1, <2>2, <1>v DEF BackedKind
<1>6. ASSUME NEW s \in Stages, StartRun(p, s) PROVE BackedKind(p)
  <2>1. Write(p, s, "running") /\ pc[p] = "tick" /\ s \in todo[p]
    BY <1>6 DEF StartRun, MayTake
  <2>2. ASSUME s \in RequiresApproval PROVE Backed(p, s)
    <3>1. seen[p][s] \in {"waiting_approval", "retrying"}
      BY <1>6, <2>2 DEF StartRun, AtGate, CanMoveStage
    <3>2. CASE seen[p][s] = "retrying"
      BY <2>2, <3>2 DEF DecisionInv, ReadBacked, WasRun
    <3>3. CASE seen[p][s] = "waiting_approval"
      BY <2>1, <3>3 DEF DecisionInv, Resuming, ResumingAt
    <3> QED BY <3>1, <3>2, <3>3
  <2>3. BackedWrite(p, s, "running")
    BY <2>1, <2>2 DEF BackedWrite
  <2> QED BY <2>3, <1>v DEF BackedKind
<1>7. ASSUME NEW s \in Stages, NEW v \in {"cancelled", "failed", "skipped", "waiting_approval"},
             Write(p, s, v)
      PROVE  BackedKind(p)
  <2>1. BackedWrite(p, s, v)
    BY <1>7 DEF BackedWrite, WasRun
  <2> QED BY <2>1, <1>v DEF BackedKind
<1>8. ASSUME NEW s \in Stages, CancelStage(p, s) \/ RejectStage(p, s) PROVE BackedKind(p)
  BY <1>7, <1>8 DEF CancelStage, RejectStage
<1>9. ASSUME AwaitApproval(p) \/ SkipStage(p) PROVE BackedKind(p)
  <2>1. current[p] \in Stages
    BY <1>9 DEF AwaitApproval, SkipStage, IndInv, Subject
  <2> QED BY <1>7, <1>9, <2>1 DEF AwaitApproval, SkipStage
<1>10. ASSUME NEW result \in {"completed", "retrying", "failed"}, FinishRun(p, result)
       PROVE  BackedKind(p)
  <2>1. current[p] \in Stages /\ Write(p, current[p], result) /\ pc[p] = "run"
    BY <1>10 DEF FinishRun, IndInv, Subject
  <2>2. owner[current[p]] = p /\ working[current[p]] = "running" /\ p # NoSession
    BY <2>1 DEF IndInv, RunIsLocked
  <2>3. current[p] \in RequiresApproval => Backed(p, current[p])
    BY <2>2 DEF DecisionInv, RowsBacked, WasRun
  <2>4. BackedWrite(p, current[p], result)
    BY <2>1, <2>3 DEF BackedWrite
  <2> QED BY <2>1, <2>4, <1>v DEF BackedKind
<1> QED
  BY <1>1, <1>2, <1>3, <1>4, <1>5, <1>6, <1>8, <1>9, <1>10
     DEF Step, Proceed, OpenAny, OnStage, BackedKind, Looks

\* Decisions and the statuses they back commit and roll back together, so
\* each session keeps the backing it has until its transaction ends.
LEMMA RowsBackedStep ==
  ASSUME IndInv, DecisionInv, NEW p \in Sessions, Step(p)
  PROVE  /\ DecidedStays' /\ RowsBacked'
         /\ \A q \in Sessions, s \in Stages :
              Backed(q, s) /\ (q # p \/ pc'[p] # "idle") => Backed(q, s)'
<1> USE RowsAreRows, RowAssumption
<1> DEFINE Keeps == \A q \in Sessions, s \in Stages :
             Backed(q, s) /\ (q # p \/ pc'[p] # "idle") => Backed(q, s)'
           Committed == \A s \in RequiresApproval : committed'[s] \in WasRun =>
             \E a \in Approvals : AboutStage[a] = s /\ committed'[a] = "decided"
           Written == \A s \in RequiresApproval, q \in Sessions :
             owner'[s] = q /\ working'[s] \in WasRun => Backed(q, s)'
<1>0. /\ DecidedStays /\ RowsBacked
      /\ owner \in [Rows -> Sessions \cup {NoSession}] /\ pc \in [Sessions -> PCs]
      /\ working \in [Rows -> Values] /\ committed \in [Rows -> Values]
  BY DEF DecisionInv, IndInv, TypeInv
<1>o. owner' \in [Rows -> Sessions \cup {NoSession}]
  BY StepRowTypes DEF IndInv
<1>w. ASSUME Committed, Written PROVE RowsBacked'
  <2>1. ASSUME NEW s \in RequiresApproval, owner'[s] # NoSession, working'[s] \in WasRun
        PROVE  \E a \in Approvals : /\ AboutStage[a] = s
                                    /\ \/ committed'[a] = "decided"
                                       \/ owner'[a] = owner'[s] /\ working'[a] = "decided"
    <3>1. PICK q \in Sessions : q = owner'[s]
      BY <1>o, <2>1
    <3>2. Backed(q, s)'
      BY <1>w, <2>1, <3>1
    <3> QED BY <3>1, <3>2 DEF Backed
  <2> QED BY <1>w, <2>1 DEF RowsBacked, Backed
<1>b. \A s \in RequiresApproval, q \in Sessions :
        owner[s] = q /\ working[s] \in WasRun => Backed(q, s)
  BY <1>0 DEF RowsBacked
<1>1. CASE UNCHANGED rows
  BY <1>0, <1>1 DEF rows, DecidedStays, RowsBacked, Backed
<1>2. ASSUME NEW r \in Rows, NEW v \in Values, BackedWrite(p, r, v)
      PROVE  DecidedStays' /\ RowsBacked' /\ Keeps
  <2>1. /\ committed' = committed /\ owner[r] \in {NoSession, p}
        /\ \A x \in Rows : working'[x] = IF x = r THEN v ELSE working[x]
        /\ \A x \in Rows : owner'[x] = IF x = r THEN p ELSE owner[x]
    BY <1>0, <1>2 DEF BackedWrite, Write
  <2>2. \A a \in Approvals : working[a] = "decided" => working'[a] = "decided"
    BY <1>2, <2>1 DEF BackedWrite
  <2>3. DecidedStays'
    BY <1>0, <2>1, <2>2 DEF DecidedStays
  <2>4. \A q \in Sessions, s \in Stages : Backed(q, s) => Backed(q, s)'
    BY <2>1, <2>2 DEF Backed
  <2>5. Written
    <3>1. ASSUME NEW s \in RequiresApproval, NEW q \in Sessions, owner'[s] = q,
                 working'[s] \in WasRun
          PROVE  Backed(q, s)
      <4>1. CASE s = r
        BY <1>2, <2>1, <3>1, <4>1 DEF BackedWrite
      <4>2. CASE s # r
        BY <1>b, <2>1, <3>1, <4>2
      <4> QED BY <4>1, <4>2
    <3> QED BY <2>4, <3>1
  <2>6. Committed
    BY <1>0, <2>1 DEF RowsBacked
  <2> QED BY <1>w, <2>3, <2>4, <2>5, <2>6
<1>3. CASE Commit(p)
  <2>1. /\ working' = working
        /\ \A x \in Rows : owner'[x] = IF owner[x] = p THEN NoSession ELSE owner[x]
        /\ \A x \in Rows : committed'[x] = IF owner[x] = p THEN working[x] ELSE committed[x]
        /\ pc'[p] = "idle"
    BY <1>0, <1>3 DEF Commit, Close
  <2>2. DecidedStays'
    BY <1>0, <2>1 DEF DecidedStays
  <2>3. \A a \in Approvals : committed[a] = "decided" => committed'[a] = "decided"
    BY <1>0, <2>1 DEF DecidedStays
  <2>4. \A q \in Sessions \ {p}, s \in Stages : Backed(q, s) => Backed(q, s)'
    BY <2>1, <2>3 DEF Backed
  <2>5. Committed
    <3> SUFFICES ASSUME NEW s \in RequiresApproval, committed'[s] \in WasRun
                 PROVE  \E a \in Approvals : AboutStage[a] = s /\ committed'[a] = "decided"
      OBVIOUS
    <3>1. CASE owner[s] = p
      <4>1. PICK a \in Approvals : /\ AboutStage[a] = s
                                   /\ \/ committed[a] = "decided"
                                      \/ owner[a] = p /\ working[a] = "decided"
        BY <1>b, <2>1, <3>1 DEF Backed
      <4> QED BY <2>1, <2>3, <4>1
    <3>2. CASE owner[s] # p
      BY <1>0, <2>1, <2>3, <3>2 DEF RowsBacked
    <3> QED BY <3>1, <3>2
  <2>6. Written
    BY <1>b, <2>1, <2>4
  <2> QED BY <1>w, <2>1, <2>2, <2>4, <2>5, <2>6
<1>4. CASE Abort(p)
  <2>1. /\ committed' = committed
        /\ \A x \in Rows : owner'[x] = IF owner[x] = p THEN NoSession ELSE owner[x]
        /\ \A x \in Rows : working'[x] = IF owner[x] = p THEN committed[x] ELSE working[x]
        /\ pc'[p] = "idle"
    BY <1>0, <1>4 DEF Abort, Close
  <2>2. DecidedStays'
    BY <1>0, <2>1 DEF DecidedStays
  <2>3. \A q \in Sessions \ {p}, s \in Stages : Backed(q, s) => Backed(q, s)'
    BY <2>1 DEF Backed
  <2>4. Committed
    BY <1>0, <2>1 DEF RowsBacked
  <2>5. Written
    BY <1>b, <2>1, <2>3
  <2> QED BY <1>w, <2>1, <2>2, <2>3, <2>4, <2>5
<1> QED BY <1>1, <1>2, <1>3, <1>4, StepBacked DEF BackedKind

\* What a session has read is what is committed or what it wrote itself; only
\* reading, writing and the end of its transaction change its identity map.
LEMMA ReadBackedStep ==
  ASSUME IndInv, DecisionInv, NEW p \in Sessions, Step(p)
  PROVE  ReadBacked'
<1> USE RowsAreRows, RowAssumption
<1>0. /\ seen \in [Sessions -> [Rows -> Values]] /\ seen' \in [Sessions -> [Rows -> Values]]
      /\ owner \in [Rows -> Sessions \cup {NoSession}]
  BY StepLocals DEF IndInv, TypeInv, LocalTypes
<1>1. \A q \in Sessions, s \in RequiresApproval :
        Backed(q, s) /\ (q # p \/ pc'[p] # "idle") => Backed(q, s)'
  BY RowsBackedStep
<1>2. \A q \in Sessions, s \in RequiresApproval : seen[q][s] \in WasRun => Backed(q, s)
  BY DEF DecisionInv, ReadBacked
<1> DEFINE Quiet == pc'[p] # "idle" /\ \A q \in Sessions \ {p} : seen'[q] = seen[q]
           Sees == \A s \in RequiresApproval :
                     seen'[p][s] \in WasRun => Backed(p, s) \/ Backed(p, s)'
<1>q. ASSUME Quiet, Sees PROVE ReadBacked'
  <2>1. ASSUME NEW q \in Sessions, NEW s \in RequiresApproval, seen'[q][s] \in WasRun
        PROVE  Backed(q, s)'
    BY <1>q, <1>1, <1>2, <2>1
  <2> QED BY <2>1 DEF ReadBacked
<1>w. ASSUME NEW r \in Rows, NEW v \in Values, BackedWrite(p, r, v), pc'[p] # "idle"
      PROVE  ReadBacked'
  <2>1. /\ Quiet
        /\ \A s \in RequiresApproval : seen'[p][s] = IF s = r THEN v ELSE seen[p][s]
    BY <1>0, <1>w DEF BackedWrite, Write
  <2>2. Sees
    BY <1>2, <1>w, <2>1 DEF BackedWrite
  <2> QED BY <1>q, <2>1, <2>2
<1>s. ASSUME UNCHANGED seen, pc'[p] # "idle" PROVE ReadBacked'
  BY <1>2, <1>q, <1>s
<1>3. CASE OpenAny(p)
  <2>1. PICK at \in PCs \ {"idle"} :
          /\ pc' = [pc EXCEPT ![p] = at]
          /\ seen' = [seen EXCEPT ![p][Execution] = committed[Execution]]
    BY <1>3 DEF OpenAny, OpenRequest, OpenAdvance, OpenWork, OpenPause, OpenResume, OpenCancel, OpenSkip,
       OpenDecision, Open, PCs
  <2>2. pc \in [Sessions -> PCs] /\ \A s \in RequiresApproval : s # Execution
    BY DEF IndInv, TypeInv
  <2>3. Quiet /\ \A s \in RequiresApproval : seen'[p][s] = seen[p][s]
    BY <1>0, <2>1, <2>2
  <2> QED BY <1>2, <1>q, <2>3
<1>4. CASE Read(p)
  <2>1. /\ \A q \in Sessions \ {p} : seen'[q] = seen[q]
        /\ \A s \in RequiresApproval : seen'[p][s] = Visible(p, s)
    BY <1>0, <1>4 DEF Read
  <2>2. pc'[p] # "idle"
    BY <1>4 DEF Read, IndInv, TypeInv
  <2>3. Sees
    <3> SUFFICES ASSUME NEW s \in RequiresApproval, Visible(p, s) \in WasRun
                 PROVE  Backed(p, s)
      BY <2>1
    <3>1. CASE owner[s] = p
      BY <3>1 DEF Visible, DecisionInv, RowsBacked
    <3>2. CASE owner[s] # p
      BY <3>2 DEF Visible, DecisionInv, RowsBacked, Backed
    <3> QED BY <3>1, <3>2
  <2> QED BY <1>q, <2>1, <2>2, <2>3
<1>5. CASE EndTick(p) \/ CancelExecution(p)
  <2>1. UNCHANGED seen /\ pc'[p] # "idle"
    BY <1>5 DEF EndTick, CancelExecution, IndInv, TypeInv
  <2> QED BY <1>s, <2>1
<1>6. CASE Commit(p) \/ Abort(p)
  <2>1. \A q \in Sessions : seen'[q] = IF q = p THEN Blank ELSE seen[q]
    BY <1>0, <1>6 DEF Commit, Abort, Close
  <2>2. \A s \in RequiresApproval : Blank[s] \notin WasRun
    BY DEF Blank, WasRun
  <2>3. ASSUME NEW q \in Sessions, NEW s \in RequiresApproval, seen'[q][s] \in WasRun
        PROVE  Backed(q, s)'
    BY <1>1, <1>2, <2>1, <2>2, <2>3
  <2> QED BY <2>3 DEF ReadBacked
<1>7. CASE ~Looks(p) /\ ~Commit(p) /\ ~Abort(p)
  <2>1. pc'[p] # "idle"
    <3>1. Thinks(p) \/ WritesRow(p) \/ StartsRun(p) \/ Moves(p) \/ Ends(p) \/ Records(p)
      BY <1>7, StepKinds DEF IndInv
    <3> QED BY <3>1 DEF Thinks, WritesRow, StartsRun, Moves, Ends, Records, GoesOn
  <2>2. \E r \in Rows, v \in Values : BackedWrite(p, r, v)
    BY <1>7, StepBacked DEF BackedKind
  <2> QED BY <1>w, <2>1, <2>2
<1> QED BY <1>3, <1>4, <1>5, <1>6, <1>7 DEF Looks

\* A step of one session leaves the others where they are, with their rows.
LEMMA StepFrame ==
  ASSUME IndInv, DecisionInv, NEW p \in Sessions, Step(p), NEW q \in Sessions \ {p}
  PROVE  /\ pc'[q] = pc[q] /\ op'[q] = op[q] /\ seen'[q] = seen[q]
         /\ todo'[q] = todo[q] /\ current'[q] = current[q]
         /\ \A r \in Rows : owner[r] = q => owner'[r] = q /\ working'[r] = working[r]
<1>0. /\ pc \in [Sessions -> PCs] /\ op \in [Sessions -> Ops]
      /\ seen \in [Sessions -> [Rows -> Values]] /\ todo \in [Sessions -> SUBSET Stages]
      /\ current \in [Sessions -> Stages \cup Approvals \cup {Nothing}]
      /\ owner \in [Rows -> Sessions \cup {NoSession}] /\ working \in [Rows -> Values]
  BY DEF IndInv, TypeInv
<1> DEFINE Own == /\ pc'[q] = pc[q] /\ op'[q] = op[q] /\ seen'[q] = seen[q]
                  /\ todo'[q] = todo[q] /\ current'[q] = current[q]
<1>1. CASE Looks(p)
  BY <1>0, <1>1 DEF Looks, OpenAny, OpenRequest, OpenAdvance, OpenWork, OpenPause, OpenResume, OpenCancel,
     OpenSkip, OpenDecision, Open, Read, EndTick, CancelExecution, rows
<1>2. CASE Commit(p) \/ Abort(p)
  BY <1>0, <1>2, RowAssumption DEF Commit, Abort, Close
<1>3. ASSUME Decide(p) \/ Move(p) \/ End(p) \/ Record(p) \/ AwaitApproval(p) \/ SkipStage(p)
      PROVE  Own
  BY <1>0, <1>3 DEF Decide, Move, End, Record, AwaitApproval, SkipStage, Write
<1>4. ASSUME NEW s \in Stages, OnStage(p, s) PROVE Own
  BY <1>0, <1>4 DEF OnStage, RequestApproval, StartRun, CancelStage, RejectStage, Write
<1>5. ASSUME NEW result \in {"completed", "retrying", "failed"}, FinishRun(p, result) PROVE Own
  BY <1>0, <1>5 DEF FinishRun, Write
<1>6. CASE ~Looks(p) /\ ~Commit(p) /\ ~Abort(p)
  <2>1. Own
    BY <1>3, <1>4, <1>5, <1>6 DEF Step, Proceed, OpenAny, Looks
  <2>2. PICK r \in Rows, v \in Values : Write(p, r, v)
    BY <1>6, StepBacked DEF BackedKind, BackedWrite
  <2>3. \A x \in Rows : owner[x] = q => owner'[x] = q /\ working'[x] = working[x]
    BY <1>0, <2>2, RowAssumption DEF Write
  <2> QED BY <2>1, <2>3
<1> QED BY <1>1, <1>2, <1>6

\* The session of an approval has decided when it reads and runs what it
\* decided about; every other tick chose stages that were not waiting.
LEMMA ResumingStep ==
  ASSUME IndInv, DecisionInv, NEW p \in Sessions, Step(p)
  PROVE  Resuming'
<1> USE RowsAreRows, RowAssumption
<1>0. /\ pc \in [Sessions -> PCs] /\ op \in [Sessions -> Ops]
      /\ seen \in [Sessions -> [Rows -> Values]] /\ todo \in [Sessions -> SUBSET Stages]
      /\ todo' \in [Sessions -> SUBSET Stages]
      /\ current \in [Sessions -> Stages \cup Approvals \cup {Nothing}]
      /\ owner \in [Rows -> Sessions \cup {NoSession}] /\ working \in [Rows -> Values]
      /\ Subject
  BY StepLocals DEF IndInv, TypeInv, LocalTypes
<1>1. \A q \in Sessions, s \in Stages :
        Backed(q, s) /\ (q # p \/ pc'[p] # "idle") => Backed(q, s)'
  BY RowsBackedStep
<1>2. \A q \in Sessions : ResumingAt(q)
  BY DEF DecisionInv, Resuming
<1>o. ASSUME NEW q \in Sessions \ {p} PROVE ResumingAt(q)'
  <2>1. /\ pc'[q] = pc[q] /\ op'[q] = op[q] /\ seen'[q] = seen[q]
        /\ todo'[q] = todo[q] /\ current'[q] = current[q]
        /\ \A r \in Rows : owner[r] = q => owner'[r] = q /\ working'[r] = working[r]
    BY StepFrame
  <2>2. pc[q] = "read" /\ op[q] = "approve" => current[q] \in Rows
    BY <1>0 DEF Subject
  <2> QED BY <1>0, <1>1, <1>2, <2>1, <2>2 DEF ResumingAt
<1>q. ASSUME ResumingAt(p)' PROVE Resuming'
  BY <1>o, <1>q DEF Resuming
<1>e. ASSUME pc'[p] \notin {"read", "move", "tick", "run"} PROVE Resuming'
  BY <1>q, <1>e DEF ResumingAt
<1>3. CASE OpenAny(p)
  <2>1. \/ pc'[p] \in {"read", "move"} /\ op'[p] # "approve"
        \/ pc'[p] \in {"decide", "commit"}
    BY <1>0, <1>3 DEF OpenAny, OpenRequest, OpenAdvance, OpenWork, OpenPause, OpenResume, OpenCancel, OpenSkip,
       OpenDecision, Open
  <2> QED BY <1>e, <1>q, <2>1 DEF ResumingAt
<1>4. CASE Decide(p)
  <2>1. current[p] \in Rows /\ pc'[p] = "read" /\ current'[p] = current[p]
    BY <1>0, <1>4 DEF Decide, Subject
  <2>2. owner'[current[p]] = p /\ working'[current[p]] = "decided"
    BY <1>0, <1>4, <2>1 DEF Decide, Write
  <2> QED BY <1>q, <2>1, <2>2 DEF ResumingAt
<1>5. CASE Read(p)
  <2> DEFINE stage == [s \in Stages |-> Visible(p, s)]
  <2>1. /\ op'[p] = op[p] /\ UNCHANGED rows /\ pc[p] = "read"
        /\ \A s \in Stages : seen'[p][s] = stage[s]
    BY <1>0, <1>5 DEF Read
  <2>2. CASE op[p] \in {"work", "advance"}
    <3>1. PICK due \in SUBSET {s \in Stages : stage[s] = "retrying"} :
            pc'[p] = "tick" /\ todo'[p] = ReadyIn(stage, due)
      BY <1>0, <1>5, <2>2 DEF Read
    <3>2. \A s \in ReadyIn(stage, due) : s \in Stages /\ stage[s] # "waiting_approval"
      BY DEF ReadyIn
    <3>3. \A s \in todo'[p] : seen'[p][s] # "waiting_approval"
      BY <2>1, <3>1, <3>2
    <3> QED BY <1>q, <2>1, <2>2, <3>1, <3>3 DEF ResumingAt
  <2>3. CASE op[p] = "approve"
    <3>1. pc'[p] = "move" /\ todo'[p] = {AboutStage[current[p]]} /\ current[p] \in Approvals
      BY <1>0, <1>5, <2>3 DEF Read, Subject
    <3>2. AboutStage[current[p]] \in Stages /\ Backed(p, AboutStage[current[p]])
      BY <1>2, <2>1, <2>3, <3>1 DEF ResumingAt, Backed
    <3> QED BY <1>1, <1>q, <2>1, <2>3, <3>1, <3>2 DEF ResumingAt
  <2>4. CASE op[p] \in {"cancel", "skip", "reject"}
    <3>1. pc'[p] \in {"cancel", "skip", "reject"}
      BY <1>0, <1>5, <2>4 DEF Read
    <3> QED BY <1>e, <3>1
  <2> QED BY <1>5, <2>2, <2>3, <2>4 DEF Read
<1>6. CASE Move(p)
  <2>1. /\ op'[p] = op[p] /\ todo'[p] = todo[p] /\ pc[p] = "move"
        /\ pc'[p] \in {"read", "tick", "commit"}
        /\ pc'[p] = "read" => op[p] = "work"
        /\ pc'[p] = "tick" => op[p] = "approve"
    BY <1>0, <1>6 DEF Move
  <2>2. \A s \in todo[p] : op[p] = "approve" => Backed(p, s)'
    BY <1>0, <1>1, <1>2, <2>1 DEF ResumingAt
  <2> QED BY <1>q, <2>1, <2>2 DEF ResumingAt
<1>7. ASSUME NEW s \in Stages, StartRun(p, s) PROVE Resuming'
  <2>1. /\ op'[p] = op[p] /\ todo'[p] = todo[p] \ {s} /\ pc[p] = "tick" /\ pc'[p] = "run"
        /\ \A x \in Stages \ {s} : seen'[p][x] = seen[p][x]
    BY <1>0, <1>7 DEF StartRun, MayTake, Write
  <2> QED BY <1>0, <1>1, <1>2, <1>q, <2>1 DEF ResumingAt
<1>8. ASSUME NEW result \in {"completed", "retrying", "failed"}, FinishRun(p, result)
      PROVE  Resuming'
  <2>1. /\ op'[p] = op[p] /\ todo'[p] = todo[p] /\ pc[p] = "run"
        /\ pc'[p] \in {"tick", "end"} /\ current[p] \in Stages
        /\ \A x \in Stages : seen'[p][x] = IF x = current[p] THEN result ELSE seen[p][x]
    BY <1>0, <1>8 DEF FinishRun, Write, Subject
  <2> QED BY <1>0, <1>1, <1>2, <1>q, <2>1 DEF ResumingAt
<1>9. CASE AwaitApproval(p)
  <2>1. op'[p] = "gate" /\ pc'[p] = "move"
    BY <1>0, <1>9 DEF AwaitApproval
  <2> QED BY <1>q, <2>1 DEF ResumingAt
<1>10. ASSUME NEW s \in Stages, RequestApproval(p, s) \/ CancelStage(p, s) \/ RejectStage(p, s)
       PROVE  Resuming'
  BY <1>0, <1>10, <1>e DEF RequestApproval, CancelStage, RejectStage
<1>11. CASE \/ End(p) \/ Record(p) \/ EndTick(p) \/ CancelExecution(p) \/ SkipStage(p)
            \/ Commit(p) \/ Abort(p)
  BY <1>0, <1>11, <1>e DEF End, Record, EndTick, CancelExecution, SkipStage, Commit, Abort, Close
<1> QED BY <1>3, <1>4, <1>5, <1>6, <1>7, <1>8, <1>9, <1>10, <1>11 DEF Step, Proceed, OpenAny, OnStage

\* Nothing is decided, run or read at first, and each step keeps the rest.
LEMMA DecisionInductive ==
  /\ Init => DecisionInv
  /\ IndInv /\ DecisionInv /\ [Next]_vars => DecisionInv'
<1> USE RowsAreRows, RowAssumption
<1>1. ASSUME Init PROVE DecisionInv
  BY <1>1 DEF Init, DecisionInv, DecidedStays, RowsBacked, ReadBacked, Resuming, ResumingAt,
     WasRun, Blank, InitialValue
<1>2. ASSUME IndInv, DecisionInv, NEW p \in Sessions, Step(p) PROVE DecisionInv'
  BY <1>2, RowsBackedStep, ReadBackedStep, ResumingStep DEF DecisionInv
<1>3. ASSUME DecisionInv, UNCHANGED vars PROVE DecisionInv'
  BY <1>3 DEF vars, rows, locals, DecisionInv, DecidedStays, RowsBacked, ReadBacked, Resuming,
     ResumingAt, Backed
<1> QED BY <1>1, <1>2, <1>3 DEF Next

\* No gated stage is run without a decision, however many ticks ask for one
\* and however many people decide.
THEOREM DecisionsComeFirst == Spec => []DecidedBeforeRun
<1>1. Spec => []DecisionInv
  BY Inductive, DecisionInductive, PTL DEF Spec
<1>2. IndInv /\ DecisionInv => DecidedBeforeRun
  BY DecisionInvImplies
<1> QED BY <1>1, <1>2, Inductive, PTL

-----------------------------------------------------------------------------
(* What a worker lets go of.                                               *)

\* A session's copy of the execution is what it wrote, if it wrote it; a
\* worker that has claimed the entry is at work, and has started what it read
\* PENDING when it comes to its commit.
EntryInv ==
  /\ owner[Execution] # NoSession => seen[owner[Execution]][Execution] = working[Execution]
  /\ \A p \in Sessions :
       /\ entry = p => pc[p] # "idle"
       /\ entry = p /\ pc[p] # "move" => seen[p][Execution] # "pending"
       /\ pc[p] = "move" => goal[p] # "pending"

\* What a step does to the stepping session's copy of the execution.
LEMMA CopyStep ==
  ASSUME IndInv, NEW p \in Sessions, Proceed(p), UNCHANGED entry
  PROVE  \/ /\ pc[p] = "idle" /\ seen'[p][Execution] = committed[Execution]
            /\ UNCHANGED rows
         \/ /\ pc[p] \notin {"idle", "move"} /\ seen'[p][Execution] = seen[p][Execution]
            /\ owner'[Execution] = owner[Execution]
            /\ working'[Execution] = working[Execution]
         \/ /\ pc[p] \in {"move", "end"} /\ Write(p, Execution, goal[p])
            /\ goal'[p] = goal[p]
<1> USE RowsAreRows, RowAssumption
<1>0. /\ seen \in [Sessions -> [Rows -> Values]] /\ working \in [Rows -> Values]
      /\ owner \in [Rows -> Sessions \cup {NoSession}]
      /\ current \in [Sessions -> Stages \cup Approvals \cup {Nothing}]
      /\ Subject
  BY DEF IndInv, TypeInv
<1>1. CASE OpenRequest(p)
  BY <1>0, <1>1 DEF OpenRequest, OpenAdvance, OpenPause, OpenResume, OpenCancel, OpenSkip,
     OpenDecision, Open, rows
<1>2. CASE Move(p) \/ End(p)
  BY <1>2 DEF Move, End
<1> DEFINE Keeps == /\ pc[p] \notin {"idle", "move"} /\ seen'[p][Execution] = seen[p][Execution]
                    /\ owner'[Execution] = owner[Execution]
                    /\ working'[Execution] = working[Execution]
<1>w. ASSUME NEW r \in Rows, r # Execution, NEW v, Write(p, r, v), pc[p] \notin {"idle", "move"}
      PROVE  Keeps
  BY <1>0, <1>w DEF Write
<1>3. ASSUME Read(p) \/ EndTick(p) \/ CancelExecution(p) PROVE Keeps
  BY <1>0, <1>3 DEF Read, EndTick, CancelExecution, rows
<1>4. ASSUME Decide(p) PROVE Keeps
  BY <1>0, <1>4, <1>w DEF Decide, Subject
<1>5. ASSUME Record(p) PROVE Keeps
  BY <1>5, <1>w DEF Record
<1>6. ASSUME NEW s \in Stages, OnStage(p, s) PROVE Keeps
  <2>1. \E r \in Stages \cup Approvals, v \in Values \cup {"open"} : Write(p, r, v)
    BY <1>6 DEF OnStage, RequestApproval, StartRun, CancelStage, RejectStage, Values,
       StageStatuses
  <2>2. pc[p] \notin {"idle", "move"}
    BY <1>6 DEF OnStage, RequestApproval, StartRun, CancelStage, RejectStage, MayTake
  <2> QED BY <1>w, <2>1, <2>2
<1>7. ASSUME AwaitApproval(p) \/ SkipStage(p) PROVE Keeps
  BY <1>0, <1>7, <1>w DEF AwaitApproval, SkipStage, Subject
<1>8. ASSUME NEW result \in {"completed", "retrying", "failed"}, FinishRun(p, result)
      PROVE  Keeps
  BY <1>0, <1>8, <1>w DEF FinishRun, Subject
<1> QED
  BY <1>1, <1>2, <1>3, <1>4, <1>5, <1>6, <1>7, <1>8 DEF Proceed

\* Where a step leads to a move of the execution, and that the move to PENDING
\* is nobody's.
LEMMA NextStatement ==
  ASSUME IndInv, EntryInv, NEW p \in Sessions, Proceed(p) \/ OpenWork(p)
  PROVE  /\ pc'[p] # "idle"
         /\ pc'[p] = "move" => goal'[p] # "pending"
<1>0. /\ pc \in [Sessions -> PCs] /\ goal \in [Sessions -> Values \cup {"none"}]
  BY DEF IndInv, TypeInv
<1>1. CASE OpenAny(p)
  BY <1>0, <1>1 DEF OpenAny, OpenRequest, OpenAdvance, OpenWork, OpenPause, OpenResume,
     OpenCancel, OpenSkip, OpenDecision, Open
<1>2. CASE Decide(p) \/ Move(p) \/ End(p) \/ Record(p) \/ AwaitApproval(p) \/ EndTick(p)
           \/ CancelExecution(p) \/ SkipStage(p)
  BY <1>0, <1>2
  DEF Decide, Move, End, Record, AwaitApproval, EndTick, CancelExecution, SkipStage
<1>3. CASE Read(p)
  BY <1>0, <1>3 DEF Read
<1>4. ASSUME NEW s \in Stages, OnStage(p, s)
      PROVE  pc'[p] # "idle" /\ pc'[p] # "move"
  BY <1>0, <1>4 DEF OnStage, RequestApproval, StartRun, CancelStage, RejectStage, MayTake
<1>5. ASSUME NEW result \in {"completed", "retrying", "failed"}, FinishRun(p, result)
      PROVE  pc'[p] # "idle" /\ pc'[p] # "move"
  BY <1>0, <1>5 DEF FinishRun
<1> QED BY <1>1, <1>2, <1>3, <1>4, <1>5 DEF Proceed, OpenAny

\* A step leaves the other sessions what they are about to write.
LEMMA GoalFrame ==
  ASSUME IndInv, NEW p \in Sessions, Step(p), NEW q \in Sessions \ {p}
  PROVE  goal'[q] = goal[q]
<1>1. \/ Thinks(p) \/ WritesRow(p) \/ StartsRun(p) \/ Moves(p)
      \/ Ends(p) \/ Records(p) \/ Commit(p) \/ Abort(p)
  BY StepKinds DEF IndInv
<1>2. goal \in [Sessions -> Values \cup {"none"}]
  BY DEF IndInv, TypeInv
<1> QED
  BY <1>1, <1>2 DEF Thinks, WritesRow, StartsRun, Moves, Ends, Records, GoesOn, Others,
     Commit, Abort, Close

\* A step leaves the locks, takes one, or gives all of its own back.
LEMMA OwnerStep ==
  ASSUME IndInv, NEW p \in Sessions, Step(p)
  PROVE  \/ UNCHANGED owner
         \/ \E r \in Rows, v \in Values : Write(p, r, v)
         \/ Close(p)
<1>1. \/ Thinks(p) \/ WritesRow(p) \/ StartsRun(p) \/ Moves(p)
      \/ Ends(p) \/ Records(p) \/ Commit(p) \/ Abort(p)
  BY StepKinds DEF IndInv
<1>2. goal[p] \in Values \/ ~Records(p)
  BY RowsAreRows DEF IndInv, EndIsLocked, Records
<1> QED
  BY <1>1, <1>2, RowsAreRows DEF Thinks, rows, WritesRow, StartsRun, StageStatuses, Moves,
     Ends, Records, Commit, Abort

\* Every step keeps what EntryInv says of the session that takes it.
LEMMA EntryOfStepper ==
  ASSUME IndInv, EntryInv, NEW p \in Sessions, Step(p)
  PROVE  /\ owner'[Execution] = p => seen'[p][Execution] = working'[Execution]
         /\ entry' = p => pc'[p] # "idle"
         /\ entry' = p /\ pc'[p] # "move" => seen'[p][Execution] # "pending"
         /\ pc'[p] = "move" => goal'[p] # "pending"
<1> USE RowsAreRows, RowAssumption
<1>0. /\ pc \in [Sessions -> PCs] /\ owner \in [Rows -> Sessions \cup {NoSession}]
      /\ seen \in [Sessions -> [Rows -> Values]] /\ working \in [Rows -> Values]
  BY DEF IndInv, TypeInv
<1>1. ASSUME Proceed(p), UNCHANGED entry
      PROVE  /\ owner'[Execution] = p => seen'[p][Execution] = working'[Execution]
             /\ entry' = p => pc'[p] # "idle"
             /\ entry' = p /\ pc'[p] # "move" => seen'[p][Execution] # "pending"
             /\ pc'[p] = "move" => goal'[p] # "pending"
  <2>1. CASE /\ pc[p] = "idle" /\ seen'[p][Execution] = committed[Execution]
             /\ UNCHANGED rows
    <3>1. owner[Execution] # p
      BY <2>1 DEF IndInv, OwnedOnly
    <3>2. entry # p
      BY <2>1 DEF EntryInv
    <3> QED BY <1>1, <2>1, <3>1, <3>2, NextStatement DEF rows
  <2>2. CASE /\ pc[p] \notin {"idle", "move"}
             /\ seen'[p][Execution] = seen[p][Execution]
             /\ owner'[Execution] = owner[Execution]
             /\ working'[Execution] = working[Execution]
    BY <1>1, <2>2, NextStatement DEF EntryInv
  <2>3. CASE /\ pc[p] \in {"move", "end"} /\ Write(p, Execution, goal[p])
             /\ goal'[p] = goal[p]
    <3>1. goal[p] # "pending"
      BY <2>3 DEF EntryInv, IndInv, EndIsLocked, TerminalWorkflow
    <3>2. working'[Execution] = goal[p] /\ seen'[p][Execution] = goal[p]
      BY <1>0, <2>3 DEF Write
    <3> QED BY <1>1, <3>1, <3>2, NextStatement
  <2> QED BY <1>1, <2>1, <2>2, <2>3, CopyStep
<1>2. CASE OpenWork(p)
  <2>1. pc[p] = "idle" /\ UNCHANGED rows /\ seen'[p][Execution] = committed[Execution]
    BY <1>0, <1>2 DEF OpenWork, Open
  <2>2. owner[Execution] # p
    BY <2>1 DEF IndInv, OwnedOnly
  <2>3. committed[Execution] = "pending" => pc'[p] = "move"
    BY <1>0, <1>2 DEF OpenWork, Open
  <2> QED BY <1>2, <2>1, <2>2, <2>3, NextStatement DEF rows
<1>3. CASE Commit(p) \/ Abort(p)
  <2>1. owner'[Execution] # p /\ pc'[p] = "idle"
    BY <1>0, <1>3 DEF Commit, Abort, Close
  <2>2. entry' # p
    BY <1>3 DEF Commit, Abort, Requeue, ReturnEntry
  <2> QED BY <2>1, <2>2
<1> QED BY <1>1, <1>2, <1>3 DEF Step

\* EntryInv holds at first, and each step keeps it.
LEMMA EntryInductive ==
  /\ Init => EntryInv
  /\ IndInv /\ DecisionInv /\ EntryInv /\ [Next]_vars => EntryInv'
<1> USE RowsAreRows, RowAssumption
<1>1. ASSUME Init PROVE EntryInv
  BY <1>1 DEF Init, EntryInv
<1>2. ASSUME IndInv, DecisionInv, EntryInv, NEW p \in Sessions, Step(p) PROVE EntryInv'
  <2>0. /\ owner \in [Rows -> Sessions \cup {NoSession}]
        /\ owner' \in [Rows -> Sessions \cup {NoSession}]
    BY <1>2, StepRowTypes DEF IndInv, TypeInv
  <2>1. ASSUME NEW q \in Sessions \ {p}
        PROVE  /\ owner'[Execution] = q => owner[Execution] = q
               /\ entry' = q => entry = q
    <3>1. owner'[Execution] = q => owner[Execution] = q
      <4>1. UNCHANGED owner \/ (\E r \in Rows, v \in Values : Write(p, r, v)) \/ Close(p)
        BY <1>2, OwnerStep
      <4> QED BY <2>0, <4>1 DEF Write, Close
    <3>2. entry' = q => entry = q
      BY <1>2 DEF Step, OpenWork, Commit, Requeue, Abort, ReturnEntry
    <3> QED BY <3>1, <3>2
  <2>2. ASSUME NEW q \in Sessions \ {p}
        PROVE  /\ owner'[Execution] = q => seen'[q][Execution] = working'[Execution]
               /\ entry' = q => pc'[q] # "idle"
               /\ entry' = q /\ pc'[q] # "move" => seen'[q][Execution] # "pending"
               /\ pc'[q] = "move" => goal'[q] # "pending"
    <3>1. /\ pc'[q] = pc[q] /\ seen'[q] = seen[q]
          /\ owner[Execution] = q => working'[Execution] = working[Execution]
      BY <1>2, StepFrame
    <3>2. goal'[q] = goal[q]
      BY <1>2, GoalFrame
    <3> QED BY <1>2, <2>1, <3>1, <3>2 DEF EntryInv
  <2>3. /\ owner'[Execution] = p => seen'[p][Execution] = working'[Execution]
        /\ entry' = p => pc'[p] # "idle"
        /\ entry' = p /\ pc'[p] # "move" => seen'[p][Execution] # "pending"
        /\ pc'[p] = "move" => goal'[p] # "pending"
    BY <1>2, EntryOfStepper
  <2> QED BY <2>0, <2>2, <2>3 DEF EntryInv
<1>3. ASSUME EntryInv, UNCHANGED vars PROVE EntryInv'
  BY <1>3 DEF vars, rows, locals, EntryInv
<1> QED BY <1>1, <1>2, <1>3 DEF Next

\* No step lets go of an execution that is to be driven on.
LEMMA LetGoStep ==
  ASSUME IndInv, DecisionInv, EntryInv, NEW p \in Sessions, Step(p), ~LetGo, LetGo'
  PROVE  committed'[Execution] \notin {"pending", "running"}
<1> USE RowsAreRows, RowAssumption
<1>0. /\ seen \in [Sessions -> [Rows -> Values]] /\ committed \in [Rows -> Values]
      /\ owner \in [Rows -> Sessions \cup {NoSession}] /\ working \in [Rows -> Values]
      /\ entry \in {"queued", "none"} \cup Sessions
  BY DEF IndInv, TypeInv
<1>1. ASSUME Proceed(p), UNCHANGED entry PROVE FALSE
  <2>1. PICK q \in Sessions :
          /\ entry = q /\ owner'[Execution] # q
          /\ seen'[q][Execution] \notin {"pending", "running"}
    BY <1>1 DEF LetGo
  <2>2. \/ owner[Execution] = q
        \/ seen[q][Execution] \in {"pending", "running"}
    BY <2>1 DEF LetGo
  <2>3. CASE q # p
    <3>1. /\ seen'[q] = seen[q]
          /\ owner[Execution] = q => owner'[Execution] = q
      BY <2>3, StepFrame
    <3> QED BY <2>1, <2>2, <3>1
  <2>4. CASE q = p
    <3>1. pc[p] # "idle"
      BY <2>1, <2>4 DEF EntryInv
    <3>2. \/ /\ seen'[p][Execution] = seen[p][Execution]
             /\ owner'[Execution] = owner[Execution]
          \/ Write(p, Execution, goal[p])
      BY <1>1, <3>1, CopyStep
    <3>3. Write(p, Execution, goal[p]) => owner'[Execution] = p
      BY <1>0 DEF Write
    <3> QED BY <2>1, <2>2, <2>4, <3>2, <3>3
  <2> QED BY <2>3, <2>4
<1>2. CASE OpenWork(p)
  <2>1. /\ entry' = p /\ committed' = committed
        /\ seen'[p][Execution] = committed[Execution]
    BY <1>0, <1>2 DEF OpenWork, Open, rows
  <2> QED BY <2>1 DEF LetGo
<1>3. CASE Commit(p)
  <2>1. CASE entry = p
    <3>1. seen[p][Execution] \notin {"pending", "running"}
      <4>1. seen[p][Execution] # "pending"
        BY <1>3, <2>1 DEF Commit, EntryInv
      <4>2. seen[p][Execution] = "running" => entry' = "queued"
        BY <1>3, <2>1 DEF Commit, Requeue
      <4>3. entry' = "queued" => ~LetGo'
        BY DEF LetGo
      <4> QED BY <4>1, <4>2, <4>3
    <3>2. owner[Execution] = p
      BY <2>1, <3>1 DEF LetGo
    <3>3. seen[p][Execution] = working[Execution]
      BY <3>2 DEF EntryInv
    <3>4. committed'[Execution] = working[Execution]
      BY <1>3, <3>2 DEF Commit
    <3> QED BY <3>1, <3>3, <3>4
  <2>2. CASE entry # p
    <3>1. entry' = entry
      BY <1>3, <2>2 DEF Commit, Requeue
    <3>2. PICK q \in Sessions :
            /\ entry = q /\ owner'[Execution] # q
            /\ seen'[q][Execution] \notin {"pending", "running"}
      BY <3>1 DEF LetGo
    <3>3. /\ seen'[q] = seen[q]
          /\ owner[Execution] = q => owner'[Execution] = q
      BY <2>2, <3>2, StepFrame
    <3> QED BY <3>2, <3>3 DEF LetGo
  <2> QED BY <2>1, <2>2
<1>4. CASE Abort(p)
  <2>1. CASE entry = p
    <3>1. entry' = "queued"
      BY <1>4, <2>1 DEF Abort, ReturnEntry
    <3> QED BY <3>1 DEF LetGo
  <2>2. CASE entry # p
    <3>1. entry' = entry
      BY <1>4, <2>2 DEF Abort, ReturnEntry
    <3>2. PICK q \in Sessions :
            /\ entry = q /\ owner'[Execution] # q
            /\ seen'[q][Execution] \notin {"pending", "running"}
      BY <3>1 DEF LetGo
    <3>3. /\ seen'[q] = seen[q]
          /\ owner[Execution] = q => owner'[Execution] = q
      BY <2>2, <3>2, StepFrame
    <3> QED BY <3>2, <3>3 DEF LetGo
  <2> QED BY <2>1, <2>2
<1> QED BY <1>1, <1>2, <1>3, <1>4 DEF Step

\* Whatever requests overlap with its iteration, a worker lets go only of an
\* execution that is committed at rest when it does: the requeue of loop.py is
\* decided on the worker's own copy, and the copy is what it commits, or what
\* was committed when it claimed the entry.
THEOREM LetsGoAtRest == Spec => NeverDropped
<1> DEFINE Rest == committed'[Execution] \notin {"pending", "running"}
<1>1. IndInv /\ DecisionInv /\ EntryInv /\ [Next]_vars => [~LetGo /\ LetGo' => Rest]_vars
  <2> SUFFICES ASSUME IndInv, DecisionInv, EntryInv, Next, ~LetGo, LetGo'
               PROVE  Rest
    OBVIOUS
  <2> QED BY LetGoStep DEF Next
<1>2. Spec => []DecisionInv
  BY Inductive, DecisionInductive, PTL DEF Spec
<1>3. Spec => []EntryInv
  BY <1>2, Inductive, EntryInductive, PTL DEF Spec
<1> QED BY <1>1, <1>2, <1>3, Inductive, PTL DEF Spec, NeverDropped
=============================================================================
