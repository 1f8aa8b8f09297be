----------------------------- MODULE Registration -----------------------------
(***************************************************************************)
(* POST /workflow-definitions from several callers at once: validation,    *)
(* then register_definition (service.py) with get_or_create_workflow and   *)
(* register_version (registration.py), statement by statement.             *)
(*                                                                         *)
(* The tables are workflows, workflow_versions and workflow_stages.  An    *)
(* INSERT of a key another transaction has inserted waits for its end; it  *)
(* raises IntegrityError if that transaction committed.  A row's id is     *)
(* left out: its unique key stands for it.                                 *)
(***************************************************************************)
EXTENDS DependencyGraph

CONSTANTS
  Sessions,   \* the callers' database sessions
  Keys,       \* definition.key
  Versions,   \* definition.version
  Absent,     \* no such row
  Committed,
  Unpublished \* of VersionCatalog

Slots == Keys \X Versions
KeyOf(s) == s[1]

ASSUME SessionAssumption ==
  /\ Slots # {}
  /\ Absent # Committed
  /\ Absent \notin Sessions /\ Committed \notin Sessions

VARIABLES
  workflowRow,  \* per key: Absent, Committed, or the session that inserted it
  versionRow,   \* per slot, the same
  graphSpec,    \* per slot: workflow_versions.graph_spec
  stageRows,    \* per slot: the workflow_stages rows by sequence_index
  pc,           \* the statement a session is about to execute
  slot,         \* the (key, version) it registers
  definition,   \* and the definition
  reply         \* what its last caller was told

tables == <<workflowRow, versionRow, graphSpec, stageRows>>
callers == <<pc, slot, definition, reply>>
vars == <<graphVars, tables, callers>>

Init ==
  /\ GraphInit
  /\ workflowRow = [k \in Keys |-> Absent]
  /\ versionRow = [s \in Slots |-> Absent]
  /\ graphSpec = [s \in Slots |-> << >>]
  /\ stageRows = [s \in Slots |-> << >>]
  /\ pc = [p \in Sessions |-> "idle"]
  /\ slot = [p \in Sessions |-> CHOOSE s \in Slots : TRUE]
  /\ definition = [p \in Sessions |-> << >>]
  /\ reply = [p \in Sessions |-> "none"]

-----------------------------------------------------------------------------
(* Sessions.                                                               *)

\* A row session p's SELECT returns.
Visible_Dirty(p, row) == row # Absent
Visible(p, row) == row \in {Committed, p}

\* The handler runs once the body is parsed.
Register(p, s) ==
  /\ pc[p] = "idle"
  /\ verdict = "accepted"
  /\ pc' = [pc EXCEPT ![p] = "find workflow"]
  /\ slot' = [slot EXCEPT ![p] = s]
  /\ definition' = [definition EXCEPT ![p] = payload]
  /\ reply' = [reply EXCEPT ![p] = "none"]
  /\ payload' = << >> /\ remaining' = {} /\ resolved' = {} /\ levels' = << >>
  /\ verdict' = "none"
  /\ UNCHANGED tables

Continue(p, at) ==
  /\ pc' = [pc EXCEPT ![p] = at]
  /\ UNCHANGED <<slot, definition, reply, graphVars>>

Finish(p, answer) ==
  /\ pc' = [pc EXCEPT ![p] = "idle"]
  /\ definition' = [definition EXCEPT ![p] = << >>]
  /\ reply' = [reply EXCEPT ![p] = answer]
  /\ UNCHANGED <<slot, graphVars>>

\* The session is closed without a commit: get_db's context manager after an
\* exception, or the death of the process.
Rollback_KeepsWorkflow(p, answer) ==
  /\ versionRow' = [s \in Slots |-> IF versionRow[s] = p THEN Absent ELSE versionRow[s]]
  /\ graphSpec' = [s \in Slots |-> IF versionRow[s] = p THEN << >> ELSE graphSpec[s]]
  /\ stageRows' = [s \in Slots |-> IF versionRow[s] = p THEN << >> ELSE stageRows[s]]
  /\ UNCHANGED workflowRow
  /\ Finish(p, answer)
Rollback(p, answer) ==
  /\ workflowRow' = [k \in Keys |-> IF workflowRow[k] = p THEN Absent ELSE workflowRow[k]]
  /\ versionRow' = [s \in Slots |-> IF versionRow[s] = p THEN Absent ELSE versionRow[s]]
  /\ graphSpec' = [s \in Slots |-> IF versionRow[s] = p THEN << >> ELSE graphSpec[s]]
  /\ stageRows' = [s \in Slots |-> IF versionRow[s] = p THEN << >> ELSE stageRows[s]]
  /\ Finish(p, answer)

-----------------------------------------------------------------------------
(* get_or_create_workflow.                                                 *)

FindWorkflow(p) ==
  /\ pc[p] = "find workflow"
  /\ Continue(p, IF Visible(p, workflowRow[KeyOf(slot[p])]) THEN "find version"
                                                        ELSE "insert workflow")
  /\ UNCHANGED tables

InsertWorkflow(p) ==
  /\ pc[p] = "insert workflow"
  /\ workflowRow[KeyOf(slot[p])] = Absent
  /\ workflowRow' = [workflowRow EXCEPT ![KeyOf(slot[p])] = p]
  /\ Continue(p, "find version")
  /\ UNCHANGED <<versionRow, graphSpec, stageRows>>

\* The unique key of workflows: nobody catches it, the caller gets a 500.
WorkflowExists(p) ==
  /\ pc[p] = "insert workflow"
  /\ workflowRow[KeyOf(slot[p])] = Committed
  /\ Rollback(p, "error")

-----------------------------------------------------------------------------
(* register_version.                                                       *)

FindVersion(p) ==
  /\ pc[p] = "find version"
  /\ ~Visible(p, versionRow[slot[p]])
  /\ Continue(p, "insert version")
  /\ UNCHANGED tables

\* DefinitionAlreadyRegisteredError, of the check before the insert or of the
\* unique key.  After the unique key the message's workflow.key is a column of
\* a failed session's row, and SQLAlchemy may raise its own error instead.
VersionExists(p) ==
  \/ /\ pc[p] = "find version" /\ Visible(p, versionRow[slot[p]])
     /\ Rollback(p, "already registered")
  \/ /\ pc[p] = "insert version" /\ versionRow[slot[p]] = Committed
     /\ \E answer \in {"already registered", "error"} : Rollback(p, answer)

InsertVersion_Upsert(p) ==
  /\ pc[p] = "insert version"
  /\ versionRow[slot[p]] \in {Absent, Committed}
  /\ versionRow' = [versionRow EXCEPT ![slot[p]] = p]
  /\ graphSpec' = [graphSpec EXCEPT ![slot[p]] = definition[p]]
  /\ Continue(p, "insert stages")
  /\ UNCHANGED <<workflowRow, stageRows>>
InsertVersion(p) ==
  /\ pc[p] = "insert version"
  /\ versionRow[slot[p]] = Absent
  /\ versionRow' = [versionRow EXCEPT ![slot[p]] = p]
  /\ graphSpec' = [graphSpec EXCEPT ![slot[p]] = definition[p]]
  /\ Continue(p, "insert stages")
  /\ UNCHANGED <<workflowRow, stageRows>>

\* The columns of a workflow_stages row the executor plans by.
StageRow(stage) == [stage_key |-> stage.id, depends_on |-> stage.depends_on]

InsertStages(p) ==
  /\ pc[p] = "insert stages"
  /\ stageRows' = [stageRows EXCEPT ![slot[p]] =
                     [i \in DOMAIN definition[p] |-> StageRow(definition[p][i])]]
  /\ Continue(p, "commit")
  /\ UNCHANGED <<workflowRow, versionRow, graphSpec>>

Commit(p) ==
  /\ pc[p] = "commit"
  /\ workflowRow' = [k \in Keys |-> IF workflowRow[k] = p THEN Committed ELSE workflowRow[k]]
  /\ versionRow' = [s \in Slots |-> IF versionRow[s] = p THEN Committed ELSE versionRow[s]]
  /\ UNCHANGED <<graphSpec, stageRows>>
  /\ Finish(p, "created")

Crash(p) ==
  /\ pc[p] # "idle"
  /\ Rollback(p, "none")

-----------------------------------------------------------------------------
Proceed(p) ==
  \/ FindWorkflow(p) \/ InsertWorkflow(p) \/ WorkflowExists(p)
  \/ FindVersion(p) \/ VersionExists(p) \/ InsertVersion(p)
  \/ InsertStages(p) \/ Commit(p)

Next ==
  \/ GraphNext /\ UNCHANGED <<tables, callers>>
  \/ \E p \in Sessions : (\E s \in Slots : Register(p, s)) \/ Proceed(p) \/ Crash(p)

Spec == Init /\ [][Next]_vars

\* A handler goes on unless its process dies.  Strong fairness, because of the
\* inserts: PostgreSQL queues the waiters of a row and wakes them when its
\* transaction ends, so one does not lose to ever new callers that die.
FairSpec == Spec /\ \A p \in Sessions : SF_vars(Proceed(p))

-----------------------------------------------------------------------------
(* Properties.                                                             *)

\* Every variable has its type, and an uncommitted row belongs to a session
\* that is past its insert and not yet at its end.
RegistrationTypeOK ==
  /\ workflowRow \in [Keys -> Sessions \cup {Absent, Committed}]
  /\ versionRow \in [Slots -> Sessions \cup {Absent, Committed}]
  /\ DOMAIN graphSpec = Slots /\ DOMAIN stageRows = Slots
  /\ pc \in [Sessions -> {"idle", "find workflow", "insert workflow", "find version",
                          "insert version", "insert stages", "commit"}]
  /\ slot \in [Sessions -> Slots]
  /\ reply \in [Sessions -> {"none", "created", "already registered", "error"}]
  /\ \A k \in Keys : workflowRow[k] \in Sessions =>
       /\ KeyOf(slot[workflowRow[k]]) = k
       /\ pc[workflowRow[k]] \in {"find version", "insert version", "insert stages", "commit"}
  /\ \A s \in Slots : versionRow[s] \in Sessions =>
       /\ slot[versionRow[s]] = s
       /\ pc[versionRow[s]] \in {"insert stages", "commit"}

\* A caller told "created" or "already registered" finds its version there for
\* good, below a workflow row; and only a caller whose workflow or version
\* somebody else committed meanwhile gets another error, of
\* get_or_create_workflow or register_version.
AnswersAreTrue ==
  \A p \in Sessions :
    /\ reply[p] \in {"created", "already registered"} => versionRow[slot[p]] = Committed
    /\ reply[p] = "error" => workflowRow[KeyOf(slot[p])] = Committed
    /\ versionRow[slot[p]] = Committed => workflowRow[KeyOf(slot[p])] = Committed

\* Two callers never wait for each other's keys: each ends, with an answer or
\* with its process.
AlwaysAnswered == \A p \in Sessions : pc[p] # "idle" ~> pc[p] = "idle"

\* The plan the executor reads: the committed stage rows.  A version whose
\* rows do not agree with its graph_spec is nobody's plan.
Torn == << >>
PlanOf(d) == [i \in DOMAIN d |-> StageRow(d[i])]
Published ==
  [s \in Slots |-> IF versionRow[s] # Committed THEN Unpublished
                   ELSE IF stageRows[s] = PlanOf(graphSpec[s]) THEN stageRows[s]
                   ELSE Torn]

Plans == {PlanOf(d) : d \in {e \in Payloads : Executable(e)}}

Catalog == INSTANCE VersionCatalog WITH catalog <- Published

\* The rows of all three tables implement the write-once catalog, whatever
\* callers overlap or die: what is committed under a (key, version) is all of
\* one validated definition and is never written again.
ImplementsCatalog == Catalog!Spec
===============================================================================
