--------------------------- MODULE SchemaMigrations ---------------------------
(***************************************************************************)
(* alembic upgrade and downgrade as env.py runs them: all the revisions    *)
(* between the recorded one and the target in one transaction, statement   *)
(* by statement, while the program goes on using the database.  A          *)
(* statement that cannot run, or a crash, rolls all of it back.            *)
(***************************************************************************)
EXTENDS SchemaModels

VARIABLES
  revision,  \* alembic_version: how many revisions are applied
  schema,    \* the committed tables
  repeated,  \* some execution has two rows in workflow_queue
  command,   \* the running command, or Idle
  failure    \* why the last command failed, or "none"

vars == <<revision, schema, repeated, command, failure>>

HeadRevision == Len(Upgrades)
NoTables == [t \in {} |-> Table({}, {})]
Idle == [direction |-> "none"]

Init ==
  /\ revision = 0 /\ schema = NoTables
  /\ repeated = FALSE
  /\ command = Idle /\ failure = "none"

-----------------------------------------------------------------------------
(* One statement.                                                          *)

QueueKey == {"workflow_execution_id"}

\* The error PostgreSQL gives a statement over these tables, or "none"; twice says
\* whether some execution has two rows in the queue.
Problem(s, tables, twice) ==
  LET missing == s.table \notin DOMAIN tables
      named == IF s.op = "create" THEN {r.target : r \in s.def.refs} \ {s.table} ELSE {}
      referrers == {t \in DOMAIN tables \ {s.table} :
                      \E r \in tables[t].refs : r.target = s.table}
  IN  CASE s.op = "create" /\ ~missing -> "duplicate_table"
        [] s.op = "create" /\ ~(named \subseteq DOMAIN tables) -> "undefined_table"
        [] s.op # "create" /\ missing -> "undefined_table"
        [] s.op = "drop" /\ referrers # {} -> "dependent_objects_still_exist"
        [] s.op = "drop_index" /\ s.columns \notin tables[s.table].unique -> "undefined_object"
        [] s.op = "create_unique" /\ twice -> "unique_violation"
        [] OTHER -> "none"

Apply(tables, s) ==
  CASE s.op = "create" ->
         [t \in DOMAIN tables \cup {s.table} |-> IF t = s.table THEN s.def ELSE tables[t]]
    [] s.op = "drop" -> [t \in DOMAIN tables \ {s.table} |-> tables[t]]
    [] s.op = "add_column" -> [tables EXCEPT ![s.table].added = @ \cup {s.column}]
    [] s.op = "drop_column" -> [tables EXCEPT ![s.table].added = @ \ {s.column}]
    [] s.op = "drop_index" -> [tables EXCEPT ![s.table].unique = @ \ {s.columns}]
    [] s.op = "create_unique" -> [tables EXCEPT ![s.table].unique = @ \cup {s.columns}]

-----------------------------------------------------------------------------
(* A command.                                                              *)

Begin(direction, target) ==
  /\ command = Idle
  /\ \/ direction = "upgrade" /\ target > revision
     \/ direction = "downgrade" /\ target < revision
  /\ command' = [direction |-> direction, target |-> target, at |-> revision,
                 step |-> 1, tables |-> schema]
  /\ failure' = "none"
  /\ UNCHANGED <<revision, schema, repeated>>

Running == command # Idle
Script == IF command.direction = "upgrade" THEN Upgrades[command.at + 1]
                                           ELSE Downgrades[command.at]
Reached == command.at = command.target
InScript == Running /\ ~Reached /\ command.step <= Len(Script)

Execute ==
  /\ InScript
  /\ Problem(Script[command.step], command.tables, repeated) = "none"
  /\ command' = [command EXCEPT !.tables = Apply(@, Script[command.step]), !.step = @ + 1]
  /\ UNCHANGED <<revision, schema, repeated, failure>>

\* The end of one revision's function: its row in alembic_version.
NextRevision ==
  /\ Running /\ ~Reached /\ command.step > Len(Script)
  /\ command' = [command EXCEPT !.at = IF command.direction = "upgrade" THEN @ + 1 ELSE @ - 1,
                                !.step = 1]
  /\ UNCHANGED <<revision, schema, repeated, failure>>

Fail ==
  /\ InScript
  /\ Problem(Script[command.step], command.tables, repeated) # "none"
  /\ failure' = Problem(Script[command.step], command.tables, repeated)
  /\ command' = Idle
  /\ UNCHANGED <<revision, schema, repeated>>

\* One commit for the whole command.  Dropping the queue drops its rows.
Commit ==
  /\ Running /\ Reached
  /\ revision' = command.at /\ schema' = command.tables
  /\ repeated' = (repeated /\ "workflow_queue" \in DOMAIN command.tables)
  /\ command' = Idle
  /\ UNCHANGED failure

Crash ==
  /\ Running
  /\ command' = Idle
  /\ UNCHANGED <<revision, schema, repeated, failure>>

\* The program enqueues an execution again (loop.py), which the committed
\* unique key refuses, and which waits while a command has altered the table.
EnqueueAgain ==
  /\ ~repeated
  /\ "workflow_queue" \in DOMAIN schema
  /\ QueueKey \notin schema["workflow_queue"].unique
  /\ Running =>
       /\ "workflow_queue" \in DOMAIN command.tables
       /\ command.tables["workflow_queue"] = schema["workflow_queue"]
  /\ repeated' = TRUE
  /\ UNCHANGED <<revision, schema, command, failure>>

Next ==
  \/ \E direction \in {"upgrade", "downgrade"}, target \in 0..HeadRevision : Begin(direction, target)
  \/ Execute \/ NextRevision \/ Fail \/ Commit \/ Crash
  \/ EnqueueAgain

Spec == Init /\ [][Next]_vars

-----------------------------------------------------------------------------
(* Properties.                                                             *)

\* The tables after each statement of a script that starts from these.
TablesAfter(tables, script) ==
  LET after[k \in 0..Len(script)] ==
        IF k = 0 THEN tables ELSE Apply(after[k - 1], script[k])
  IN  after

\* What the upgrades alone make of an empty database, per revision.
SchemaAt[r \in 0..HeadRevision] ==
  IF r = 0 THEN NoTables ELSE TablesAfter(SchemaAt[r - 1], Upgrades[r])[Len(Upgrades[r])]

\* Whatever was upgraded, downgraded, failed or interrupted before, and from
\* whichever revision to whichever, the committed tables are those of the
\* recorded revision: a round trip corrupts nothing and nothing is left over.
SchemaMatchesRevision == schema = SchemaAt[revision]

\* At head the database has the foreign keys and unique keys the ORM classes
\* declare.
HeadMatchesModels == revision = HeadRevision => schema = Models

\* Every statement finds the tables and indexes it needs, on the way up and on
\* the way down.  The one command that can fail is a downgrade past
\* e85ae5cf68b0 after an execution was enqueued twice.
OnlyDuplicatesFail ==
  failure # "none" =>
    /\ failure = "unique_violation"
    /\ revision >= 4
===============================================================================
