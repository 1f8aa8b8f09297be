--------------------------- MODULE SchemaRevisions ---------------------------
(***************************************************************************)
(* The six revisions of the database (alembic/versions), each as the list  *)
(* of statements its upgrade() and its downgrade() run.  A table is what   *)
(* other statements depend on: its foreign keys and its unique keys.       *)
(* Columns, types, defaults and plain indexes are left out, except         *)
(* retry_after, which a revision of its own adds.                          *)
(***************************************************************************)
EXTENDS Sequences, Naturals

\* A foreign key of a table: its column, the table it names, and ON DELETE.
Ref(column, target, ondelete) ==
  [column |-> column, target |-> target, ondelete |-> ondelete]

Table(refs, unique) == [refs |-> refs, unique |-> unique, added |-> {}]

\* The statements.  A unique index made right after its table is part of it.
Create(name, refs, unique) ==
  [op |-> "create", table |-> name, def |-> Table(refs, unique)]
Drop(name) == [op |-> "drop", table |-> name]
AddColumn(name, column) == [op |-> "add_column", table |-> name, column |-> column]
DropColumn(name, column) == [op |-> "drop_column", table |-> name, column |-> column]
DropIndex(name, columns) == [op |-> "drop_index", table |-> name, columns |-> columns]
CreateUnique(name, columns) == [op |-> "create_unique", table |-> name, columns |-> columns]

DropAll(names) == [i \in DOMAIN names |-> Drop(names[i])]

-----------------------------------------------------------------------------
(* da7249485c82: accounts, organizations and projects.                     *)

CreateUserTables == <<
  Create("users", {}, {{"email"}, {"username"}}),
  Create("notifications", {Ref("user_id", "users", "CASCADE")}, {}),
  Create("oauth_accounts", {Ref("user_id", "users", "CASCADE")},
         {{"provider", "provider_account_id"}}),
  Create("organizations", {Ref("created_by", "users", "SET_NULL")}, {{"slug"}})>>

CreateSessionTables == <<
  Create("sessions", {Ref("user_id", "users", "CASCADE")}, {{"refresh_token_hash"}}),
  Create("user_preferences", {Ref("user_id", "users", "CASCADE")}, {{"user_id"}}),
  Create("audit_logs", {Ref("actor_id", "users", "SET_NULL"),
                        Ref("organization_id", "organizations", "SET_NULL")}, {})>>

CreateMembershipTables == <<
  Create("organization_members", {Ref("invited_by", "users", "SET_NULL"),
                                  Ref("organization_id", "organizations", "CASCADE"),
                                  Ref("user_id", "users", "CASCADE")},
         {{"organization_id", "user_id"}}),
  Create("projects", {Ref("created_by", "users", "SET_NULL"),
                      Ref("organization_id", "organizations", "CASCADE"),
                      Ref("owner_id", "users", "SET_NULL")},
         {{"organization_id", "slug"}})>>

CreateProjectMembers == <<
  Create("project_members", {Ref("project_id", "projects", "CASCADE"),
                             Ref("user_id", "users", "CASCADE")},
         {{"project_id", "user_id"}})>>

UpgradeInitial_MembersFirst ==
  CreateUserTables \o CreateSessionTables \o CreateProjectMembers
    \o CreateMembershipTables
UpgradeInitial ==
  CreateUserTables \o CreateSessionTables \o CreateMembershipTables
    \o CreateProjectMembers

DowngradeInitial == DropAll(<<
  "project_members", "projects", "organization_members", "audit_logs",
  "user_preferences", "sessions", "organizations", "oauth_accounts",
  "notifications", "users">>)

-----------------------------------------------------------------------------
(* cfa3479fae2b: workflows.                                                *)

OfExecution == Ref("workflow_execution_id", "workflow_executions", "CASCADE")
OfStageRun == Ref("stage_execution_id", "workflow_stage_executions", "CASCADE")

CreateWorkflowTables == <<
  Create("workflows", {Ref("created_by", "users", "SET_NULL")}, {{"key"}}),
  Create("workflow_templates", {Ref("workflow_id", "workflows", "CASCADE")}, {}),
  Create("workflow_versions", {Ref("workflow_id", "workflows", "CASCADE")},
         {{"workflow_id", "version"}})>>

CreateExecutionTables == <<
  Create("workflow_executions", {Ref("project_id", "projects", "CASCADE"),
                                 Ref("started_by", "users", "SET_NULL"),
                                 Ref("workflow_id", "workflows", "CASCADE"),
                                 Ref("workflow_version_id", "workflow_versions", "RESTRICT")},
         {}),
  Create("workflow_stages",
         {Ref("workflow_version_id", "workflow_versions", "CASCADE")},
         {{"workflow_version_id", "stage_key"}})>>

CreateEventTables == <<
  Create("workflow_events", {OfExecution}, {}),
  Create("workflow_metrics", {OfExecution}, {{"workflow_execution_id"}}),
  Create("workflow_queue", {OfExecution}, {{"workflow_execution_id"}})>>

CreateStageRunTables == <<
  Create("workflow_stage_executions",
         {OfExecution, Ref("workflow_stage_id", "workflow_stages", "RESTRICT")}, {}),
  Create("workflow_approvals", {Ref("decided_by_id", "users", "SET_NULL"),
                                Ref("requested_from_user_id", "users", "SET_NULL"),
                                OfStageRun, OfExecution}, {})>>

CreateOutputTables == <<
  Create("workflow_artifacts", {OfStageRun, OfExecution}, {}),
  Create("workflow_logs", {OfStageRun, OfExecution}, {})>>

UpgradeWorkflow ==
  CreateWorkflowTables \o CreateExecutionTables \o CreateEventTables
    \o CreateStageRunTables \o CreateOutputTables

DowngradeWorkflow == DropAll(<<
  "workflow_logs", "workflow_artifacts", "workflow_approvals",
  "workflow_stage_executions", "workflow_queue", "workflow_metrics",
  "workflow_events", "workflow_stages", "workflow_executions",
  "workflow_versions", "workflow_templates", "workflows">>)

-----------------------------------------------------------------------------
(* The four revisions after it.                                            *)

\* 6bfaba45831f
UpgradeRetryAfter == <<AddColumn("workflow_stage_executions", "retry_after")>>
DowngradeRetryAfter == <<DropColumn("workflow_stage_executions", "retry_after")>>

\* e85ae5cf68b0: an execution may have several queue entries from here on.
\* The index is made again, plain on the way up and unique on the way down.
UpgradeQueueKey == <<DropIndex("workflow_queue", {"workflow_execution_id"})>>
DowngradeQueueKey_Plain == << >>
DowngradeQueueKey == <<CreateUnique("workflow_queue", {"workflow_execution_id"})>>

\* f0a06220c14f
UpgradeModelRouter == <<
  Create("model_profiles", {}, {{"key"}}),
  Create("usage_ledger", {Ref("model_profile_id", "model_profiles", "RESTRICT"),
                          Ref("organization_id", "organizations", "SET_NULL"),
                          Ref("project_id", "projects", "SET_NULL"),
                          Ref("workflow_execution_id", "workflow_executions", "SET_NULL")},
         {})>>
DowngradeModelRouter == DropAll(<<"usage_ledger", "model_profiles">>)

\* cef8e58d0a23
UpgradeMemory == <<
  Create("architecture_decisions",
         {Ref("created_by", "users", "SET_NULL"),
          Ref("project_id", "projects", "CASCADE"),
          Ref("superseded_by_id", "architecture_decisions", "SET_NULL")}, {}),
  Create("memory_events", {Ref("project_id", "projects", "CASCADE")}, {})>>
DowngradeMemory == DropAll(<<"memory_events", "architecture_decisions">>)

-----------------------------------------------------------------------------
\* The chain of down_revision, oldest first.
Upgrades == <<UpgradeInitial, UpgradeWorkflow, UpgradeRetryAfter,
              UpgradeQueueKey, UpgradeModelRouter, UpgradeMemory>>
Downgrades == <<DowngradeInitial, DowngradeWorkflow, DowngradeRetryAfter,
                DowngradeQueueKey, DowngradeModelRouter, DowngradeMemory>>
=============================================================================
