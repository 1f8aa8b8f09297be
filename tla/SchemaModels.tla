---------------------------- MODULE SchemaModels ----------------------------
(***************************************************************************)
(* The tables as the ORM classes of forgeai_core/models declare them, which*)
(* is what the running program believes the database to be: foreign keys   *)
(* with ON DELETE, and unique keys.                                        *)
(***************************************************************************)
EXTENDS SchemaRevisions

User == Table({}, {{"email"}, {"username"}})

Organization == Table({Ref("created_by", "users", "SET_NULL")}, {{"slug"}})

OrganizationMember ==
  Table({Ref("organization_id", "organizations", "CASCADE"),
         Ref("user_id", "users", "CASCADE"),
         Ref("invited_by", "users", "SET_NULL")}, {{"organization_id", "user_id"}})

Project ==
  Table({Ref("organization_id", "organizations", "CASCADE"),
         Ref("owner_id", "users", "SET_NULL"),
         Ref("created_by", "users", "SET_NULL")}, {{"organization_id", "slug"}})

ProjectMember ==
  Table({Ref("project_id", "projects", "CASCADE"), Ref("user_id", "users", "CASCADE")},
        {{"project_id", "user_id"}})

UserSession == Table({Ref("user_id", "users", "CASCADE")}, {{"refresh_token_hash"}})

OAuthAccount ==
  Table({Ref("user_id", "users", "CASCADE")}, {{"provider", "provider_account_id"}})

UserPreference == Table({Ref("user_id", "users", "CASCADE")}, {{"user_id"}})

\* SET NULL twice, so that the entry outlives its organization and its actor.
AuditLog ==
  Table({Ref("organization_id", "organizations", "SET_NULL"),
         Ref("actor_id", "users", "SET_NULL")}, {})

Notification == Table({Ref("user_id", "users", "CASCADE")}, {})

-----------------------------------------------------------------------------
Workflow == Table({Ref("created_by", "users", "SET_NULL")}, {{"key"}})

WorkflowVersion ==
  Table({Ref("workflow_id", "workflows", "CASCADE")}, {{"workflow_id", "version"}})

WorkflowTemplate == Table({Ref("workflow_id", "workflows", "CASCADE")}, {})

WorkflowStage ==
  Table({Ref("workflow_version_id", "workflow_versions", "CASCADE")},
        {{"workflow_version_id", "stage_key"}})

WorkflowExecution ==
  Table({Ref("workflow_id", "workflows", "CASCADE"),
         Ref("workflow_version_id", "workflow_versions", "RESTRICT"),
         Ref("project_id", "projects", "CASCADE"),
         Ref("started_by", "users", "SET_NULL")}, {})

WorkflowStageExecution ==
  [Table({OfExecution, Ref("workflow_stage_id", "workflow_stages", "RESTRICT")}, {})
     EXCEPT !.added = {"retry_after"}]

WorkflowApproval ==
  Table({OfExecution, OfStageRun, Ref("requested_from_user_id", "users", "SET_NULL"),
         Ref("decided_by_id", "users", "SET_NULL")}, {})

WorkflowArtifact == Table({OfExecution, OfStageRun}, {})

WorkflowLog == Table({OfExecution, OfStageRun}, {})

WorkflowEvent == Table({OfExecution}, {})

WorkflowMetric == Table({OfExecution}, {{"workflow_execution_id"}})

\* workflow_execution_id is deliberately not unique.
WorkflowQueueEntry_Unique == Table({OfExecution}, {{"workflow_execution_id"}})
WorkflowQueueEntry == Table({OfExecution}, {})

-----------------------------------------------------------------------------
ModelProfileRecord == Table({}, {{"key"}})

\* The organization, project and execution are optional; the profile is not.
UsageLedgerEntry ==
  Table({Ref("model_profile_id", "model_profiles", "RESTRICT"),
         Ref("organization_id", "organizations", "SET_NULL"),
         Ref("project_id", "projects", "SET_NULL"),
         Ref("workflow_execution_id", "workflow_executions", "SET_NULL")}, {})

ArchitectureDecision ==
  Table({Ref("project_id", "projects", "CASCADE"),
         Ref("superseded_by_id", "architecture_decisions", "SET_NULL"),
         Ref("created_by", "users", "SET_NULL")}, {})

MemoryEvent == Table({Ref("project_id", "projects", "CASCADE")}, {})

-----------------------------------------------------------------------------
\* Base.metadata, once models/__init__.py has imported every class: the
\* __tablename__ of each, and the table.
Models ==
  [users |-> User, organizations |-> Organization,
   organization_members |-> OrganizationMember, projects |-> Project,
   project_members |-> ProjectMember, sessions |-> UserSession,
   oauth_accounts |-> OAuthAccount, user_preferences |-> UserPreference,
   audit_logs |-> AuditLog, notifications |-> Notification,
   workflows |-> Workflow, workflow_versions |-> WorkflowVersion,
   workflow_templates |-> WorkflowTemplate, workflow_stages |-> WorkflowStage,
   workflow_executions |-> WorkflowExecution,
   workflow_stage_executions |-> WorkflowStageExecution,
   workflow_approvals |-> WorkflowApproval,
   workflow_artifacts |-> WorkflowArtifact, workflow_logs |-> WorkflowLog,
   workflow_events |-> WorkflowEvent, workflow_metrics |-> WorkflowMetric,
   workflow_queue |-> WorkflowQueueEntry,
   model_profiles |-> ModelProfileRecord, usage_ledger |-> UsageLedgerEntry,
   architecture_decisions |-> ArchitectureDecision,
   memory_events |-> MemoryEvent]
=============================================================================
