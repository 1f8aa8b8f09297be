# Verification of the ForgeAI workflow engine

TLA+ modules, TLC configurations and TLAPS proofs for this repository: the
workflow engine (`services/workflow_engine`) with the worker and the API that
drive it, the database they share and its migrations, registration of
definitions, and the model router with the capability runs, the ledger and the
cost reports around it.

Paths without a directory are files of
`services/workflow_engine/src/forgeai_workflow_engine/`.

## 1. Inventory

| Component | State | Operations | Interacts with |
|---|---|---|---|
| Workflow executor (`executor.py`, `state_manager.py`) | execution status, stage executions (status, attempt, started_at, retry_after), approvals, metric row, events | create, submit, start, pause, resume, cancel, skip, resolve_approval, advance | the runner (calls), the queue (submit enqueues), the caller's transaction |
| Tables and decisions (`state_machine.py`, `retry_engine.py`, `timeout_engine.py`, `approval_engine.py`, `core/policies.py`) | none | pure | consulted by the executor |
| Queue (`queue.py`) | entries: QUEUED, CLAIMED, DONE, scheduled_for, priority | enqueue, claim_next (FOR UPDATE SKIP LOCKED), mark_done | worker, submit |
| Worker (`apps/worker`) | one transaction per iteration | claim, start, advance, re-enqueue, commit | queue, executor, runner |
| Workflow API (`apps/api/.../workflows`) | one transaction per request | create-and-start, advance, pause, resume, cancel, skip, resolve, register | executor, registration |
| Definitions (`definition.py`, `dependency_graph.py`, `registration.py`, `registry.py`, `loader.py`) | workflow versions and their stages | validate, register | executor reads a version |
| Schema (`apps/api/alembic`, `services/core/.../models`) | the tables, the recorded revision | upgrade, downgrade | everything that has rows |
| Runner (`runner.py`), capability registry and its stage runner | registered capabilities | run, rollback | executor, model router, prompts |
| Model router (`services/model_router`) | model registry, profiles, ledger rows | complete, deactivate, save, record | capabilities, providers |
| Analytics | none (reads rows) | cost, workflow and DORA metrics | ledger, metric rows |
| Event bus (`event_bus.py`) | subscribers | publish | state manager |
| Memory engine | memories, architecture decisions | record, accept, reject, supersede, search | - |
| Prompts | versioned templates | register, get, render | capabilities |
| Integrations | none | connect_repository | GitHub |
| Accounts (auth, organizations, RBAC) | users, sessions, memberships | login, refresh, invite | API |
| Web app, packages, infra | - | stubs, configuration | - |

What is hard here: the executor is a state machine over rows, called by
several workers and request handlers in any order, with retries against a
clock, human decisions, hooks whose effects a rollback of the transaction does
not undo, and a worker that can crash between its claim and its commit.
Sessions read without locks at READ COMMITTED and write rows whole. The
registration is check-then-insert. The router falls back over candidates that
fail, time out or are deactivated under way, and its ledger lives in its
caller's transaction. PROJECT.json lists each hazard at its line.

What makes each part correct:

- *Executor*: dependencies before dependents, gates before runs, one open
  approval per waiting stage, execution and stages agreeing on the outcome,
  run/attempt/retry arithmetic, no stale retry date, a true metric row,
  rollback of what completed, nothing after the end, never stuck.
- *Queue and worker*: one live entry, nothing claimed before it is due, a worker
  lets go only of an execution at rest, a submitted execution is started, driven
  work settles, a crash repeats at most what was not committed.
- *Overlapping sessions*: a stage is not run by two at once, not run before its
  approval is decided, not stranded, and the execution has one end.
- *Definitions*: the accepted graphs are exactly the acyclic ones; a published
  version is whole, executable and never changes; answers to callers are true.
- *Schema*: the committed tables are those of the recorded revision and, at
  head, those the classes declare.
- *Router, runs and reports*: a fallback, a refusal or an answer is earned; a
  run reports and never raises; the ledger is what committing callers were
  told; reports of one window agree.

## 2. Modules

| Module | Models | State and actions |
|---|---|---|
| `WorkflowStates` | the two enums and transition tables | constant operators; a transition the table refuses raises, which rolls back the caller, so it is a disabled step |
| `Policies` | retry, timeout and approval engines | constant operators over whole seconds |
| `WorkflowExecutor` | one execution and every operation on it | the rows as functions over stages; one action per operation or per way it ends |
| `ExecutionContract` | what an execution promises whoever reads it | outcome, completed, skipped and approved stages; three actions: work, cancel, skip. `WorkflowExecutor` and, through crashes, `WorkerLoop` implement it |
| `WorkerLoop` | the queue entries of an execution, workers, crashes and requests | EXTENDS the executor and wraps its actions in the worker's and the API's transactions |
| `ExecutionSessions` | the same operations in overlapping database sessions | committed and uncommitted rows, row locks, each session's identity map and next statement; one action per statement |
| `DependencyGraph` | the validators of a definition and Kahn's loop | a payload under validation; one action per round of the loop |
| `VersionCatalog` | what registration promises | one variable, one action: publish once |
| `Registration` | `register_definition` from several callers | EXTENDS the graph (a request is validated before its handler runs); three tables, one action per statement; implements `VersionCatalog` |
| `SchemaRevisions`, `SchemaModels` | the six revisions up and down; the classes' tables | constant sequences of statements, constant records |
| `SchemaMigrations` | alembic commands beside the running program | recorded revision, committed tables, the running command; one action per statement |
| `ModelRouter` | `complete()`, the profiles, the ledger | each call's locals, active and saved profiles, flushed and committed ledger rows |
| `CapabilityRuns` | the stage runner's run | EXTENDS the router: a run is a routed call behind a list of checks |
| `UsageReports` | the cost metrics and the ledger's total | EXTENDS the runs; constant-level folds over the committed ledger |
| `*Proofs` | - | the theorems of section 5 |
| `MC*` | - | instances |

How `WorkflowExecutor` corresponds to the code:

- `advance()` is one action per way a tick ends: a reaped stage
  (`ReapEscalate`, `ReapRetry`, `ReapExhausted`, `ReapCancel`), nothing ready
  (`AdvanceIdle`), all ready stages run (`AdvanceRun`), a gate
  (`AdvanceToGate`), a stage that failed for good (`AdvanceToFailure`). The
  loop's order is the database's within the retry-ready and the pending-ready
  group, so `RanBefore` allows every set of stages that may have run before
  the tick stopped.
- `resolve_approval()` is `ApproveAndComplete`, `ApproveAndRetry`,
  `ApproveAndFail` by the result of the run it makes, and `Reject`. A decision
  that raises changes nothing, with one exception that matters: rejecting when
  the execution cannot move to FAILED calls the rollback hooks first
  (`RejectRefused`).
- The columns that decisions read are variables. `approvals` counts a stage's
  approval rows by outcome. `runs` and `rolledBack` record the calls on the
  runner, which no transaction undoes. Events, outputs, errors and completed_at
  are left out.
- `StrandStage` leaves a stage RUNNING in a committed state. The deployed
  worker never does (run and result share a transaction, `NeverStranded`); the
  tests of the reaper set it up by hand, and it is confined to the `Strandable`
  stages. It covers first attempts and retries.

In `WorkerLoop` an action is one committed transaction, except where something
can fall in between:

- a first claim (`WorkerStart`) and the creating request are split, so that a
  crash can fall between the start and the commit; `session` is the transaction
  with uncommitted rows;
- an iteration that finds nothing to do is its read (`WorkerLook`) and its
  commit (`WorkerDone`), because it locks nothing and requests commit in between.
  `seen` and `requeueAt` are what the worker read, and `Commit` decides by them,
  as loop.py does by the row its session has.

A tick that runs or changes a stage is one step with its commit. A request that
only changes the execution's status and overlaps with such a tick has the effect
it has after the tick: the tick does not write the status, it ends by the
RUNNING it has read, and enqueues. Overlaps in which both write the same rows
are those of `ExecutionSessions`. `Crash` stands for the process dying and for
any exception that ends `run_forever`, and undoes the whole tick. `runs` and
`rolledBack` count committed calls in this module: those of a lost tick
happened all the same, and no property of the run is about them.

In `ExecutionSessions` a session opens an operation, reads, and writes row by
row. `seen` is SQLAlchemy's identity map: what the session first read of a row
is what it goes on deciding by. A write waits for the row's lock and replaces
the committed value, because no UPDATE in this code names an old value; the
metric row's unique key is the one thing a second writer fails on. `entry` is
the execution's queue entry: a worker's session claims it when it opens, and at
its commit decides by its own copy of the execution (`Requeue`). `Abort` is
an exception, a deadlock's victim or a dead process; it gives the claim back.
Due dates, attempts and policies are nondeterministic there: they are the
executor module's business.

In `Registration` a row belongs to the session that inserted it until that
commits. An insert of a key somebody else has inserted waits, and raises if
that one commits; `get_or_create_workflow` lets the error out,
`register_version` answers `DefinitionAlreadyRegisteredError`, or, after a lost
insert, lets out whatever SQLAlchemy makes of `workflow.key` on a row of the
failed session. The refinement
mapping publishes a slot when its version row is committed, with the plan its
stage rows make.

In `SchemaMigrations` a command is one transaction over all its revisions, as
`env.py` configures alembic. `EnqueueAgain` is the running program's part: the
second queue row of an execution, which revision e85ae5cf68b0 exists to allow
and its downgrade cannot survive.

In `ModelRouter` a call's record holds the locals of `complete()`: candidate,
attempt, the failures so far. A caller with a recorder ends by `Commit` or
`Rollback` of the session its recorder writes in. A run of a capability
(`RunStage`, `EndStage`) has no recorder and no retry policy.

An operator named `X_Variant` (`Finish_StaleRow`, `Write_Unlocked`, ...) is
`X` with a plausible bug. Nothing uses it: PROJECT.json pairs each one with the
property that TLC finds violated when it takes the place of `X`, which shows
that the property depends on the code's detail.

## 3. Runs

| Run | Expect | What it shows |
|---|---|---|
| `executor` | pass | a stage retried up to twice, behind which a gated stage and a skippable one are ready side by side; all operations in any order: 13 properties |
| `timeouts` | pass | a first stage and behind it three that can be left RUNNING, one per on_timeout action; retry attempts can be left RUNNING too, so the exhausted retry is reached |
| `worker` | pass | lint, a gated deploy behind it and a test retried once; two workers, one crash, requests at any time; `OneLiveEntry`, the contract (`ImplementsContract`) and two liveness properties |
| `sessions` | pass | two sessions, any two of a worker's tick and the requests, interleaved statement by statement on two stages: no overlapping run, none before its decision, none stranded, one end, and an entry let go of only at rest (`NeverDropped`) |
| `registration` | pass | two callers register eight payloads under two versions, dying anywhere: validation is right, the tables implement the catalog, every caller is answered truly |
| `schema` | pass | any upgrades and downgrades between any revisions, with failures and crashes: tables and revision agree, head is what the classes declare, and only duplicate queue rows make a command fail |
| `usage` | pass | two calls or runs over three profiles and an unknown key, with failures, deactivation, late profiles, commits and rollbacks: earned outcomes, a true ledger, runs that report, reports that agree |
| `executor_rollback` | violation | a refused rejection has already run the rollback hooks |
| `executor_approval` | violation | after `resume` on WAITING_APPROVAL the stage cannot be approved |
| `worker_resume` | violation | an approved execution is RUNNING with no queue entry |
| `worker_race` | violation | a worker that read PAUSED marks its entry DONE after a resume committed RUNNING: nobody drives the execution |
| `sessions_end` | violation | a session that read the execution before another committed its end writes its own status over it |

The five violations are disagreements between the code and its documentation,
comments or tests; PROJECT.json quotes both sides.

### Bounds

- Executor: three or four stages, enough for a fork, two stages ready at once,
  one gate with something before and beside it, and two completed stages of
  which one depends on the other when a third fails.
- `MaxTime` 4, 5 and 1 seconds (executor, timeouts, worker): the clock goes on
  past it while a retry is scheduled, so no backoff is cut off; stranding is
  only allowed when the timeout can still pass. Every backoff and timeout in
  the instances is one second or two, so the boundary (`>` and `<=`) is crossed.
- At most two retries per stage: the first retry, one after a longer backoff,
  the cap on the backoff and the exhaustion all happen.
- `MaxRollbackCalls` bounds how often a refused rejection repeats, `MaxCrashes`
  the crashes: one crash at each point of an iteration.
- Sessions: two, since every race of this code is one of two transactions; two
  approval ids, so that both ticks can insert one for the gated stage. Sessions
  and approval ids are symmetric in `sessions`, which checks safety only.
- Registration: one workflow key and two versions, so that callers collide on
  the workflow, on the version or on neither; payloads with a chain, a join,
  cycles of one, two and three stages, one behind a root, and each other refusal.
- Schema: no bound; there are six revisions.
- Usage: two calls used once each (a third adds no pair of sessions), a chain
  with an unconfigured provider between two usable models, one with an unknown
  key, and the empty one; one retry; token counts whose prices fall below and
  above half of the ledger's last digit; `MaxTime` 1, which gives two adjacent
  windows.

### Fairness

`LoopSpec` assumes weak fairness of claiming and of finishing an iteration
(`main.py` calls `run_iteration` in an endless loop; each statement of an
iteration that the model has is followed by the next), of finishing a creating
request, and of time. No request is obliged to happen, no crash is obliged to
happen or not to (`MaxCrashes` bounds them). Under it a submitted execution is
started or cancelled (`SubmittedIsStarted`), and one that is RUNNING and
`Driven` stops being RUNNING or waits for a human (`DrivenSettles`). `Driven`
means an entry in the queue, or a worker that has one and has not read the
execution yet or has read RUNNING; a worker that has read PAUSED will let go,
whatever was resumed meanwhile, which is the finding of `worker_race`. Deadlock is not checked: an execution that ended stops.

`Registration` assumes strong fairness of each caller's next statement: a
handler goes on unless its process dies, and PostgreSQL queues the waiters of a
row, so an insert that is enabled again and again is made in the end. Its run
does not check deadlock, since callers may stop coming. `usage` does not either:
its calls are used once.

## 4. Faithfulness notes

- A dependency that is FAILED or CANCELLED is never done; the code has the same
  test (`_DONE_FOR_DEPENDENCY_PURPOSES`).
- Seconds are whole; the code's are floats and datetimes of one clock.
- `failure_handler`, entry and exit conditions and rollback rules are validated
  by `definition.py` and read by nothing, so only the check of
  `failure_handler` is modelled. A capability's own timeout and retry policy
  (`capability_registry/.../definition.py`) are read by nothing either.
- RETRYING and ARCHIVED of an execution are in the table and no operation moves
  an execution there.
- `ExecutionSessions` has one live entry and so one worker's iteration at a
  time, which is `OneLiveEntry` of `WorkerLoop`. Lock waits that form a cycle end by `Abort`
  of either session, as PostgreSQL's deadlock detection does.
- In `ModelRouter` another call may come between two steps the code takes
  without an await. No property can tell: a call's steps read only `active`,
  which they could as well have read before.
- Nothing in the product passes a recorder to `complete()`, calls `deactivate`
  or builds a `CapabilityStageRunner`; the tests and the packages' interfaces
  do, and the modules model what those callers may do.
  docs/architecture/06-model-router.md:49 says every routed call writes a
  ledger row; the runs of capabilities write none.
- A timeout is a failed attempt, as in the code. Money is counted in hundredths
  of a millionth of a dollar, and a ledger row rounds half up to the millionth.
- Reports are scoped by project; the organization's are the same filter.
  Windows are inclusive at both ends in the code, so the model's adjacent
  windows end at t - 1 and begin at t: two windows that share an endpoint would
  both count a row of that instant, and `ReportsAgree` says nothing of them.
- docs/architecture/03-workflow-engine.md:79 says that state checkpoints after
  every node, so that a crash repeats the current node at worst. The code
  commits once per iteration (loop.py:48), so a crash repeats every stage of the
  tick; `Crash` models that, and no run restates it.
- The schema's column types, defaults, check constraints and plain indexes are
  left out.

## 5. Proofs

Every theorem holds for any values of the constants (the schema has none) that
satisfy the named assumptions, which are those the code's validators and types enforce and which
TLC evaluates in the runs.

**WorkflowExecutorProofs**: the properties of the `executor` run
(`FailureRollsBack` has its own module), and the refinement. The assumptions
are `DefinitionAssumption` (what `definition.py`'s validators accept: known
dependencies, no cycle) and
`PolicyAssumption` (what `policies.py` accepts, and that the backoff of an
allowed retry is a number: exponentiation is opaque to the provers). The
inductive invariant is `Safe`, the conjunction of the type invariant and eight
safety invariants. They need one another:

- a resumed stage was waiting, because an undecided approval belongs to a
  waiting or cancelled stage (`OneApprovalPerWait`). Without it an approval
  could run a stage that is PENDING (breaking `DependencyOrder`) or RETRYING
  (breaking `BackoffRespected`);
- a gated stage that is retried has been run, hence resumed: `ApprovalGate`
  needs `RunAccounting`;
- no FAILED or CANCELLED stage is left in a RUNNING execution
  (`OutcomeAgreement`), so the minimal undone stage that an acyclic graph always
  has can move: `NeverStuck`.

There are more actions than kinds of effect, so the proof goes through two
lemmas: `StageEffect` (any step moves a stage in one of six ways, each with its
precondition) and `StatusEffect` (any step keeps the status, goes on, or ends
the execution with a metric row). Each invariant is then preserved by the
moves, independently of the actions. `EndsAreFinal` and `BackoffsAreRespected`
are action properties that follow from the same lemmas.

`ContractKept` proves `Spec => ImplementsContract`. The mapping reads the
outcome off the status and the three sets off the stage and approval rows.
`StepKinds` separates `skip_stage` and `cancel()` from everything else; any other
step either changes nothing the contract speaks of (always so after the end, by
`EndedStep`) or is one `Work`: what is newly completed was run by `Ran`, so its
dependencies were done (`DependencyOrder` for a retried or resumed stage), and
it was let through if it is gated (`ApprovalGate` after the step).
`ContractKeptInLoop` carries this over to the composed system: every step of
`WorkerLoop` is the executor's or leaves its rows, and a crash maps to a stutter,
since RUNNING and PENDING are the same outcome.

**RollbackProofs**: `FailureAlwaysRollsBack`. `RollbackOrder` walks the
definition's list by a recursive function. That the function exists, and that
after i stages it has collected those of the set among the first i, later ones
first, holds because there is no least position at which it fails
(`EveryPosition`, from the well-foundedness of <). Hence its length is the number
of completed stages and, if `ListedInOrder`, a dependent precedes what it depends
on. Nothing in `definition.py` makes the list a topological order, so that
hypothesis is part of the property. `RolledBackLast` is inductive: in a FAILED
execution the calls end with `RollbackOrder` of what is completed now. A refused
rejection appends the same calls again, and after the end nothing becomes
COMPLETED or stops being so. `RollsBackInLoop` is the same of the composed system.

**WorkerLoopProofs**: `LoopTypes`, `OneEntry` and `SafeInLoop`, for any number
of workers and crashes; `LoopAssumption` says that no worker is called like a
request. An entry is created only while there is none: submitting needs a DRAFT
execution, and no step makes an execution a DRAFT again; re-enqueueing needs the
one entry that was claimed, and a worker that has read the execution holds one.
`SafeInLoop` carries the executor's eight invariants over to the composed
system: its steps are the executor's (`SafeStep`), except a crash, which changes
no stage and takes the status from RUNNING back to PENDING at most, because an
open worker's transaction holds nothing but a start.

**ExecutionSessionsProofs**: `SessionsTypeOK`, `RunsDoNotOverlap`,
`NeverStranded` and the action properties `OneEnd` and `NeverDropped`, for any
number of sessions, stages and approvals. The invariant says who owns an
uncommitted row: a session at "run" owns the row of its stage and has written
RUNNING there; a session past `End` owns the execution row; a session past
`Record` owns the metric row. A lock has one holder, so two runs of one stage,
or two ends, exclude each other.
`DecisionsComeFirst` (`DecidedBeforeRun`) adds `DecisionInv`: a decision backs
every stage that was run, wherever that is committed, written or merely read.
The decision is committed, or it is the same session's own and is committed or
rolled back with the run. It needs what a session has in hand: an APPROVE has
decided before it reads, and no other operation runs a stage it has seen waiting.
`LetsGoAtRest` (`NeverDropped`) adds `EntryInv`: the copy a session has of an
execution it has written is what it wrote, and a worker past its start has no
PENDING copy. So a worker that commits without enqueueing commits the status at
rest it has written itself, or read one at rest; in the second case it had let
go when it claimed the entry, and at that moment the status was the committed one.

**RegistrationProofs**: first the graph (`GraphValidation`): Kahn's loop accepts
exactly the acyclic graphs. `resolved` is closed under dependencies and
`remaining` is its complement; if no remaining stage is ready, `remaining` is
itself the set without a minimal member that shows the cycle; if none remains,
the lowest level a set of stages meets holds a minimal member of it. Then the
composed module: the types, `ValidatedCorrectly`, `AnswersHold`, and
`Refinement`: every step of the three tables is a `Publish` of the catalog or a
stutter. Only `Commit` publishes; it needs that the stage rows of a session at
"commit" are those of its definition and that the definition was accepted.

**SchemaMigrationsProofs**: `SchemaFollowsRevision`, `HeadFollowsModels`,
`OnlyDuplicatesEverFail` and the action property `UpgradesNeverFail`. There is
no parameter and nothing is assumed; what the proofs add to the complete run is
the reason, and a repetition that a seventh revision can extend. The invariant
`MigrationInv` says that the tables a command has in hand are among those the
upgrades alone go through: before statement k of upgrade r they are those after
k - 1 statements, and a downgrade goes through the same tables backwards. It
rests on `ScriptFacts`: each statement of an upgrade fits the tables it finds
(`FittingRuns`: then it runs), and statement n + 1 - k of the downgrade reverses
statement k of the upgrade (`ReverseRestores`, and `ReverseRuns`: it is refused
only as a repeated unique key). Dropping a table restores what was there before
it only because no other table names it, which is why the tables are `Sound`:
every foreign key names a table that is there. `ScriptsFit` proves the facts
of the six revisions, one lemma each; a script that only makes tables
(`CreationsRun`) keeps the others, so at the end each is as its class declares
it, after the two that revisions 3 and 4 alter (`HeadTables`). That
`TablesAfter` and `SchemaAt` are the functions their recursions say is shown by
the least number at which they would not be (`EveryNumber`).

**ModelRouterProofs**: `RoutedAsEarned` (`OutcomeIsEarned`) and `RunsReported`
(`StageRunsReported`), for any calls, chains, policies and profiles. The chain
invariant adds how far an asking call is: its attempt counts the failures of its
candidate, at most the retries; a candidate behind it was given up for good,
because a profile once unusable stays so. A run past its checks has a flaw of
its output at most.

**UsageReportsProofs**: `LedgerIsAnswers` (`LedgerMatchesAnswers`): the rows a
call has flushed are its own, at its price and its time, at most one, and they
are in the ledger exactly when its caller has committed (`LedgerInv`, with the
chain invariant). `ReportsAlwaysAgree` (`ReportsAgree`) is about sums over
arbitrary finite ledgers: that the recursion which adds them up has a solution
and that a sum does not depend on the order is shown by a minimal subset that
would contradict it; then the sum of a union of disjoint sets is the sum of the
sums, which gives the breakdown by model and the adjacent windows. The
breakdown agrees with the total only because every row's profile is saved, which
is `LedgerInv`'s part.

Assumptions on constants are those of the modules: `DefinitionAssumption`,
`OrderAssumption` (a definition lists each of its stages once),
`PolicyAssumption`, `LoopAssumption`, `RowAssumption` (what a row is, and that
gated stages are stages) and `RouterAssumption` (registered models are
models; prices, tokens, retries and the clock's bound are natural numbers).

Only model-checked: liveness, which is out of the provers' reach
(`SubmittedIsStarted`, `DrivenSettles`, `AlwaysAnswered`). Every invariant and
every action property of a passing run is a theorem. The properties of the five
violation runs are false of the code and have counterexamples instead.

## 6. What is left

Priorities among executions in the queue and `queue_depth`; a refinement from
`ExecutionSessions` to the one-transaction view for the operations that do not
overlap; the supersession of architecture decisions.

## 7. Not modelled

- The event bus: no subscriber in the repository changes state.
- The memory engine: single statements, and search; `supersede`, its one
  read-then-write, is called by nothing but its tests.
- The integrations: GitHub's HTTP interface, with nothing kept.
- Accounts: requests of one or two rows each, guarded by unique keys; the
  engine reads them only in the membership check before a request.
- The reads, views and authorisation checks of the workflow API; the worker's
  sleep and signal handling; the in-process `WorkflowRegistry`, which no service
  uses; the file loader.
- The registries of capabilities, prompts and profiles as such (write-once
  dictionaries); the model adapters' HTTP.
- Workflow metrics (a share or a mean over metric rows) and the DORA metrics
  (stubs that answer NOT_AVAILABLE).
- Web app, SDK packages, infrastructure: stubs and configuration.
