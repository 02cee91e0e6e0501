# TLA+ models of careerops-agent

This directory specifies the parts of careerops-agent whose correctness depends
on the order of database commits and checkpoints, or on limits that meet: who
may call a tool and when its handler runs, what happens to a call or a run whose
process died, how a memory gets a new version and loses its text, how the two
workflow graphs go on after an interruption, and how a model request is made to
fit its window. TLC checks small instances; TLAPS proves the safety properties
that matter most for every value of the constants. Module and action names
follow the Python functions.

## 1. The system

careerops-agent is one FastAPI process (or several on one database) over
SQLAlchemy and SQLite. Requests, background workers and recovery calls are
*sessions*: they share nothing but the database. Every `session.commit()` is a
point where another session may run and where the process may die.

| Component | State it keeps | Operations | Hard behaviour | What makes it correct |
|---|---|---|---|---|
| Tool runtime (`services/tool_runtime.py`, `tools.py`, `replay_fixture.py`) | `tool_call_records`, fixtures | `run_tool_call`, `_replay_or_conflict`, `_execute_authorized_record`, `retry_persisted_tool_call` | concurrent requests under one key, a crash between two commits, an effect (external or internal) that is committed before its result | one request per key, a result is final, a handler runs again only because somebody died over it |
| Tool recovery (`tool_recovery.py`) | `status`, `reconciliation_status`, `provider_operation_id` | scan, `recover_tool_call`, reconcile | recovery of a call that is still alive, late or missing provider answers | a write is repeated only when the provider does not have it; every interrupted call is settled |
| Approval and policy (`tool_approval.py`, `authorization.py`) | `tool_approvals`, `tool_authorizations`, `task_policies` | grant, lapse, consume, authorize, update policy | races for one approval, expiry between read and use | one approval pays for one execution |
| Lease and workers (`agent_run_lease.py`, `agent_run_worker.py`) | `lease_owner`, `lease_expires_at` of `agent_runs` | acquire, renew, release, submit, startup recovery | a slow owner outlives its lease | one owner at a time; stale runs are taken over |
| Agent engine and run recovery (`agent_loop.py`, `agent_run_recovery.py`) | `agent_runs`, `agent_run_steps`, memories | model step, tool step, finish, recover | a crash between decision, tool call and observation; a former owner that goes on | no step lost or repeated, a terminal status is final |
| Workflow graphs (`agent_workflow.py`, `learning_graph.py`, `checkpoint_versioning.py`) | LangGraph checkpoints, task and plan status | start, resume, migrate | a crash between two nodes | an interrupted graph can be resumed and evaluates once |
| Memory lifecycle (`memory_evaluator.py`, `memory_versioning.py`, `memory_lifecycle.py`, `memory_maintenance.py`) | memories, versions, candidates | evaluate, supersede, promote, retire, expire, consolidate, purge | two writers on one fact, maintenance against completion | one active version, provenance kept, retired is final |
| Context (`memory_runtime.py`, `token_budget.py`, `context_compaction.py`, `hybrid_retrieval.py`, `retrieval_*`) | none (pure), one cache | rank, select under a budget, compact | limits met exactly, ties | the budget is respected, protected items survive |
| API control plane (`main.py`) | tasks, plans, goal contracts, archive | create, activate, archive | concurrent creation | one active contract, one archive entry per content |

How they interact: the API and the engine call the tool runtime; the tool
runtime asks `authorize_tool_call`, which consumes approvals; an AgentRun
recovery passes the call of the last step to tool recovery; every path into the
engine takes the lease of the run; the outer graph calls the engine as its
`run_agent` node; the engine builds one model request per decision, writes
working memories and, on completion, promotes them through the evaluator and
maintains the memories of the task.

## 2. Plan

| Order | Module | Content | Status |
|---|---|---|---|
| 1 | `ToolRuntime`, `MCToolRuntime`, `ToolRuntimeProofs`, `ToolSerialProofs` | the core: one tool call under racing, dying and recovering sessions | done |
| 2 | `AgentRuns`, `AgentLoop`, `MCAgentRuns`, `AgentRunsProofs` | one run: lease, heartbeats, workers, engine, recovery; it implements the sequential agent `AgentLoop` | done |
| 3 | `MemoryLifecycle`, `MCMemoryLifecycle`, `MemoryLifecycleProofs` | the memories of a task: candidates, versions, promotion, maintenance, purge | done |
| 4 | `LearningGraph`, `AgentWorkflow`, with their proofs | the two LangGraph threads: nodes, checkpoints, start, resume, recovery, migration | done |
| 5 | `ModelRequest`, `ModelRequestProofs` | one request: ranking, selection under a budget, compaction | done |
| 6 | `WorkflowSystem`, `MCWorkflowSystem`, `WorkflowSystemProofs` | 4 and 5 together: the engine of the outer graph builds the requests | done |
| - | goal contracts, plan steps, job archive | | left out, section 11 |

`AgentRuns` composes the engine with the lease and reduces a tool call to its
interface; `ToolRuntime` is the detail of that call. `AgentWorkflow` reduces the
lease and the engine to what `AgentRuns` shows of them: executions exclude each
other (`OneExecution`) and the engine ends a running run (`RunEnds`).
`WorkflowSystem` puts the steps of `ModelRequest` in the place of the engine.
`MemoryLifecycle` is the detail of the memories that `AgentRuns` has as
`working` and `promoted`.

## 3. `ToolRuntime`: one tool call

The state is ONE row of `tool_call_records`, the row that `(task_id,
idempotency_key)` identifies, with the approvals, fixtures, authorizations and
handler invocations that belong to it. Rows under other keys share only the
task policy, which the model lets change at any time (`UpdateTaskPolicy`).

| Variable | Code |
|---|---|
| `status`, `attempts`, `opId`, `recon`, `fp` | `ToolCallRecord.status` (`"absent"`: no row), `attempt_count`, `provider_operation_id` (the number of the run that started the operation), `reconciliation_status`, `request_fingerprint` |
| `lastAuth`, `allowed` | decision of the newest `ToolAuthorization`; is the tool in `TaskPolicy.allowed_tools` |
| `approvals` | `ToolApproval` rows: `"active"`, `"lapsed"` (expired, still in `active_slot`), `"revoked"`, `"consumed"` |
| `fixtures` | attempt numbers of `ToolReplayFixture` rows |
| `runs`, `effect`, `paidBy`, `snapOf` | history: handler invocations, what each did, and the approval and fixture each started from |
| `pc[s]`, `local[s]` | where session `s` stands, and what it loaded and still holds |

**Grain.** One action is one database read or one commit (or the handler call).
`InsertCall` is lines 62-87 of `run_tool_call`; `ReadPolicy`, `SelectApproval`,
`ConsumeApproval`, `RecordAuthorization` are the reads and commits of
`authorize_tool_call`, which four callers share: `local[s].flow` remembers which
(`AfterAllowed`, `AfterRefused`). `CommitAuthorized`, `LoadAttempts`,
`CommitExecuting`, `CaptureBeforeState`, `CommitFixture`, `InvokeHandler`,
`CommitResult` are `_execute_authorized_record`; `retry_persisted_tool_call` is
the same from `LoadAttempts` on. What an internal handler wrote is committed when
it returns (`Outcomes`): it runs in `session.begin_nested()` right after a commit,
pysqlite has no transaction open then, and the RELEASE of an outermost SAVEPOINT is
a commit. Its result is a commit of its own. `RecoverRecord` is the decision table,
`QueryProvider` and `Reconcile` the reconciliation. `ScanStaleCall` and
`RecoverRunCall` are the two ways into recovery; `RereadScanned` is a row that
an earlier row of the same scan expired. `Crash` ends a session at any point.

**ORM.** Sessions expire their objects on commit and read them again on the
next access, and an UPDATE leaves out a column whose new value equals the
loaded one. `Flushed(loaded, new, current)` is that rule; it decides what a
session overwrites after another one wrote the row.

**Abstracted.** Traces, wording, durations, replay counts, the policy version,
linking a call to an AgentRun step. `TaskPolicy` exists from the start with the
default tools. The tool's effect is a constant of the instance, since it never
changes for a row.

**External (assumed).** No registered tool is an external write yet; the tests
register some. Their contract is read off `execute_tool`, `ExternalOperationUncertainError`
and the reconciler type: success is reported only for an operation that took
effect, an error only for one that did not, anything else raises
`ExternalOperationUncertainError` with the operation's id (`Reports`); a query
answers about the operation it was asked for, or fails (`Answers`); an operation
in progress is finished or dropped (`ProviderSettles`).

**Time.** Ages and expiry are nondeterminism: an approval may lapse at any
moment, and a scan may pick any recoverable row, because
`stale_after_seconds` may be 0 and nothing but age protects a live call.

### Properties

| Property | Run | Says |
|---|---|---|
| `TypeOK` | `tool_external` | types; a stored row always has its fingerprint |
| `OneRunPerApproval` | `tool_external` | every invocation of an external-write handler consumed an approval, no two the same |
| `SucceededIsReal` | `tool_external` | a write recorded as succeeded did take effect |
| `OwnRequestOnly` | `tool_external` | past the fingerprint check a session works on its own request |
| `FixturePerRun` | `tool_internal` | no two runs share a before-state fixture |
| `RepeatedOnlyAfterDeath` | `tool_internal` | while one session at a time is busy, an internal handler is repeated at most once per death, and the result is that of its last run |
| `FirstRetryIsSafe` | `tool_serial` | a first retry happens only when the first attempt did nothing |
| `ResultIsFinal` | `tool_serial` | a recorded success or failure is never changed or re-run |
| `InterruptedCallSettles` | `tool_serial` | an interrupted call is settled or handed to a human |
| `UnknownIsResolved` | `tool_serial` | an unknown outcome is resolved once the provider can tell |
| `NoDuplicateEffect` | `tool_stale_operation` (violated) | an external write takes effect at most once |
| `InternalWriteIsAtomic` | `tool_internal_write` (violated) | an internal write is applied iff its success is recorded |

`FirstRetryIsSafe`, `ResultIsFinal` and `RunsMatchDeaths` (what
`RepeatedOnlyAfterDeath` promises) hold for one session at a time, which may die at
any point. `tool_serial` checks one session and an external write; `tool_internal`
has two sessions and says `[]Alone` in the property; the theorems of
`ToolSerialProofs` are about every effect and any number of sessions that follow
one another. With two at once they do not hold: recovery takes no lease on a call,
so it may run the handler of a call that is alive. That is a property of the code,
not of the model; the hazards in `PROJECT.json` name the lines.

### What the violation runs show

* `tool_stale_operation`. Attempt 1 ends with `outcome_unknown` and operation 1;
  the provider drops it and answers `not_found`; a new approval lets attempt 2
  start, which commits `executing` without clearing `provider_operation_id`;
  the process dies after the handler of attempt 2 took effect; recovery marks
  the call `outcome_unknown` and asks the provider about operation 1, which is
  still not found; attempt 3 sends the write again. TODO.md T15 promises that a
  timeout after success duplicates nothing. The first retry is safe
  (`FirstRetryIsSafe`), so a test with one retry does not show it.
* `tool_internal_write`. The handler returns, its savepoint is released and with it
  the write is committed (`tools.py:268`; `database.py:12` makes a plain engine
  without a BEGIN listener), and the process dies before `tool_runtime.py:213` or
  `:301` commits the result. The call is `executing` with its write applied, and
  recovery runs the handler again. `docs/reliable-tool-runtime.md:123` justifies that
  retry by the write and the record of success being one transaction. What does
  hold, that it takes a death, is `RepeatedOnlyAfterDeath`.

Two things that the model has and that no run is spent on:

* A call that was authorized but not started, or that waits for an approval and
  belongs to an AgentRun being recovered, becomes `outcome_unknown`
  (`tool_recovery.py:85`). The recovery table of `docs/reliable-tool-runtime.md`
  gives that action to calls that were `executing`.
* An internal write that was interrupted is settled by the same scan as an external
  one; `InterruptedCallSettles` is checked of the external one, whose recovery is the
  longer way.

### Bounds

Two sessions are the smallest number that races, and every race of the code is
between two sessions (the loser of an insert, of an approval, of a fixture).
Two approvals and two runs let a call be run, refused, approved again and
retried; one crash interrupts either side. `tool_external` has two requests under
one key, `tool_internal` one, because its properties do not compare requests.
`tool_serial` and `tool_stale_operation` allow three runs, three approvals and two
crashes, because the duplicate needs a third attempt; `tool_internal_write` needs one
session and one crash.
`MaxRuns` and `MaxCrashes` are the only counters; a session that reaches
`MaxRuns` stops before its handler, so deadlock is checked but `UpdateTaskPolicy`
always remains possible. Sessions and approvals are symmetric in
`tool_external`; the runs with temporal properties use no symmetry.

### Fairness

`WF(Continue(s))`: a session that is alive takes its next step. Nothing in the
code repeats a scan by itself, so liveness assumes the operator who repeats
`POST /agent/tasks/{id}/recover-tool-calls` (`SF(ScanStaleCall(s))`, strong
because other requests may occupy the session in between), a provider that
finishes what it accepted (`WF(ProviderSettles(r))`) and whose query does not
fail for ever (`SF(DefiniteAnswer(s))`). No fairness is assumed of approvals,
policy changes or crashes; crashes are bounded.

## 4. `AgentRuns`: one run and those who work on it

The state is ONE `agent_runs` row with its steps and its working memory, and any
number of *executions*: the inline request or pool worker the run was created
for, the startup recovery, calls of the recovery API.

| Variable | Code |
|---|---|
| `status`, `count` | `AgentRun.status`, `step_count` |
| `owner`, `fresh` | `lease_owner` (`Nobody`: NULL, `Dead`: an owner whose process ended); is `lease_expires_at` in the future |
| `steps[i]` | the `AgentRunStep` with sequence `i`: `kind` of the decision, `obs` its observation, `call` the linked `ToolCallRecord` (`"open"` until terminal), `records` how many were created for it |
| `working`, `promoted` | status of the run's working memory; did it become a fact of the task |
| `pc[w]`, `local[w]` | where execution `w` stands; how it came in (`flow`), the step it works on (`seq`), the tool result it holds (`obs`), the run status its session loaded (`seen`) |
| `beat[w]` | its heartbeat thread: `"on"`, or `"lost"` (the flag that nobody reads) |

**Actions.** `Acquire`, `ClaimRefused`, `Release`, `RenewRefused`,
`HeartbeatFails`, `LeaseExpires` are `agent_run_lease.py`. `EnterWorkflow` is
the delivery of a new run, `ScanStale`, `EnterRecovery`, `PlanRecovery`,
`LoadPendingStep`, `ReadCall`, `RecoverCall`, `RestoreObservation`,
`MarkForReview` are `recover_agent_run` and the startup scan; `ReadForFailure`,
`RecordFailure` are the worker's handling of an exception. The engine is
`FinishCommittedBoundary`, `CheckStepLimit`, `BuildRequest`, `LoadForDecision`,
`CommitDecision`, `InvokeTool`, `ToolReturns`, `CommitObservation`, `LoadToEnd`
and the three ends `CompleteRun`, `StopAtLimit`, `MarkFailed`. `Raise` is an
exception at any point where the code can raise one (`MayRaise`; everywhere if
`DatabaseMayFail`), sent to the handler of that point (`Handler`); `Crash` is
the death of a process.

**Abstracted.** Request building, wording, traces, the outer graph up to its
`run_agent` node (resumed by `LeaveEngine`). A successful `get_skill_demand` is
`"ok"`, the only result that is captured as a working memory; everything else a
tool returns, a refusal and an exception of its handler included, is `"other"`.
One working memory stands for all of a run. Time is `fresh`: a live heartbeat
renews every third of the lease, so a lease expires only without one.

**Abstract specification.** `AgentLoop` is what a reader of `agent_runs` and
`agent_run_steps` may rely on: one agent that decides, waits for one tool, sees
its result, decides again, and stops at its limit. It knows no executions, no
lease and no crash. `Log` is the refinement mapping: the kinds and observations
of the steps.

### Properties

| Property | Run | Says |
|---|---|---|
| `OneExecution` | `run_recovery` | never two executions between claim and release |
| `OneCallPerStep` | `run_recovery` | recovery never starts a second call for a step, even without call ids |
| `PromotedOnlyIfCompleted` | `run_recovery` | a task fact comes from a completed run only |
| `RunIsSequential` | `run_recovery` | the run implements `AgentLoop` |
| `RunEnds` | `run_recovery` | a run ends, whoever raises or dies |
| `TypeOK` | `run_lost_lease` | types |
| `DecisionsDurable` | `run_lost_lease` | a committed decision is never replaced, not even by an execution that lost its lease |
| `ObservedIsCaptured` | `run_restored` (violated) | an observed result is in the working memory of a running run |
| `EndedRunHasNoWorkingMemory` | `run_worker_failed` (violated) | a failed or stopped run has no active working memory |

When heartbeats fail, all properties of `run_recovery` but `RunEnds` may break:
the former owner goes on, because `lease.lost` is never read, and no write
looks at the owner. `docs/agent-run-recovery.md` names this limit (fencing
tokens are future work), so it is a precondition here and not a finding.

### What the violation runs show

* `run_restored`. A tool call finishes, its process dies before the observation
  is committed, recovery writes the durable result into the step
  (`_restore_observation`) and the loop goes on: the working memory that
  `_execute_tool` would have written in the same commit does not exist.
  README.md says successful observations are summarized for later model steps.
* `run_worker_failed`. A run with an active working memory is taken over at
  startup, recovery raises outside the engine, and `_record_failure` sets the run
  to failed without retiring the memory, which `_mark_failed` does. README.md
  says failed runs retire it.

### Bounds

Two executions are the owner and whoever takes over; a third only repeats the
second, which `OneExecutionHolds` confirms for every number. `MaxSteps = 2` has a
first step, a step after an observation and the limit. Three faults let an
execution and its successor both die or raise and a third one finish. The
two violations need one and two faults. `run_lost_lease` has one step and one
spare row (`MaxRows`) for a former owner that decides beyond the limit.
`CHECK_DEADLOCK FALSE`: a run that has ended and been released is the end.

### Fairness

`WF(Advance(w))`: a thread that can run does. `WF(LeaseExpires)`: time passes.
`WF(ScanStale(w))` is an assumption about the operator: the service scans only
when it starts, so `RunEnds` is promised to somebody who calls the recovery API
again. Faults are bounded and never fair.

## 5. `MemoryLifecycle`: the memories of a task

The state is `mem`, the `agent_memories` rows of one task with their revisions,
candidate records and cleanup records, `run`, whether each AgentRun of the task
is over, and `local[s]`, what a request or an execution has read and is about to
commit.

| Field of a row | Code |
|---|---|
| `key` | `AgentMemory.key` up to what its formats tell apart: the run's outcome, the run's working memory, the task's skill demand, user input, a note |
| `source`, `scope`, `run`, `status`, `content` | the columns; contents are texts up to normalisation, or `Purged` |
| `expires` | `expires_at`: NULL, in the future, or passed (`Expire`) |
| `version`, `revs` | `AgentMemory.version` and the `MemoryVersion` rows; `open`: `valid_to` is NULL |
| `payloads` | how many of its `MemoryCandidateRecord`s hold a text |
| `cleaned` | it has a `MemoryCleanupRecord` |

**Grain.** SQLite's write lock starts with the first write of a transaction and
lasts until its commit. What a handler reads before that is from an earlier
state; what it reads after it is current. So a handler that uses a read from
before its first write is two actions: `LoadRetire`/`LoadTaskEnd` and
`CommitRetirement` (`retire_agent_memory`, the end of a task), `LoadMaintenance`
and `CommitMaintenance`, `LoadRunEnd` and `CommitRunEnd` (`_stop_at_limit`,
`_mark_failed`), `LoadCompletion` and `CommitCompletion` (`_complete_run`). A
completion reads its candidates and checks the first for a duplicate before it
writes; everything after (`Store` of the fact, `Completed`, `Maintained`) sees
the rows as they are. A purge reads the candidate records of its rows
(`memory_maintenance.py:89`) before its first write, the flush at `:101`: what it
counted (`seen`) is what it takes away. `EvaluateUserInput` and `CaptureWorking` write first and
are one action. `Abandon` is a request that dies before its commit.

**Abstracted.** What the semantic judge answers is a `Judgement`; scores and
wording of the rules are whether they accept. A working memory that the runtime
captures has no `task_id`, so maintenance does not see it (`OfTask`).
`POST /agent/memories` takes any source (`schemas.py:113`); the model assumes that
no user posts as `agent_runtime`, the source by which `IsEpisode` and the code know
the runtime's episodes.

| Property | Says |
|---|---|
| `TypeOK` | types |
| `OneOpenRevision` | the versions of a memory are complete and in order, and exactly the current one is open and says what the row says, although completions supersede what others read |
| `NoDuplicateEpisodes` | two runs that miss each other's answer leave one active episode |
| `PurgeIsComplete` | no text of a purged row survives in the row or its revisions, nor in its candidate records unless the row is of user input |
| `RetiredIsFinal` | nobody's stale commit revives or rewrites a retired memory |
| `RewritesAreTrusted` | an active memory is rewritten only by a completing run that observed the demand itself |
| `RetiredEpisodesAreCovered` | automatic maintenance forgets an episode only for one that stays |
| `UserFactsStay` | `memory_user_fact` (violated): no new version replaces a fact that a user stored |

All but the last are properties of the run `memory_lifecycle`: 2 sessions, 2 runs of
the task, 2 texts, 3 rows, of which 1 from users, 2 versions, episode limit 2, and 2
accepted user inputs per row (`MaxCandidates`: the one that stores it and one that
repeats it during a purge).
Races there are between two sessions; two texts make equal and different ones;
three rows are the two episodes of two runs with a fact, or a working memory, a
fact and an episode; a fact gets a second version from the second run. The
theorems of section 10 remove all of these bounds. `CHECK_DEADLOCK FALSE`: when
all runs are over, all rows retired and purged, nothing is left to do.

Behaviour worth knowing that no document speaks about, or that one words
differently:

* A superseded fact keeps the `expires_at` of the version it replaces
  (`memory_versioning.py:50`). If that time has passed, the maintenance in the
  same completion retires the fact just stored, and since the key exists and is
  retired (`_can_auto_supersede`), no later run can store the demand.
* Working memories of a run have a `run_id` and no `task_id`. The retention
  purge looks at the task's rows (`memory_maintenance.py:35`), so it never purges
  them; `docs/memory-runtime.md:211` describes the purge of retired working and
  episodic texts without that exception.
* An evaluation that repeats the text of a row (`already_stored`,
  `memory_evaluator.py:157`) and commits between the SELECT of a purge and its flush
  leaves the text in a candidate record of the purged row;
  `memory_evaluator.py:205` protects only rows that were cleaned before. A completing
  run cannot do it: its keys are its own, and facts are not purged. User input can,
  and `PurgeIsComplete` names it, although `docs/memory-runtime.md:213` promises the
  purge of the candidates without exception.
* A rejected candidate has no `memory_id`; its text survives every purge
  (`memory_maintenance.py:89`). `PurgeIsComplete` is about the records of a row.
* Maintenance that planned with a smaller state may retire more than its limit
  asks for, and of two purges of one row the second request fails as a whole.

### What the violation run shows

`memory_user_fact`. A user stores a fact under `task:{id}:skill-demand`; a run
observes the demand and completes; `_can_auto_supersede` (`memory_evaluator.py:639`)
looks at the source of the candidate and not at the source of the row, so the fact
gets a new version with the run's text. `docs/memory-runtime.md:66` says that user
facts refuse to be overwritten. What does hold is `RewritesAreTrusted`. The instance
is that of `memory_lifecycle` with one session and one run.

## 6. `ModelRequest`: one request within its window

The state is `req`, what the request is made of, and `job`, how far
`AgentLoopEngine._build_request` has come: `measure` (the protected base),
`rank`, `select`, `compact`, `shrink` (the loop of `_compact_observations`),
`check`, then `built` or `refused`. Each loop iteration of the code is a step.
The steps are `Measure`, `Rank` (`rank_hybrid_documents` per channel, whose
embedding call may fail), `TakeCandidate`, `SkipCandidate`, `LeaveChannel`
(`_select_under_budget`), `KeepObservations`, `TrimObservations`,
`AcceptCompaction`, `DropOldestRetained`, `DropPreviews`, `DropItem`,
`GiveUpSummary` (`compact_agent_context`) and `CheckRequest`
(`context_token_budget`).

**Abstracted.** Sizes are estimated tokens and add up. The estimator counts
bytes of the JSON text, so real sizes differ by separators and by the digits of
the metadata; the first message of a list pays `Overhead`, which outweighs them,
and the method text shrinks from `not_run_budget_zero`, so a real request is not
larger than the model's. `trim_messages` is a library: which suffix it keeps is
a choice. Observations are what `tail` says of them, with any sizes. Fusion
scores are whole numbers of `Unit`, of which every 1 / (60 + position) is a
multiple (`UnitAssumption`; `workflow_request` takes 61 * 62 * 63, for three
documents). The code adds 64-bit floats, whose rounding may break a tie between
documents that trade their positions; the model breaks it by key. Where no ranking
in use disagrees the sums differ by far more than a rounding.

| Property | Says |
|---|---|
| `RequestTypeOK` | types |
| `RefusedOnlyIfBaseTooBig` | a request is refused only if its protected part alone exceeds the window; what is built is within it |
| `RankingKeepsAgreement` | what all rankings in use agree on is the order of the candidates, also when one channel's embedding fails |
| `SelectionIsMaximal` | nothing that was passed over would still fit: a large candidate does not end its channel |
| `CompactionIsFrugal` | no observation is given up that would have fitted, and the summary goes only if not even its frame fits |

Under a budget that nothing fits, the newest observation too is only in the
summary, or nowhere (`context_compaction.py:204`).

The run `workflow_request` checks them for 12 requests: two sets of documents
with ties, a hidden and an unranked document, one larger than any budget, and a
channel in which the best candidate does not fit; windows below, at and above
the base with room for none, some and all; none, two and three observations.

## 7. `AgentWorkflow`: the outer graph of a run

The state is the status of ONE run, `queued` (its creator has yet to execute
it), `flow` (the newest checkpoint of its thread: version, next node, history,
the status it has seen, its errors), `exec` (the execution that holds the lease),
`migrator[m]` (the node a migration has read).

Actions: `Execute` and `WriteInput` (`execute_agent_workflow_run`),
`ClaimStaleRun`, `PlanRun`, `MarkRunForReview`, `ResumeOuter`
(`recover_agent_run`, `resume_agent_workflow_if_interrupted`), `EngineEndsRun`
and `EngineReturns` (the engine seen from outside), `StartEngine`,
`SaveRunAgent`, `RunWorkflowNode` (the nodes; each ends in a checkpoint),
`ReadToMigrate`, `UpdateMigrated` (`migrate_agent_workflow_checkpoint`),
`ProcessDies`, `GraphRaises`. A migration takes no lease, so its two steps run
between any others. An execution of the run's creator runs the engine inside the
graph; a recovery runs the engine first and lets the graph go on after it.

**External.** LangGraph: an invocation works on the checkpoint it loaded, and
writes one after each node before it starts the next.

| Property | Says |
|---|---|
| `WorkflowTypeOK` | types |
| `WorkflowAgreesWithRun` | the verdict of the graph is about how the run ended |
| `OldWorkflowWaits` | a thread of another version moves by migration only, and the engine does not work on its run before |

Behaviour worth knowing:

* If the process dies after the engine's last commit and before the checkpoint
  of `run_agent`, the graph is never evaluated: recovery looks at running runs
  only (`cut`).
* Before the first checkpoint there is nothing to resume, so a run recovered
  then ends without an outer graph.
* A creator that was queued for long restarts the thread that recovery advanced
  (`WriteInput` overwrites it).
* A thread of another version sends its run to `needs_review`
  (`agent_run_recovery.py:115`), which no recovery leaves. A migration after that
  changes the thread, and nothing continues it.
* Two racing migrations can move a workflow that has ended back to the node that
  the slower one read (`agent_workflow.py:260`). The verdict still agrees.

## 8. `LearningGraph`: the plan of a task and its review

The state is the newest checkpoint `thread` (history, validation errors, the
recorded decision, whether it waits), `task` (the status of the AgentTask),
`pc[s]` and `local[s]` (where a request stands, the state its invocation works
on), `decisions` (what users submitted). An old thread comes with the status that the
graph gave its task: waiting, blocked, or still a draft.

Actions: `ReadForStart`, `ReadForResume`, `ReadForMigration` (the checks before
the graph is called), `UpdateState` (`update_state` of a migration),
`InvokeStart`, `InvokeNewest`, `RunNode`, `Interrupt` (the nodes and the pause),
`Report` (`_graph_result`, a second read of the newest checkpoint), `CommitTask`
(the handler in `main.py` sets `task.status`; a value equal to the one loaded is
not written), `PatchTask` (`PATCH /agent/tasks/{id}`, which reads the task and sets
any status, `Settable`), `DieInRequest`. What a plan contains is abstracted to whether it
validates.

| Property | Says |
|---|---|
| `LearningTypeOK` | types |
| `ThreadIsConsistent` | starts, answers and deaths in any order leave a history that fits the place of the thread; two racing migrations are excepted |
| `CompletionHasSource` | a task becomes completed only by a status request that says so, or after somebody approved its plan: the two sources that `docs/memory-runtime.md:62` names |
| `OldThreadsWait` | a thread of another version moves by migration only, and stays at its review |
| `GraphWaitsOrEnds` | a thread comes to its review or its end unless a request died |

Behaviour worth knowing:

* A request that dies between two nodes leaves a thread with values;
  `start_learning_graph` then only reports it (`learning_graph.py:184`), so it is
  continued by nothing. The same after a death between `update_state` and
  `invoke` of a migration (`:262`). That is why `GraphWaitsOrEnds` names deaths,
  and it shows that there is no other way to get stuck.
* Two racing migrations can bring a completed thread back to its review, with
  the decision it already holds.
* Approval and rejection of one review at once: either may be used, and both
  requests report the newest checkpoint, whichever it is.
* A status request overrides the graph and the graph a status request, whichever
  commits last; a patch to `completed` needs no approval, and a task completed by it
  becomes blocked when its review is then rejected. `create_agent_plan` (`main.py:430`)
  sets `"planning"` in the same way.
* `completed_at` is a column of its own and, like the status, written only where a
  request changes what it has loaded. Two requests at once may leave it at odds with
  the status (`main.py:390`). Nothing decides by it; it is not in the model.
* A start that read an empty thread resets it when it invokes late; the start's
  handler then overwrites `task.status` (`main.py:766`).

## 9. `WorkflowSystem`: the graphs and the requests together

`AgentNext` refines `EngineEndsRun` of `AgentWorkflow`: inside the engine, it
starts a request (`StartRequest`), builds it (`Build`), and the model answers
with a tool (`RunTool`), an answer, or nothing (`EndEngine`); the limit, a
refused request and an exception end it too (`EndReason`). The learning thread
of the task and the thread of the run share no state; `focus` says at the start
which of them takes steps, so that TLC explores the sum of the two and not their
product. The theorem `SystemImplementsItsParts` shows that nothing else is lost:
the system implements the specifications of its parts.

`WorkflowSettles` is its own property: a run ends and its graph with it, unless
the run waits for a review, there never was a checkpoint, or an execution was
lost after the run's last commit (`cut`). All properties of sections 6, 7, 8 and
this one are checked by the run `workflow_request`.

**Bounds.** Two requests on the learning thread (two answers, an answer and a
start, a migration), one status request to `completed` or back to `draft`
(`MaxPatches`, `Settable`: one status that the graph also sets and one that it never
sets; the others behave as `draft`), one migration, one death; two migrators, two faults of executions (an
execution and its successor), one tool step before an answer or the limit, the 12
requests of section 6. `CHECK_DEADLOCK FALSE`: an ended graph is the end.

**Fairness.** `LearningFairness` is `WF(Handle(s))`: a request that is not dead
runs on. Users are not fair: nobody has to answer. `WF(GoesOn)`: an execution
runs on, the model call returns or fails, and, as in section 4, an operator or a
restart scans for stale runs. Deaths, exceptions and migrations are bounded and
never fair.

## 10. Proofs

### `ToolRuntimeProofs`

For every set of sessions, requests and approvals and every bound, from
`ConstantsAssumption` only:

| Theorem | Argument |
|---|---|
| `CallInvariant`, `TypeCorrect` | `CallInv` adds to the types what a session holds: past `insert` the row exists and carries the session's request; a session at `finish` names a run that started; an answer `"succeeded"` is about an operation that was applied. `Evolves` states what no step undoes, so every *other* session keeps its part of the invariant (`SessionMoves`). |
| `SucceededIsRealHolds` | part of `CallInv`: the three writers of `succeeded` are the handler's report, the provider's answer and the flush rule. |
| `OwnRequestOnlyHolds` | follows from `Fits`. |
| `OneRunPerApprovalHolds` | `ApprovalInv`: between consuming an approval and invoking the handler, a session holds an approval that is consumed, has paid for no run and is held by no other session. The conditional UPDATE gives it out once, `InvokeHandler` spends it, replays that need no approval never reach the handler. |
| `FixturePerRunHolds` | `FixtureInv`: the same argument for the fixture a session has committed and not yet used, from the unique constraint. |

### `ToolSerialProofs`

For every set of sessions, requests and approvals, every bound, every effect, with
and without a reconciler, while `Alone` holds: at most one session is inside a
request. A session may die at any step and leave the row to the next one, which is
what recovery is for. `Alone` is a condition on behaviours (`Spec /\ []Alone`), not
an assumption on constants; `OneSessionIsSafe` drops it for one session, the
instance that `tool_serial` checks. Of an AgentRun's own
calls, `OneExecution` gives it between the executions of the run.

| Theorem | Argument |
|---|---|
| `SerialInvariant` | `SerialInv`. None of the three properties is inductive: that the handler may be called again is decided many commits before it is called. `Clear` says that it may (no earlier call had an effect that the provider still has, or may still have); `Stands` says for each program point what the session there may rely on, and `Owes` why it asked for authorization: from `outcome_unknown` the way leads to the handler only through the answer `not_found`, which makes the row `Clear`, and a row that was never started is `Clear` in every status a session can leave it in (`RowPart`). Only the busy session's part matters, the others are idle (`BusyMoves`, `IdleMoves`); one lemma per action. |
| `FirstRetryIsSafeHolds` | part of `SerialInv`. |
| `RepeatedOnlyAfterDeathHolds` | `RunsPart`: of the runs of an internal handler, each is recorded, about to be recorded by the session that made it, or one over which a session died. So while the call is open and nobody is at `finish`, there are no more runs than deaths, and the next run adds one. |
| `NoBlindRetryHolds` | without a reconciler an external call runs once: `Clear` then means that it never ran. |
| `ResultIsFinalHolds` | over a settled row no session stands at a step that writes the status or calls the handler (`ContinueIsFinal`). |

### `AgentRunsProofs`

For every set of executions and every bound, from `ConstantsAssumption`; the
theorems marked (H) also assume `Healthy`, that is heartbeats and a database
that do not fail (`~DatabaseMayFail`), as in `run_recovery`.

| Theorem | Argument |
|---|---|
| `TypesHold` | `TypeInv` adds `SeqOK`: an execution that works on a step names one. |
| `OneExecutionHolds` (H) | `SoleInv`: an execution inside owns the row, and while the run is running its heartbeat is on and the lease fresh. So nobody else's claim matches the row (`Acquire`), the lease cannot expire, and what an execution does inside leaves the lease alone (`StaysInside`). |
| `RunIsSequentialHolds` (H) | `StageInv`: what the execution inside knows at each program point, for example that before an end is committed the run is still running and that a held result belongs to the last step. It is inductive because the others are outside (`OthersAt`, from `SoleInv`). Every step then maps to a step of `AgentLoop` or to a stutter (`NextLoop`, one lemma per kind of action). |
| `PromotionHolds` (H) | every end starts from a running run (`StageInv`), so nothing follows the completion that promoted. |
| `OneCallPerStepHolds` (H) | `CallInv`: a step has as many records as it links calls, and a handler is started only for a step that links none. |
| `StepsWithinLimitHolds`, `RunEndsOnceHolds` (H) | consequences of `RunIsSequentialHolds` for `AgentRun.max_steps` and for the end of a run, proved of `AgentLoop`. |
| `DecisionsDurableHolds` | `DecidedInv`: the decided steps are the first `count` ones and a pending decision aims at most one behind. The unique `(run_id, sequence)` makes the commit an append. No lease is needed, so it covers executions that lost theirs. |

### `MemoryLifecycleProofs`

For every number of sessions, runs, texts, rows, versions and every episode
limit, from `ConstantsAssumption`.

| Theorem | Argument |
|---|---|
| `Invariant`, `TypeCorrect`, `OneOpenRevisionHolds`, `PurgeIsCompleteHolds` | `MemInv`: types, both properties, and what makes them inductive. Rows are only appended and changed in place, so ids that a session loaded stay ids; a planned purge is of retired rows that are no facts, and such rows stay so until the commit; the candidate records that the purge has seen are all there are, because only facts and user input get more, or another purge was faster; a loaded promotion is a text. Each operator on rows (`Retire`, `Store`, `Supersede`, `Purge`, ...) has a lemma that it preserves sound rows. |
| `RetiredIsFinalHolds`, `RewritesAreTrustedHolds` | by the same operators: `Retire` does not touch texts, `Supersede` needs an active fact and the candidate of a tool, `Purge` only `Purged`. |
| `EpisodesBoundedHolds`, `NoDuplicateEpisodesHolds`, `RetiredEpisodesAreCoveredHolds` | `EpisodeInv`: episodes appear only in a completion, which maintains in the same commit. That the consolidation keeps one of each text and the newest of them follows from lemmas on largest and smallest elements of finite sets of numbers, which the cover (the newest episode with a text, then the newest of those) needs. |

### `LearningGraphProofs`, `AgentWorkflowProofs`, `ModelRequestProofs`

| Theorem | Argument |
|---|---|
| `LearningInvariant`, `LearningTypeCorrect`, `ThreadIsConsistentHolds`, `CompletionHasSourceHolds` | `LearningInv` with `ApprovalInv`: a checkpoint that has an approval comes from a submitted one, as does every state that an invocation still works on, and a graph request that found `completed` found such a checkpoint, so that a commit of `completed` is a patch or has an approval; `CoherenceInv`: those states are consistent too, while fewer than two migrations have updated the thread. |
| `OldThreadsWaitHolds` | requests look at the version before they invoke, and a version other than the present one is never written. |
| `WorkflowInvariant`, `WorkflowTypeCorrect`, `WorkflowAgreesWithRunHolds` | `WorkflowInv`: every checkpoint, the newest and the one an execution works on, is *sound*: all it says of the run was said after the run had ended. An ended status never changes, so saying it late, twice or after a migration does no harm. |
| `OldWorkflowWaitsHolds` | an execution inside the graph or the engine excludes an old thread (`WorkflowInv`). |
| `WorkflowEndsOnceHolds` | an execution that may still send the run to a review holds a running run (`WorkflowInv`). With `RunEndsOnceHolds` both models of a run agree on this. |
| `BuildInvariant`, `RequestTypeCorrect`, `RefusedOnlyIfBaseTooBigHolds`, `SelectionIsMaximalHolds`, `CompactionIsFrugalHolds` | `BuildInv`: the sum of what is used stays within the window (`BudgetPart`); what was passed over did not fit then, and costs more now, because the cost only grows (`PickPart`); each suffix the loop has left exceeded the budget (`CompactPart`). For all sizes, budgets and numbers of documents, from `RequestsAssumption`. |
| `RankingKeepsAgreementHolds` | a document that leads another in a ranking has fewer leaders (`LeaderIsFirst`) and the larger share (`TermDecreases`); if no ranking in use put x before y and one put y before x, y would be fused before x (`FusionKeepsAgreement`). `RankPart`: the candidates are one of the orders of the documents until the request ends. For any number of documents, from `UnitAssumption`. |

### `WorkflowSystemProofs`

`SystemImplementsItsParts`: every step of the system is a step or a stutter of
the learning graph, of the outer graph and of the requests. `SystemIsSafe`,
`SystemOldThreadsWait`: so what is proved of them holds of the system.
`RequestHasEngineHolds` is about the system itself: a request under construction
belongs to an engine whose run is running and has a step left, so that the model
decides at most `MaxSteps` times. An execution that dies takes its request along,
and what happens beside a live engine, a migration, does not touch the run.

### Only model-checked

`InterruptedCallSettles`, `UnknownIsResolved`, `RunEnds`, `GraphWaitsOrEnds`,
`WorkflowSettles` (liveness under fairness is beyond the prover) and the five
violations. Every invariant and every action property of a passing run is proved.

## 11. Not modelled

* **Goal contracts, plan steps, job archive, jobs** (`main.py`): inserts and
  field updates on rows that no decision of the runtime reads. The version race
  of goal contracts is listed as a hazard.
* **Scores** (`memory_similarity.py`, `retrieval_router.py`), **judges and model
  adapters**: numeric thresholds and HTTP. The models take any score and answer.
* **The embedding cache**: a cache under the hash of the text; a stale or missing
  entry changes a score only.
* **Ingestion, analytics, roadmap**: text extraction, counting and sorting.
* **Identity, governance, schema upgrades, debug CLI, scenario runner,
  benchmark, front end, import script**: a token comparison, static texts,
  one-shot tools, presentation. They share no state with the runtime while it works.
