----------------------------- MODULE AgentWorkflow -----------------------------
(***************************************************************************)
(* The outer graph of one AgentRun: a LangGraph thread around the engine,   *)
(* with a checkpoint after every node, entered by the execution the run was *)
(* created for and continued by recovery.                                   *)
(*                                                                          *)
(* AgentRuns is the detail of the lease and of the engine.  Here executions *)
(* exclude each other (its OneExecution) and the engine, once entered, ends *)
(* a running run (its RunEnds); migrations take no lease.                   *)
(***************************************************************************)
EXTENDS Integers, Sequences, FiniteSets

CONSTANTS Migrators,   \* calls that migrate the thread
          MaxFaults    \* bound: exceptions and dead processes

ASSUME WorkflowAssumption == MaxFaults \in Nat

VARIABLES status,    \* AgentRun.status
          queued,    \* the pool or the request has yet to execute the new run
          flow,      \* the newest checkpoint of the thread
          exec,      \* the execution that holds the lease
          migrator,  \* the node a migration has read, "done" after its update
          faults,    \* (history) exceptions and deaths
          cut        \* (history) an execution was lost after the run had ended

workflowVars == <<status, queued, flow, exec, migrator, faults, cut>>

-----------------------------------------------------------------------------
(* Checkpoints.  seen: agent_status; errors: evaluation_errors; path:       *)
(* node_history; version "none": no values.                                 *)

RunStatus == {"running", "completed", "max_steps", "failed", "needs_review"}
EngineEnds == {"completed", "max_steps", "failed"}

WorkflowNode == {"load_context", "run_agent", "evaluate_result",
                 "complete_workflow", "block_workflow"}

WorkflowCheckpoint ==
  [version : {"none", "current", "unversioned", "other"},
   next : WorkflowNode \cup {"end"}, path : Seq(WorkflowNode), seen : RunStatus,
   errors : BOOLEAN]

NoFlow == [version |-> "none", next |-> "end", path |-> <<>>, seen |-> "running",
           errors |-> FALSE]

\* _invoke_agent_workflow: the input overwrites what the thread held
WorkflowInput == [version |-> "current", next |-> "load_context", path |-> <<>>,
                  seen |-> "running", errors |-> FALSE]

\* create_agent_model returns no empty answer, so a completed run has one
Evaluated(cp) == [cp EXCEPT !.errors = cp.seen # "completed"]
RouteAfterEvaluation_Status(cp) == IF cp.errors THEN "blocked" ELSE "complete_workflow"
RouteAfterEvaluation(cp) == IF cp.errors THEN "block_workflow" ELSE "complete_workflow"

Visited(cp) == [cp EXCEPT !.path = Append(@, cp.next)]

\* The checkpoint after a node; the engine leaves the run at runStatus.
AfterWorkflowNode(cp, runStatus) ==
  CASE cp.next = "load_context" -> [Visited(cp) EXCEPT !.next = "run_agent"]
    [] cp.next = "run_agent" -> [Visited(cp) EXCEPT !.next = "evaluate_result",
                                                    !.seen = runStatus]
    [] cp.next = "evaluate_result" ->
         LET ran == Evaluated(Visited(cp))
         IN  [ran EXCEPT !.next = RouteAfterEvaluation(ran)]
    [] OTHER -> [Visited(cp) EXCEPT !.next = "end"]

\* A run that an earlier version left behind, with its thread.
Started == <<"load_context">>
Left(version) ==
  LET cp(next, path, seen) ==
        [NoFlow EXCEPT !.version = version, !.next = next, !.path = path, !.seen = seen]
  IN  {<<"running", cp("run_agent", Started, "running")>>,
       <<"completed", cp("evaluate_result", Started \o <<"run_agent">>, "completed")>>,
       <<"completed", cp("end", Started \o <<"run_agent", "evaluate_result",
                                             "complete_workflow">>, "completed")>>}

Compatible == flow.next # "end" => flow.version = "current"

-----------------------------------------------------------------------------
(* Executions.  recovers: a recovery, which calls the engine first and the   *)
(* graph after it; pooled: exceptions are recorded by the pool; state: the  *)
(* checkpoint an invocation works on.                                       *)

ExecPc == {"idle", "enter", "plan", "review", "node", "engine", "save", "resume"}
Execution == [pc : ExecPc, recovers : BOOLEAN, pooled : BOOLEAN, state : WorkflowCheckpoint]

NoExec == [pc |-> "idle", recovers |-> FALSE, pooled |-> FALSE, state |-> NoFlow]

WorkflowInit ==
  /\ \/ status = "running" /\ queued = TRUE /\ flow = NoFlow
     \/ \E left \in Left("unversioned") \cup Left("other") :
          status = left[1] /\ queued = FALSE /\ flow = left[2]
  /\ exec = NoExec
  /\ migrator = [m \in Migrators |-> "idle"]
  /\ faults = 0 /\ cut = FALSE

\* execute_agent_workflow_run, if the claim of the lease succeeds
Execute ==
  /\ exec.pc = "idle" /\ queued
  /\ queued' = FALSE
  /\ \E pooled \in BOOLEAN :
       exec' = IF status # "running" THEN NoExec
               ELSE [NoExec EXCEPT !.pc = "enter", !.pooled = pooled]
  /\ UNCHANGED <<status, flow, migrator, faults, cut>>

WriteInput ==
  /\ exec.pc = "enter"
  /\ flow' = WorkflowInput
  /\ exec' = [exec EXCEPT !.pc = "node", !.state = WorkflowInput]
  /\ UNCHANGED <<status, queued, migrator, faults, cut>>

\* A stale run, by the startup scan or by a call of the recovery API.
ClaimStaleRun ==
  /\ exec.pc = "idle" /\ status = "running"
  /\ \E pooled \in BOOLEAN :
       exec' = [NoExec EXCEPT !.pc = "plan", !.recovers = TRUE, !.pooled = pooled]
  /\ UNCHANGED <<status, queued, flow, migrator, faults, cut>>

\* recover_agent_run.  Besides an old thread, a model that is not configured or a tool call
\* that is not safe to resume needs a review.
PlanRun_AnyVersion ==
  /\ exec.pc = "plan"
  /\ exec' \in {[exec EXCEPT !.pc = "review"], [exec EXCEPT !.pc = "engine"]}
  /\ UNCHANGED <<status, queued, flow, migrator, faults, cut>>

PlanRun ==
  /\ exec.pc = "plan"
  /\ \/ exec' = [exec EXCEPT !.pc = "review"]
     \/ Compatible /\ exec' = [exec EXCEPT !.pc = "engine"]
  /\ UNCHANGED <<status, queued, flow, migrator, faults, cut>>

MarkRunForReview ==
  /\ exec.pc = "review"
  /\ status' = "needs_review"
  /\ exec' = NoExec
  /\ UNCHANGED <<queued, flow, migrator, faults, cut>>

LeaveEngine(e) == IF e.recovers THEN [e EXCEPT !.pc = "resume"] ELSE [e EXCEPT !.pc = "save"]

\* The last commit of the engine.
EngineEndsRun(outcome) ==
  /\ exec.pc = "engine" /\ status = "running"
  /\ status' = outcome
  /\ exec' = LeaveEngine(exec)
  /\ UNCHANGED <<queued, flow, migrator, faults, cut>>

\* A run that has ended is left alone.
EngineReturns ==
  /\ exec.pc = "engine" /\ status # "running"
  /\ exec' = LeaveEngine(exec)
  /\ UNCHANGED <<status, queued, flow, migrator, faults, cut>>

ResumeOuter_Skips ==
  /\ exec.pc = "resume"
  /\ exec' = NoExec
  /\ UNCHANGED <<status, queued, flow, migrator, faults, cut>>

\* resume_agent_workflow_if_interrupted; an execution that goes on is the graph's alone
ResumeOuter ==
  /\ exec.pc = "resume"
  /\ exec' = IF flow.version = "current" /\ flow.next # "end"
             THEN [exec EXCEPT !.pc = "node", !.recovers = FALSE, !.state = flow]
             ELSE NoExec
  /\ UNCHANGED <<status, queued, flow, migrator, faults, cut>>

Write(cp) ==
  /\ flow' = cp
  /\ exec' = IF cp.next = "end" THEN NoExec ELSE [exec EXCEPT !.pc = "node", !.state = cp]

\* a node other than run_agent
RunWorkflowNode ==
  /\ exec.pc = "node" /\ exec.state.next # "run_agent"
  /\ Write(AfterWorkflowNode(exec.state, status))
  /\ UNCHANGED <<status, queued, migrator, faults, cut>>

StartEngine ==
  /\ exec.pc = "node" /\ exec.state.next = "run_agent"
  /\ exec' = [exec EXCEPT !.pc = "engine"]
  /\ UNCHANGED <<status, queued, flow, migrator, faults, cut>>

\* run_agent reads the status that it reports after the engine has returned
SaveRunAgent_StatusAsStarted ==
  /\ exec.pc = "save"
  /\ Write(AfterWorkflowNode(exec.state, exec.state.seen))
  /\ UNCHANGED <<status, queued, migrator, faults, cut>>

SaveRunAgent ==
  /\ exec.pc = "save"
  /\ Write(AfterWorkflowNode(exec.state, status))
  /\ UNCHANGED <<status, queued, migrator, faults, cut>>

\* The process dies; so does its queue.
ProcessDies ==
  /\ exec.pc # "idle" /\ faults < MaxFaults
  /\ faults' = faults + 1
  /\ cut' = (cut \/ status # "running")
  /\ exec' = NoExec
  /\ queued' \in {queued, FALSE}
  /\ UNCHANGED <<status, flow, migrator>>

\* An exception outside the engine: the pool fails the run, a request does not.
GraphRaises ==
  /\ exec.pc \in {"enter", "plan", "review", "node", "save", "resume"} /\ faults < MaxFaults
  /\ faults' = faults + 1
  /\ status' = IF exec.pooled /\ status = "running" THEN "failed" ELSE status
  /\ cut' = (cut \/ status' # "running")
  /\ exec' = NoExec
  /\ UNCHANGED <<queued, flow, migrator>>

-----------------------------------------------------------------------------
(* migrate_agent_workflow_checkpoint: a read, and update_state as the       *)
(* predecessor of the node it read.                                         *)

ReadToMigrate(m) ==
  /\ migrator[m] = "idle"
  /\ flow.version = "unversioned"
  /\ flow.next \in WorkflowNode \ {"load_context"}
  /\ migrator' = [migrator EXCEPT ![m] = flow.next]
  /\ UNCHANGED <<status, queued, flow, exec, faults, cut>>

UpdateMigrated(m) ==
  /\ migrator[m] \in WorkflowNode
  /\ flow' = [flow EXCEPT !.version = "current",
                          !.next = IF migrator[m] \in {"run_agent", "evaluate_result"}
                                   THEN migrator[m] ELSE RouteAfterEvaluation(flow)]
  /\ migrator' = [migrator EXCEPT ![m] = "done"]
  /\ UNCHANGED <<status, queued, exec, faults, cut>>

-----------------------------------------------------------------------------
\* What an execution does outside the engine's loop.
RunOn ==
  \/ WriteInput \/ PlanRun \/ MarkRunForReview \/ EngineReturns \/ ResumeOuter
  \/ RunWorkflowNode \/ StartEngine \/ SaveRunAgent

Migrate(m) == ReadToMigrate(m) \/ UpdateMigrated(m)

WorkflowStep ==
  \/ Execute \/ ClaimStaleRun \/ RunOn \/ ProcessDies \/ GraphRaises
  \/ \E m \in Migrators : Migrate(m)

WorkflowNext == WorkflowStep \/ \E outcome \in EngineEnds : EngineEndsRun(outcome)

WorkflowSpec == WorkflowInit /\ [][WorkflowNext]_workflowVars

-----------------------------------------------------------------------------
(* Properties *)

\* The run, its thread and its execution are well formed.
WorkflowTypeOK ==
  /\ status \in RunStatus /\ queued \in BOOLEAN /\ cut \in BOOLEAN
  /\ flow \in WorkflowCheckpoint
  /\ exec \in Execution
  /\ migrator \in [Migrators -> {"idle", "done"} \cup WorkflowNode]
  /\ faults \in 0..MaxFaults

LastNode == IF flow.path = <<>> THEN "none" ELSE flow.path[Len(flow.path)]

\* agent_workflow.py: the verdict of the outer graph is about how the run ended, whoever
\* finished it and however often the thread was restarted, resumed or migrated.
WorkflowAgreesWithRun ==
  /\ LastNode = "complete_workflow" => status = "completed"
  /\ LastNode = "block_workflow" => status \in {"max_steps", "failed"}

\* require_checkpoint_version: a thread of another version keeps its history and its
\* place, and leaves its version only by a migration; until then the run does not end
\* by the engine.
OldWorkflowWaits ==
  [][/\ flow.version \in {"unversioned", "other"} /\ flow' # flow =>
          /\ flow.version = "unversioned" /\ flow'.version = "current"
          /\ flow'.next = flow.next /\ flow'.path = flow.path
     /\ flow.version \in {"unversioned", "other"} /\ flow.next # "end" /\ status' # status =>
          status' \in {"failed", "needs_review"}]_workflowVars
=============================================================================
