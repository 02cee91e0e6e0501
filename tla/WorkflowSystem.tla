---------------------------- MODULE WorkflowSystem ----------------------------
(***************************************************************************)
(* The two graphs of a task and the model requests of its runs.  The        *)
(* run_agent node of the agent workflow is the engine, which builds one     *)
(* request after the other, each within the input window of the model.      *)
(*                                                                          *)
(* The learning graph of a task and the workflow of a run are threads of    *)
(* one checkpointer that share no state, so that a behaviour of both is one *)
(* of each: focus, chosen at the start, says whose steps are looked at.     *)
(***************************************************************************)
EXTENDS LearningGraph, AgentWorkflow, ModelRequest

CONSTANT MaxSteps   \* AgentRun.max_steps

ASSUME StepsAssumption == MaxSteps \in Nat \ {0}

VARIABLES focus,   \* "learning" or "agent"
          asked    \* step_count: decisions of the model

agentVars == <<workflowVars, requestVars, asked>>
systemVars == <<learningVars, agentVars, focus>>

SystemInit ==
  /\ LearningInit /\ WorkflowInit /\ RequestInit
  /\ asked \in 0..MaxSteps
  /\ \/ focus = "learning" /\ queued /\ asked = 0
     \/ focus = "agent" /\ thread = NoCheckpoint /\ task = "draft" /\ (queued => asked = 0)

-----------------------------------------------------------------------------
(* AgentLoopEngine.run *)

InEngine == exec.pc = "engine" /\ status = "running"

StartRequest(r) ==
  /\ InEngine /\ asked < MaxSteps
  /\ BeginRequest(r)
  /\ UNCHANGED <<workflowVars, asked>>

Build ==
  /\ InEngine
  /\ BuildRequest
  /\ UNCHANGED <<workflowVars, asked>>

\* The model has decided on a tool, which the engine has run.
RunTool ==
  /\ InEngine /\ job.phase = "built"
  /\ asked' = asked + 1
  /\ EndRequest
  /\ UNCHANGED workflowVars

\* The model has answered the request; the limit is reached; or the request is refused, or
\* anything else raised.
EndReason(outcome) ==
  CASE outcome = "completed" -> job.phase = "built"
    [] outcome = "max_steps" -> job.phase = "idle" /\ asked >= MaxSteps
    [] outcome = "failed" -> TRUE

EndEngine(outcome) ==
  /\ EndReason(outcome)
  /\ EngineEndsRun(outcome)
  /\ EndRequest
  /\ UNCHANGED asked

EngineStep ==
  \/ Build \/ RunTool
  \/ \E r \in Requests : StartRequest(r)
  \/ \E outcome \in EngineEnds : EndEngine(outcome)

\* A migration leaves a request alone; an execution that dies takes it along.
OuterStep ==
  /\ WorkflowStep
  /\ IF exec' = exec THEN UNCHANGED requestVars ELSE EndRequest
  /\ UNCHANGED asked

AgentNext == OuterStep \/ EngineStep

SystemNext ==
  \/ focus = "learning" /\ LearningNext /\ UNCHANGED <<agentVars, focus>>
  \/ focus = "agent" /\ AgentNext /\ UNCHANGED <<learningVars, focus>>

\* What goes on by itself: the graph, the engine (the model answers, or its call fails) and,
\* after a death, the scan for stale runs.
GoesOn ==
  /\ focus = "agent"
  /\ \/ (RunOn \/ ClaimStaleRun) /\ EndRequest /\ UNCHANGED asked
     \/ EngineStep

SystemFairness ==
  /\ LearningFairness
  /\ WF_agentVars(GoesOn)

SystemSpec == SystemInit /\ [][SystemNext]_systemVars

FairSystemSpec == SystemSpec /\ SystemFairness

\* A run ends, and its outer graph with it, unless no checkpoint was ever written, the
\* run waits for a review, or an execution was lost between the last commit of the run
\* and the end of the graph: nothing continues the graph of a run that has ended.
WorkflowSettles ==
  focus = "agent" /\ status = "running" ~>
    \/ status = "needs_review" \/ cut
    \/ status # "running" /\ (flow.version = "none" \/ flow.next = "end")
=============================================================================
