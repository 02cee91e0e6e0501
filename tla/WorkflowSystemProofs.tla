---------------------------- MODULE WorkflowSystemProofs ----------------------------
(***************************************************************************)
(* The composition implements its parts, so that what is proved of each    *)
(* graph and of the requests holds of the system: steps of the engine are  *)
(* steps of the outer graph's thread and of the request it builds, or      *)
(* leave them alone.                                                       *)
(***************************************************************************)
EXTENDS WorkflowSystem, LearningGraphProofs, AgentWorkflowProofs, ModelRequestProofs

LEMMA SystemInitially == SystemInit => LearningInit /\ WorkflowInit /\ RequestInit
BY DEF SystemInit

\* The engine's loop, as the outer graph and as the request see it.
LEMMA EngineStepOfParts ==
  ASSUME EngineStep
  PROVE  [WorkflowNext]_workflowVars /\ [RequestNext]_requestVars
<1>1. CASE Build
  BY <1>1 DEF Build, RequestNext
<1>2. CASE RunTool
  BY <1>2 DEF RunTool, RequestNext
<1>3. CASE \E r \in Requests : StartRequest(r)
  BY <1>3 DEF StartRequest, RequestNext
<1>4. CASE \E outcome \in EngineEnds : EndEngine(outcome)
  BY <1>4 DEF EndEngine, WorkflowNext, RequestNext
<1> QED BY <1>1, <1>2, <1>3, <1>4 DEF EngineStep

LEMMA SystemStepOfParts ==
  ASSUME [SystemNext]_systemVars
  PROVE  [LearningNext]_learningVars /\ [WorkflowNext]_workflowVars /\ [RequestNext]_requestVars
<1>1. CASE UNCHANGED systemVars
  BY <1>1 DEF systemVars, agentVars
<1>2. CASE focus = "learning" /\ LearningNext /\ UNCHANGED <<agentVars, focus>>
  BY <1>2 DEF agentVars
<1>3. CASE focus = "agent" /\ AgentNext /\ UNCHANGED <<learningVars, focus>>
  <2>1. CASE OuterStep
    BY <1>3, <2>1 DEF OuterStep, WorkflowNext, RequestNext
  <2>2. CASE EngineStep
    BY <1>3, <2>2, EngineStepOfParts
  <2> QED BY <1>3, <2>1, <2>2 DEF AgentNext
<1> QED BY <1>1, <1>2, <1>3 DEF SystemNext

\* The system is a learning graph, an agent workflow and a sequence of model requests: each
\* step of it is a step of some of them and a stutter of the others.
THEOREM SystemImplementsItsParts == SystemSpec => LearningSpec /\ WorkflowSpec /\ RequestSpec
<1> QED BY SystemInitially, SystemStepOfParts, PTL
        DEF SystemSpec, LearningSpec, WorkflowSpec, RequestSpec

\* What is proved of the parts holds of the system: its graphs keep consistent histories and
\* verdicts, its task is completed by a request or with an approval, and its requests are within the window and keep what their rankings agree on.
THEOREM SystemIsSafe ==
  SystemSpec =>
    /\ [](/\ LearningTypeOK /\ WorkflowTypeOK /\ RequestTypeOK
          /\ ThreadIsConsistent /\ WorkflowAgreesWithRun
          /\ RefusedOnlyIfBaseTooBig /\ RankingKeepsAgreement
          /\ SelectionIsMaximal /\ CompactionIsFrugal)
    /\ CompletionHasSource
<1> QED BY SystemImplementsItsParts, LearningTypeCorrect, WorkflowTypeCorrect,
           RequestTypeCorrect, ThreadIsConsistentHolds, CompletionHasSourceHolds,
           WorkflowAgreesWithRunHolds, RefusedOnlyIfBaseTooBigHolds,
           RankingKeepsAgreementHolds, SelectionIsMaximalHolds, CompactionIsFrugalHolds, PTL

\* Threads of an earlier version wait for their migration in the system too.
THEOREM SystemOldThreadsWait == SystemSpec => OldThreadsWait /\ OldWorkflowWaits
<1> QED BY SystemImplementsItsParts, OldThreadsWaitHolds, OldWorkflowWaitsHolds, PTL

(***************************************************************************)
(* The engine and its requests                                              *)
(***************************************************************************)
\* A request is built only inside an engine whose run is running and has a step left, and
\* the model decides at most MaxSteps times, however often the execution dies, the run is
\* recovered or its thread is migrated meanwhile.
RequestHasEngine ==
  /\ asked \in 0..MaxSteps
  /\ job.phase # "idle" => InEngine /\ asked < MaxSteps

LEMMA FreshPhase == NoJob.phase = "idle"
BY DEF NoJob

LEMMA OuterStepKeepsEngine ==
  ASSUME RequestHasEngine, OuterStep
  PROVE  RequestHasEngine'
<1>1. CASE exec' # exec
  BY <1>1, FreshPhase DEF OuterStep, EndRequest, RequestHasEngine
<1>2. CASE exec' = exec /\ job.phase = "idle"
  BY <1>2 DEF OuterStep, requestVars, RequestHasEngine
<1>3. CASE exec' = exec /\ job.phase # "idle"
  <2>1. exec.pc = "engine" /\ status = "running" /\ asked < MaxSteps /\ UNCHANGED <<job, asked>>
    BY <1>3 DEF OuterStep, requestVars, RequestHasEngine, InEngine
  <2>2. exec.pc # NoExec.pc
    BY <2>1 DEF NoExec
  <2>3. UNCHANGED status
    BY <1>3, <2>1, <2>2
    DEF OuterStep, WorkflowStep, RunOn, Execute, ClaimStaleRun, WriteInput, PlanRun,
        MarkRunForReview, EngineReturns, ResumeOuter, RunWorkflowNode, StartEngine,
        SaveRunAgent, ProcessDies, GraphRaises, Migrate, ReadToMigrate, UpdateMigrated
  <2> QED BY <1>3, <2>1, <2>3 DEF RequestHasEngine, InEngine
<1> QED BY <1>1, <1>2, <1>3

LEMMA EngineStepKeepsEngine ==
  ASSUME RequestHasEngine, EngineStep
  PROVE  RequestHasEngine'
<1>1. MaxSteps \in Nat
  BY StepsAssumption
<1>2. CASE Build
  <2>1. job.phase # "idle" /\ UNCHANGED <<workflowVars, asked>>
    BY <1>2 DEF Build, BuildRequest, Measure, Rank, TakeCandidate, SkipCandidate, LeaveChannel,
       KeepObservations, TrimObservations, AcceptCompaction, DropOldestRetained,
       DropPreviews, DropItem, GiveUpSummary, Shortenable, CheckRequest
  <2> QED BY <2>1 DEF RequestHasEngine, InEngine, workflowVars
<1>3. CASE RunTool
  BY <1>1, <1>3, FreshPhase DEF RunTool, EndRequest, RequestHasEngine
<1>4. CASE \E r \in Requests : StartRequest(r)
  BY <1>4 DEF StartRequest, RequestHasEngine, InEngine, workflowVars
<1>5. CASE \E outcome \in EngineEnds : EndEngine(outcome)
  BY <1>5, FreshPhase DEF EndEngine, EndRequest, RequestHasEngine
<1> QED BY <1>2, <1>3, <1>4, <1>5 DEF EngineStep

THEOREM RequestHasEngineHolds == SystemSpec => []RequestHasEngine
<1>1. SystemInit => RequestHasEngine
  BY FreshPhase, StepsAssumption DEF SystemInit, RequestInit, RequestHasEngine
<1>2. ASSUME RequestHasEngine, [SystemNext]_systemVars
      PROVE  RequestHasEngine'
  <2>1. CASE UNCHANGED agentVars
    BY <1>2, <2>1 DEF agentVars, workflowVars, requestVars, RequestHasEngine, InEngine
  <2>2. CASE OuterStep
    BY <1>2, <2>2, OuterStepKeepsEngine
  <2>3. CASE EngineStep
    BY <1>2, <2>3, EngineStepKeepsEngine
  <2> QED BY <1>2, <2>1, <2>2, <2>3 DEF SystemNext, AgentNext, systemVars
<1> QED BY <1>1, <1>2, PTL DEF SystemSpec
=============================================================================
