---------------------------- MODULE AgentWorkflowProofs ----------------------------
(***************************************************************************)
(* Theorems about AgentWorkflow for any number of migrations, exceptions    *)
(* and dead processes.                                                     *)
(*                                                                         *)
(* WorkflowInv rests on one fact: everything a checkpoint says of the run   *)
(* is said after the run has ended, and a run that has ended keeps its      *)
(* status.  So a checkpoint stays Sound however old it is, and it may be    *)
(* resumed, migrated or overwritten in any order.                          *)
(***************************************************************************)
EXTENDS AgentWorkflow, SequenceTheorems, TLAPS

(***************************************************************************)
(* Checkpoints                                                              *)
(***************************************************************************)
LEMMA WorkflowFields ==
  ASSUME NEW cp \in WorkflowCheckpoint
  PROVE  /\ cp.version \in {"none", "current", "unversioned", "other"}
         /\ cp.next \in WorkflowNode \cup {"end"} /\ cp.path \in Seq(WorkflowNode)
         /\ cp.seen \in RunStatus /\ cp.errors \in BOOLEAN
BY DEF WorkflowCheckpoint

LEMMA ExecutionFields ==
  ASSUME NEW e \in Execution
  PROVE  /\ e.pc \in ExecPc /\ e.recovers \in BOOLEAN /\ e.pooled \in BOOLEAN
         /\ e.state \in WorkflowCheckpoint
BY DEF Execution

LastOf(cp) == IF cp.path = <<>> THEN "none" ELSE cp.path[Len(cp.path)]

\* What a checkpoint says of a run whose status is runStatus.
Sound(cp, runStatus) ==
  /\ cp.next = "evaluate_result" => cp.seen = runStatus /\ runStatus \in EngineEnds
  /\ cp.next = "complete_workflow" \/ LastOf(cp) = "complete_workflow" =>
       runStatus = "completed"
  /\ cp.next = "block_workflow" \/ LastOf(cp) = "block_workflow" =>
       runStatus \in {"max_steps", "failed"}

\* A checkpoint says nothing of a run that still runs.
LEMMA SoundLater ==
  ASSUME NEW cp, Sound(cp, "running"), NEW runStatus
  PROVE  Sound(cp, runStatus)
BY DEF Sound, EngineEnds

LEMMA InputSound ==
  /\ WorkflowInput \in WorkflowCheckpoint /\ WorkflowInput.version = "current"
  /\ WorkflowInput.next = "load_context" /\ "load_context" \in WorkflowNode
  /\ \A runStatus \in RunStatus : Sound(WorkflowInput, runStatus)
  /\ NoFlow \in WorkflowCheckpoint /\ NoFlow.version = "none"
  /\ \A runStatus \in RunStatus : Sound(NoFlow, runStatus)
<1>1. /\ WorkflowInput \in WorkflowCheckpoint /\ NoFlow \in WorkflowCheckpoint
      /\ "load_context" \in WorkflowNode
  BY DEF WorkflowInput, NoFlow, WorkflowCheckpoint, WorkflowNode, RunStatus
<1>2. /\ WorkflowInput.version = "current" /\ WorkflowInput.next = "load_context"
      /\ WorkflowInput.path = <<>> /\ NoFlow.path = <<>>
      /\ NoFlow.version = "none" /\ NoFlow.next = "end"
  BY DEF WorkflowInput, NoFlow
<1>3. LastOf(WorkflowInput) = "none" /\ LastOf(NoFlow) = "none"
  BY <1>2 DEF LastOf
<1> QED BY <1>1, <1>2, <1>3 DEF Sound

LEMMA NoExecIdle ==
  /\ NoExec \in Execution /\ NoExec.pc = "idle" /\ NoExec.recovers = FALSE
  /\ NoExec.state = NoFlow
BY InputSound DEF NoExec, Execution, ExecPc

\* Runs that an earlier version left.
LEMMA LeftRuns ==
  ASSUME NEW version \in {"unversioned", "other"}, NEW left \in Left(version)
  PROVE  /\ left[1] \in RunStatus /\ left[2] \in WorkflowCheckpoint
         /\ left[2].version = version /\ Sound(left[2], left[1])
         /\ \/ left[2].next = "run_agent"
            \/ /\ left[2].next \in {"evaluate_result", "end"}
               /\ left[1] = "completed" /\ left[2].seen = "completed"
<1>1. /\ "load_context" \in WorkflowNode /\ "run_agent" \in WorkflowNode
      /\ "evaluate_result" \in WorkflowNode /\ "complete_workflow" \in WorkflowNode
  BY DEF WorkflowNode
<1> DEFINE second == Started \o <<"run_agent">>
           third == Started \o <<"run_agent", "evaluate_result", "complete_workflow">>
<1>2. /\ Started \in Seq(WorkflowNode) /\ <<"run_agent">> \in Seq(WorkflowNode)
      /\ <<"run_agent", "evaluate_result", "complete_workflow">> \in Seq(WorkflowNode)
  BY <1>1 DEF Started
<1>3. second \in Seq(WorkflowNode) /\ third \in Seq(WorkflowNode)
  BY <1>2
<1>4. /\ Started # <<>> /\ Started[Len(Started)] = "load_context"
      /\ second # <<>> /\ second[Len(second)] = "run_agent"
      /\ third # <<>> /\ third[Len(third)] = "complete_workflow"
  BY DEF Started
<1> HIDE DEF second, third
<1>5. PICK next \in WorkflowNode \cup {"end"}, path \in Seq(WorkflowNode),
           seen \in {"running", "completed"} :
        /\ left[2] = [NoFlow EXCEPT !.version = version, !.next = next, !.path = path,
                                    !.seen = seen]
        /\ left[1] = seen
        /\ \/ next = "run_agent" /\ path = Started
           \/ next = "evaluate_result" /\ path = second /\ seen = "completed"
           \/ next = "end" /\ path = third /\ seen = "completed"
  <2>1. \/ left = <<"running", [NoFlow EXCEPT !.version = version, !.next = "run_agent",
                                   !.path = Started, !.seen = "running"]>>
        \/ left = <<"completed", [NoFlow EXCEPT !.version = version,
                                   !.next = "evaluate_result",
                                   !.path = second, !.seen = "completed"]>>
        \/ left = <<"completed", [NoFlow EXCEPT !.version = version, !.next = "end",
                                   !.path = third, !.seen = "completed"]>>
    BY DEF Left, second, third
  <2>2. CASE left = <<"running", [NoFlow EXCEPT !.version = version, !.next = "run_agent",
                                   !.path = Started, !.seen = "running"]>>
    BY <1>1, <1>2, <2>2
  <2>3. CASE left = <<"completed", [NoFlow EXCEPT !.version = version,
                                   !.next = "evaluate_result",
                                   !.path = second, !.seen = "completed"]>>
    BY <1>1, <1>3, <2>3
  <2>4. CASE left = <<"completed", [NoFlow EXCEPT !.version = version, !.next = "end",
                                   !.path = third, !.seen = "completed"]>>
    BY <1>3, <2>4
  <2> QED BY <2>1, <2>2, <2>3, <2>4
<1>6. /\ left[2] \in WorkflowCheckpoint /\ left[2].version = version /\ left[2].next = next
      /\ left[2].path = path /\ left[2].seen = seen
  BY <1>5 DEF NoFlow, WorkflowCheckpoint, RunStatus
<1>7. \/ next = "run_agent" /\ LastOf(left[2]) = "load_context"
      \/ next = "evaluate_result" /\ LastOf(left[2]) = "run_agent" /\ seen = "completed"
      \/ next = "end" /\ LastOf(left[2]) = "complete_workflow" /\ seen = "completed"
  BY <1>4, <1>5, <1>6 DEF LastOf
<1>8. Sound(left[2], left[1])
  BY <1>5, <1>6, <1>7 DEF Sound, EngineEnds
<1> QED BY <1>5, <1>6, <1>8 DEF RunStatus

\* A node keeps a checkpoint sound, if the engine has ended the run before run_agent is saved.
LEMMA NodeSound ==
  ASSUME NEW cp \in WorkflowCheckpoint, cp.next \in WorkflowNode,
         NEW runStatus \in RunStatus, Sound(cp, runStatus),
         cp.next = "run_agent" => runStatus \in EngineEnds,
         NEW new, new = AfterWorkflowNode(cp, runStatus)
  PROVE  /\ new \in WorkflowCheckpoint /\ new.version = cp.version /\ Sound(new, runStatus)
<1> DEFINE ran == Visited(cp)
<1>1. Append(cp.path, cp.next) \in Seq(WorkflowNode)
  BY WorkflowFields
<1>2. /\ ran \in WorkflowCheckpoint /\ ran.version = cp.version /\ ran.seen = cp.seen
      /\ ran.path = Append(cp.path, cp.next)
  BY <1>1 DEF Visited, WorkflowCheckpoint
<1>3. ASSUME NEW c, c.path = ran.path PROVE LastOf(c) = cp.next
  <2>1. cp.path \in Seq(WorkflowNode)
    BY WorkflowFields
  <2>2. /\ Append(cp.path, cp.next) # <<>>
        /\ Append(cp.path, cp.next)[Len(Append(cp.path, cp.next))] = cp.next
    BY <2>1
  <2> QED BY <1>2, <1>3, <2>2 DEF LastOf
<1> HIDE DEF ran
<1>4. ASSUME NEW c \in WorkflowCheckpoint, NEW next \in WorkflowNode \cup {"end"}, NEW goes,
             goes = [c EXCEPT !.next = next]
      PROVE  /\ goes \in WorkflowCheckpoint /\ goes.version = c.version /\ goes.path = c.path
             /\ goes.seen = c.seen /\ goes.next = next
  BY <1>4 DEF WorkflowCheckpoint
<1>5. CASE cp.next = "load_context"
  <2>1. new = [ran EXCEPT !.next = "run_agent"]
    BY <1>5 DEF AfterWorkflowNode, ran
  <2>2. "run_agent" \in WorkflowNode \cup {"end"}
    BY DEF WorkflowNode
  <2>3. /\ new \in WorkflowCheckpoint /\ new.version = ran.version /\ new.path = ran.path
        /\ new.next = "run_agent"
    BY <1>2, <1>4, <2>1, <2>2
  <2>4. LastOf(new) = "load_context"
    BY <1>3, <1>5, <2>3
  <2> QED BY <1>2, <2>3, <2>4 DEF Sound
<1>6. CASE cp.next = "run_agent"
  <2>1. new = [ran EXCEPT !.next = "evaluate_result", !.seen = runStatus]
    BY <1>6 DEF AfterWorkflowNode, ran
  <2>2. "evaluate_result" \in WorkflowNode \cup {"end"}
    BY DEF WorkflowNode
  <2>3. /\ new \in WorkflowCheckpoint /\ new.version = ran.version /\ new.path = ran.path
        /\ new.next = "evaluate_result" /\ new.seen = runStatus
    BY <1>2, <2>1, <2>2 DEF WorkflowCheckpoint
  <2>4. LastOf(new) = "run_agent"
    BY <1>3, <1>6, <2>3
  <2> QED BY <1>2, <1>6, <2>3, <2>4 DEF Sound
<1>7. CASE cp.next = "evaluate_result"
  <2> DEFINE checked == [ran EXCEPT !.errors = ran.seen # "completed"]
             next == IF ran.seen # "completed" THEN "block_workflow" ELSE "complete_workflow"
  <2>1. /\ checked \in WorkflowCheckpoint /\ checked.version = ran.version
        /\ checked.path = ran.path /\ checked.errors = (ran.seen # "completed")
    BY <1>2 DEF WorkflowCheckpoint
  <2>2. new = [checked EXCEPT !.next = next]
    <3>1. new = [Evaluated(ran) EXCEPT !.next = RouteAfterEvaluation(Evaluated(ran))]
      BY <1>7 DEF AfterWorkflowNode, ran
    <3>2. Evaluated(ran) = checked
      BY DEF Evaluated
    <3>3. RouteAfterEvaluation(checked) = next
      BY <2>1 DEF RouteAfterEvaluation
    <3> QED BY <3>1, <3>2, <3>3
  <2>3. next \in WorkflowNode \cup {"end"}
    BY DEF WorkflowNode
  <2> HIDE DEF checked, next
  <2>4. /\ new \in WorkflowCheckpoint /\ new.version = checked.version
        /\ new.path = checked.path /\ new.next = next
    BY <1>4, <2>1, <2>2, <2>3
  <2>5. LastOf(new) = "evaluate_result"
    BY <1>3, <1>7, <2>1, <2>4
  <2>6. cp.seen = runStatus /\ runStatus \in EngineEnds
    BY <1>7 DEF Sound
  <2>7. Sound(new, runStatus)
    BY <1>2, <2>4, <2>5, <2>6 DEF Sound, next, EngineEnds
  <2> QED BY <1>2, <2>1, <2>4, <2>7
<1>8. CASE cp.next \in {"complete_workflow", "block_workflow"}
  <2>1. new = [ran EXCEPT !.next = "end"]
    BY <1>8 DEF AfterWorkflowNode, ran
  <2>2. /\ new \in WorkflowCheckpoint /\ new.version = ran.version /\ new.path = ran.path
        /\ new.next = "end"
    BY <1>2, <1>4, <2>1
  <2>3. LastOf(new) = cp.next
    BY <1>3, <2>2
  <2> QED BY <1>2, <1>8, <2>2, <2>3 DEF Sound
<1> QED BY <1>5, <1>6, <1>7, <1>8 DEF WorkflowNode

(***************************************************************************)
(* The invariant                                                            *)
(***************************************************************************)
\* The run has ended, nobody will execute it again, and its thread knows.
Finished == status = "completed" /\ flow.seen = "completed" /\ ~queued /\ exec.pc = "idle"

\* The node of the graph that the execution is in, if it is in the graph.
InGraph == exec.pc \in {"node", "save"} \/ (exec.pc = "engine" /\ ~exec.recovers)

ExecutionOK ==
  /\ exec.pc \in {"enter", "plan", "review"} => status = "running"
  /\ exec.pc \in {"save", "resume"} => status \in EngineEnds
  /\ status = "needs_review" => exec.pc = "idle"
  /\ exec.pc \in {"enter", "node", "save"} => ~exec.recovers
  /\ exec.pc = "plan" => exec.recovers
  /\ InGraph => /\ exec.state.version = "current" /\ exec.state.next \in WorkflowNode
                /\ Sound(exec.state, status)
  /\ InGraph /\ exec.pc # "node" => exec.state.next = "run_agent"

OldThread == flow.version \in {"unversioned", "other"}

OldThreadOK ==
  OldThread =>
    /\ ~queued /\ exec.pc \in {"idle", "plan", "review"}
    /\ flow.next = "run_agent" \/ (flow.next \in {"evaluate_result", "end"} /\ Finished)

MigratorOK(m) ==
  migrator[m] \in WorkflowNode =>
    /\ flow.version \in {"unversioned", "current"}
    /\ migrator[m] \in {"run_agent", "evaluate_result"}
    /\ flow.version = "unversioned" => migrator[m] = flow.next
    /\ migrator[m] = "evaluate_result" => Finished

WorkflowInv ==
  /\ WorkflowTypeOK
  /\ Sound(flow, status)
  /\ ExecutionOK
  /\ OldThreadOK
  /\ \A m \in Migrators : MigratorOK(m)

LEMMA InitWorkflowInv == WorkflowInit => WorkflowInv
<1> SUFFICES ASSUME WorkflowInit PROVE WorkflowInv
  OBVIOUS
<1>1. exec = NoExec /\ exec \in Execution /\ exec.pc = "idle"
  BY NoExecIdle DEF WorkflowInit
<1>2. /\ status \in RunStatus /\ queued \in BOOLEAN /\ flow \in WorkflowCheckpoint
      /\ Sound(flow, status) /\ OldThreadOK
  <2>1. CASE status = "running" /\ queued = TRUE /\ flow = NoFlow
    <3>1. status \in RunStatus
      BY <2>1 DEF RunStatus
    <3>2. flow.version = "none"
      BY <2>1, InputSound
    <3> QED BY <2>1, <3>1, <3>2, InputSound DEF OldThreadOK, OldThread
  <2>2. CASE \E left \in Left("unversioned") \cup Left("other") :
               status = left[1] /\ queued = FALSE /\ flow = left[2]
    <3>1. PICK version \in {"unversioned", "other"} : \E left \in Left(version) :
            status = left[1] /\ queued = FALSE /\ flow = left[2]
      BY <2>2
    <3>2. PICK left \in Left(version) : status = left[1] /\ queued = FALSE /\ flow = left[2]
      BY <3>1
    <3>3. /\ status \in RunStatus /\ flow \in WorkflowCheckpoint /\ Sound(flow, status)
          /\ \/ flow.next = "run_agent"
             \/ /\ flow.next \in {"evaluate_result", "end"}
                /\ status = "completed" /\ flow.seen = "completed"
      BY <3>2, LeftRuns
    <3> QED BY <1>1, <3>2, <3>3 DEF OldThreadOK, Finished
  <2> QED BY <2>1, <2>2 DEF WorkflowInit
<1>3. ExecutionOK
  BY <1>1 DEF ExecutionOK, InGraph
<1>4. \A m \in Migrators : migrator[m] = "idle" /\ migrator[m] \notin WorkflowNode
  BY DEF WorkflowInit, WorkflowNode
<1>5. WorkflowTypeOK
  <2>1. cut \in BOOLEAN
    BY DEF WorkflowInit
  <2>2. migrator \in [Migrators -> {"idle", "done"} \cup WorkflowNode]
    BY DEF WorkflowInit
  <2>3. faults \in 0..MaxFaults
    BY WorkflowAssumption DEF WorkflowInit
  <2> QED BY <1>1, <1>2, <2>1, <2>2, <2>3 DEF WorkflowTypeOK
<1> QED BY <1>2, <1>3, <1>4, <1>5 DEF WorkflowInv, MigratorOK

LEMMA WorkflowNow ==
  ASSUME WorkflowInv
  PROVE  /\ status \in RunStatus /\ queued \in BOOLEAN /\ cut \in BOOLEAN
         /\ flow \in WorkflowCheckpoint /\ exec \in Execution /\ faults \in 0..MaxFaults
         /\ Sound(flow, status) /\ ExecutionOK /\ OldThreadOK
         /\ exec.state \in WorkflowCheckpoint /\ exec.pc \in ExecPc
         /\ exec.recovers \in BOOLEAN
BY ExecutionFields DEF WorkflowInv, WorkflowTypeOK

\* An execution goes on, or ends, and leaves the thread as it is.
LEMMA ThreadKept ==
  ASSUME WorkflowInv, UNCHANGED <<flow, migrator>>, ~Finished,
         status' = status \/ status = "running",
         status' \in RunStatus, queued' \in BOOLEAN, queued' => queued, cut' \in BOOLEAN,
         faults' \in 0..MaxFaults, exec' \in Execution, ExecutionOK',
         OldThread => exec'.pc \in {"idle", "plan", "review"}
  PROVE  WorkflowInv'
<1>1. WorkflowTypeOK'
  BY DEF WorkflowInv, WorkflowTypeOK
<1>2. Sound(flow', status')
  BY WorkflowNow, SoundLater
<1>3. OldThreadOK'
  BY WorkflowNow DEF OldThreadOK, OldThread
<1>4. ASSUME NEW m \in Migrators PROVE MigratorOK(m)'
  BY DEF WorkflowInv, MigratorOK
<1> QED BY <1>1, <1>2, <1>3, <1>4 DEF WorkflowInv

\* An execution writes a checkpoint and goes on from it.
LEMMA ThreadWritten ==
  ASSUME WorkflowInv, UNCHANGED <<status, queued, migrator, faults, cut>>, ~OldThread,
         exec.pc # "idle",
         flow' \in WorkflowCheckpoint, flow'.version = "current", Sound(flow', status),
         exec' \in Execution, ExecutionOK'
  PROVE  WorkflowInv'
<1>1. WorkflowTypeOK'
  BY DEF WorkflowInv, WorkflowTypeOK
<1>2. OldThreadOK'
  BY DEF OldThreadOK, OldThread
<1>3. ASSUME NEW m \in Migrators PROVE MigratorOK(m)'
  BY DEF WorkflowInv, MigratorOK, Finished
<1> QED BY <1>1, <1>2, <1>3 DEF WorkflowInv

LEMMA ExecuteStep ==
  ASSUME WorkflowInv, Execute
  PROVE  WorkflowInv'
<1>1. PICK pooled \in BOOLEAN :
        exec' = IF status # "running" THEN NoExec
                ELSE [NoExec EXCEPT !.pc = "enter", !.pooled = pooled]
  BY DEF Execute
<1>2. /\ exec' \in Execution
      /\ exec'.pc = "idle" \/ (exec'.pc = "enter" /\ status = "running")
      /\ exec'.recovers = FALSE
  BY <1>1, NoExecIdle DEF Execution, ExecPc
<1>3. ~OldThread /\ ~Finished
  BY WorkflowNow DEF Execute, OldThreadOK, Finished
<1>4. /\ UNCHANGED <<status, flow, migrator, faults, cut>> /\ ~queued'
  BY DEF Execute
<1>5. ExecutionOK'
  BY <1>2, <1>4 DEF ExecutionOK, InGraph
<1>6. queued' \in BOOLEAN /\ status' \in RunStatus /\ cut' \in BOOLEAN /\ faults' \in 0..MaxFaults
  BY <1>4, WorkflowNow DEF Execute
<1> QED BY <1>2, <1>3, <1>4, <1>5, <1>6, ThreadKept

\* What an action that only moves the execution leaves as it is.
LEMMA Moves ==
  ASSUME WorkflowInv, UNCHANGED <<status, queued, flow, migrator, faults, cut>>, ~Finished,
         exec' \in Execution, ExecutionOK', OldThread => exec'.pc \in {"idle", "plan", "review"}
  PROVE  WorkflowInv'
BY WorkflowNow, ThreadKept

LEMMA ClaimStaleRunStep ==
  ASSUME WorkflowInv, ClaimStaleRun
  PROVE  WorkflowInv'
<1>1. PICK pooled \in BOOLEAN :
        exec' = [NoExec EXCEPT !.pc = "plan", !.recovers = TRUE, !.pooled = pooled]
  BY DEF ClaimStaleRun
<1>2. exec' \in Execution /\ exec'.pc = "plan"
  BY <1>1, NoExecIdle DEF Execution, ExecPc
<1>6. exec'.recovers
  BY <1>1, NoExecIdle DEF Execution
<1>3. status = "running" /\ UNCHANGED <<status, queued, flow, migrator, faults, cut>>
  BY DEF ClaimStaleRun
<1>4. ExecutionOK'
  BY <1>2, <1>3, <1>6 DEF ExecutionOK, InGraph
<1>5. ~Finished
  BY <1>3 DEF Finished
<1> QED BY <1>2, <1>3, <1>4, <1>5, Moves

LEMMA PlanRunStep ==
  ASSUME WorkflowInv, PlanRun
  PROVE  WorkflowInv'
<1>1. /\ exec.pc = "plan" /\ UNCHANGED <<status, queued, flow, migrator, faults, cut>>
      /\ \/ exec' = [exec EXCEPT !.pc = "review"]
         \/ Compatible /\ exec' = [exec EXCEPT !.pc = "engine"]
  BY DEF PlanRun
<1>2. status = "running" /\ ~Finished
  BY <1>1, WorkflowNow DEF ExecutionOK, Finished
<1>3. CASE exec' = [exec EXCEPT !.pc = "review"]
  <2>1. exec' \in Execution /\ exec'.pc = "review"
    BY <1>3, WorkflowNow DEF Execution, ExecPc
  <2>2. ExecutionOK'
    BY <1>1, <1>2, <2>1 DEF ExecutionOK, InGraph
  <2> QED BY <1>1, <1>2, <2>1, <2>2, Moves
<1>4. CASE Compatible /\ exec' = [exec EXCEPT !.pc = "engine"]
  <2>1. exec' \in Execution /\ exec'.pc = "engine" /\ exec'.recovers = exec.recovers
    BY <1>4, WorkflowNow DEF Execution, ExecPc
  <2>2. ~OldThread
    BY <1>1, <1>4, WorkflowNow DEF Compatible, OldThreadOK, OldThread, Finished
  <2>3. exec.recovers
    BY <1>1, WorkflowNow DEF ExecutionOK
  <2>4. ExecutionOK'
    BY <1>1, <1>2, <2>1, <2>3 DEF ExecutionOK, InGraph
  <2> QED BY <1>1, <1>2, <2>1, <2>2, <2>4, Moves
<1> QED BY <1>1, <1>3, <1>4

\* The execution ends, whatever it was doing, and the run may end with it.
LEMMA ExecutionEnds ==
  ASSUME WorkflowInv, exec.pc # "idle", exec' = NoExec, UNCHANGED <<flow, migrator>>,
         status' = status \/ (status = "running" /\ status' \in RunStatus),
         queued' \in {queued, FALSE}, cut' \in BOOLEAN, faults' \in 0..MaxFaults
  PROVE  WorkflowInv'
<1>1. exec' \in Execution /\ exec'.pc = "idle"
  BY NoExecIdle
<1>2. ExecutionOK'
  BY <1>1 DEF ExecutionOK, InGraph
<1>3. ~Finished
  BY DEF Finished
<1>4. queued' \in BOOLEAN /\ (queued' => queued)
  <2>1. queued' = queued \/ queued' = FALSE
    OBVIOUS
  <2>2. CASE queued' = queued
    BY <2>2, WorkflowNow
  <2>3. CASE queued' = FALSE
    BY <2>3
  <2> QED BY <2>1, <2>2, <2>3
<1>5. status' \in RunStatus /\ (status' = status \/ status = "running")
  BY WorkflowNow
<1> QED BY <1>1, <1>2, <1>3, <1>4, <1>5, ThreadKept

LEMMA EndSteps ==
  ASSUME WorkflowInv, MarkRunForReview \/ ProcessDies \/ GraphRaises
  PROVE  WorkflowInv'
<1>1. exec.pc # "idle" /\ exec' = NoExec /\ UNCHANGED <<flow, migrator>>
  BY DEF MarkRunForReview, ProcessDies, GraphRaises
<1>2. status' = status \/ (status = "running" /\ status' \in RunStatus)
  BY WorkflowNow DEF MarkRunForReview, ProcessDies, GraphRaises, ExecutionOK, RunStatus
<1>3. queued' \in {queued, FALSE}
  BY DEF MarkRunForReview, ProcessDies, GraphRaises
<1>4. cut' \in BOOLEAN
  BY WorkflowNow DEF MarkRunForReview, ProcessDies, GraphRaises
<1>5. faults' \in 0..MaxFaults
  <2>1. faults \in 0..MaxFaults /\ MaxFaults \in Nat
    BY WorkflowNow, WorkflowAssumption
  <2>2. faults' = faults \/ (faults < MaxFaults /\ faults' = faults + 1)
    BY DEF MarkRunForReview, ProcessDies, GraphRaises
  <2> QED BY <2>1, <2>2
<1> QED BY <1>1, <1>2, <1>3, <1>4, <1>5, ExecutionEnds

\* The engine leaves a run that has ended to the graph, or to the recovery.
LEMMA EngineLeaves ==
  ASSUME WorkflowInv, exec.pc = "engine", exec' = LeaveEngine(exec), status' \in EngineEnds,
         status' = status \/ status = "running", UNCHANGED <<queued, flow, migrator, faults, cut>>
  PROVE  WorkflowInv'
<1>1. /\ exec' \in Execution /\ exec'.recovers = exec.recovers /\ exec'.state = exec.state
      /\ exec'.pc = IF exec.recovers THEN "resume" ELSE "save"
  BY WorkflowNow DEF LeaveEngine, Execution, ExecPc
<1>2. ExecutionOK'
  <2>1. InGraph => Sound(exec.state, status')
    BY WorkflowNow, SoundLater DEF ExecutionOK
  <2>2. InGraph' <=> InGraph
    BY <1>1, WorkflowNow DEF InGraph
  <2>3. Sound(exec.state, status') => Sound(exec'.state, status')
    BY <1>1
  <2>4. status' # "needs_review"
    BY DEF EngineEnds
  <2> QED BY <1>1, <2>1, <2>2, <2>3, <2>4, WorkflowNow DEF ExecutionOK, InGraph
<1>3. ~OldThread /\ ~Finished
  BY WorkflowNow DEF OldThreadOK, Finished
<1>4. /\ status' \in RunStatus /\ queued' \in BOOLEAN /\ cut' \in BOOLEAN
      /\ faults' \in 0..MaxFaults
  BY WorkflowNow DEF EngineEnds, RunStatus
<1> QED BY <1>1, <1>2, <1>3, <1>4, ThreadKept

LEMMA EngineSteps ==
  ASSUME WorkflowInv, EngineReturns \/ \E outcome \in EngineEnds : EngineEndsRun(outcome)
  PROVE  WorkflowInv'
<1>1. /\ exec.pc = "engine" /\ exec' = LeaveEngine(exec)
      /\ UNCHANGED <<queued, flow, migrator, faults, cut>>
      /\ status' = status \/ status = "running"
  BY DEF EngineReturns, EngineEndsRun
<1>2. status' \in EngineEnds
  BY WorkflowNow DEF EngineReturns, EngineEndsRun, ExecutionOK, RunStatus, EngineEnds
<1> QED BY <1>1, <1>2, EngineLeaves

LEMMA WriteInputStep ==
  ASSUME WorkflowInv, WriteInput
  PROVE  WorkflowInv'
<1>1. /\ exec.pc = "enter" /\ flow' = WorkflowInput
      /\ exec' = [exec EXCEPT !.pc = "node", !.state = WorkflowInput]
      /\ UNCHANGED <<status, queued, migrator, faults, cut>>
  BY DEF WriteInput
<1>2. /\ exec' \in Execution /\ exec'.pc = "node" /\ exec'.state = WorkflowInput
      /\ exec'.recovers = exec.recovers
  BY <1>1, WorkflowNow, InputSound DEF Execution, ExecPc
<1>3. status = "running" /\ ~OldThread
  BY <1>1, WorkflowNow DEF ExecutionOK, OldThreadOK
<1>4. Sound(WorkflowInput, status) /\ ~exec.recovers
  BY <1>1, WorkflowNow, InputSound DEF ExecutionOK
<1>5. ExecutionOK'
  BY <1>1, <1>2, <1>3, <1>4, InputSound DEF ExecutionOK, InGraph
<1> QED BY <1>1, <1>2, <1>3, <1>4, <1>5, InputSound, ThreadWritten

LEMMA StartEngineStep ==
  ASSUME WorkflowInv, StartEngine
  PROVE  WorkflowInv'
<1>1. /\ exec.pc = "node" /\ exec.state.next = "run_agent"
      /\ exec' = [exec EXCEPT !.pc = "engine"]
      /\ UNCHANGED <<status, queued, flow, migrator, faults, cut>>
  BY DEF StartEngine
<1>2. /\ exec' \in Execution /\ exec'.pc = "engine" /\ exec'.recovers = exec.recovers
      /\ exec'.state = exec.state
  BY <1>1, WorkflowNow DEF Execution, ExecPc
<1>3. ~OldThread /\ ~Finished
  BY <1>1, WorkflowNow DEF OldThreadOK, Finished
<1>4. ExecutionOK'
  BY <1>1, <1>2, WorkflowNow DEF ExecutionOK, InGraph
<1> QED BY <1>1, <1>2, <1>3, <1>4, Moves

LEMMA ResumeOuterStep ==
  ASSUME WorkflowInv, ResumeOuter
  PROVE  WorkflowInv'
<1>1. exec.pc = "resume" /\ UNCHANGED <<status, queued, flow, migrator, faults, cut>>
  BY DEF ResumeOuter
<1>2. CASE exec' = NoExec
  BY <1>1, <1>2, WorkflowNow, ExecutionEnds
<1>3. CASE /\ flow.version = "current" /\ flow.next # "end"
           /\ exec' = [exec EXCEPT !.pc = "node", !.recovers = FALSE, !.state = flow]
  <2>1. /\ exec' \in Execution /\ exec'.pc = "node" /\ exec'.state = flow
        /\ exec'.recovers = FALSE
    BY <1>3, WorkflowNow DEF Execution, ExecPc
  <2>2. flow.next \in WorkflowNode /\ Sound(flow, status)
    BY <1>3, WorkflowNow, WorkflowFields
  <2>3. status \in EngineEnds /\ ~OldThread /\ ~Finished
    BY <1>1, <1>3, WorkflowNow DEF ExecutionOK, OldThread, Finished
  <2>4. ExecutionOK'
    BY <1>1, <1>3, <2>1, <2>2, <2>3 DEF ExecutionOK, InGraph, EngineEnds
  <2> QED BY <1>1, <2>1, <2>3, <2>4, Moves
<1> QED BY <1>2, <1>3 DEF ResumeOuter

LEMMA NodeSteps ==
  ASSUME WorkflowInv, RunWorkflowNode \/ SaveRunAgent
  PROVE  WorkflowInv'
<1> DEFINE cp == exec.state
           new == AfterWorkflowNode(cp, status)
<1>1. /\ Write(new) /\ UNCHANGED <<status, queued, migrator, faults, cut>>
      /\ exec.pc \in {"node", "save"}
      /\ exec.pc = "node" => cp.next # "run_agent"
  BY DEF RunWorkflowNode, SaveRunAgent
<1>2. cp \in WorkflowCheckpoint /\ cp.version = "current" /\ status \in RunStatus
  BY <1>1, WorkflowNow DEF ExecutionOK, InGraph
<1>3. /\ exec.pc = "save" => status \in EngineEnds
      /\ cp.next \in WorkflowNode /\ Sound(cp, status)
      /\ ~exec.recovers /\ status # "needs_review"
  BY <1>1, WorkflowNow DEF ExecutionOK, InGraph
<1>4. new \in WorkflowCheckpoint /\ new.version = "current" /\ Sound(new, status)
  BY <1>1, <1>2, <1>3, NodeSound
<1>5. ~OldThread /\ exec.pc # "idle"
  BY <1>1, WorkflowNow DEF OldThreadOK
<1> HIDE DEF cp, new
<1>6. flow' = new
  BY <1>1 DEF Write
<1>7. CASE new.next = "end"
  <2>1. exec' = NoExec
    BY <1>1, <1>7 DEF Write
  <2>2. exec' \in Execution /\ ExecutionOK'
    BY <2>1, NoExecIdle DEF ExecutionOK, InGraph
  <2> QED BY <1>1, <1>4, <1>5, <1>6, <2>2, ThreadWritten
<1>8. CASE new.next # "end"
  <2>1. exec' = [exec EXCEPT !.pc = "node", !.state = new]
    BY <1>1, <1>8 DEF Write
  <2>2. /\ exec' \in Execution /\ exec'.pc = "node" /\ exec'.state = new
        /\ exec'.recovers = exec.recovers
    BY <1>4, <2>1, WorkflowNow DEF Execution, ExecPc
  <2>3. new.next \in WorkflowNode
    BY <1>4, <1>8, WorkflowFields
  <2>4. ExecutionOK'
    BY <1>1, <1>3, <1>4, <2>2, <2>3 DEF ExecutionOK, InGraph
  <2> QED BY <1>1, <1>4, <1>5, <1>6, <2>2, <2>4, ThreadWritten
<1> QED BY <1>7, <1>8

LEMMA ReadToMigrateStep ==
  ASSUME WorkflowInv, NEW m \in Migrators, ReadToMigrate(m)
  PROVE  WorkflowInv'
<1>1. /\ UNCHANGED <<status, queued, flow, exec, faults, cut>>
      /\ flow.version = "unversioned" /\ flow.next \in WorkflowNode
      /\ migrator' = [migrator EXCEPT ![m] = flow.next]
  BY DEF ReadToMigrate
<1>2. WorkflowTypeOK'
  BY <1>1 DEF WorkflowInv, WorkflowTypeOK
<1>3. ExecutionOK' /\ OldThreadOK' /\ Sound(flow', status')
  BY <1>1, WorkflowNow DEF ExecutionOK, InGraph, OldThreadOK, OldThread, Finished
<1>4. /\ flow.next = "run_agent" \/ (flow.next = "evaluate_result" /\ Finished)
  BY <1>1, WorkflowNow DEF OldThreadOK, OldThread, WorkflowNode
<1>5. ASSUME NEW n \in Migrators PROVE MigratorOK(n)'
  <2>1. CASE n = m
    <3>1. migrator'[n] = flow.next
      BY <1>1, <2>1 DEF WorkflowInv, WorkflowTypeOK
    <3> QED BY <1>1, <1>4, <3>1 DEF MigratorOK, Finished
  <2>2. CASE n # m
    <3>1. migrator'[n] = migrator[n]
      BY <1>1, <2>2 DEF WorkflowInv, WorkflowTypeOK
    <3> QED BY <1>1, <3>1 DEF MigratorOK, Finished, WorkflowInv
  <2> QED BY <2>1, <2>2
<1> QED BY <1>2, <1>3, <1>5 DEF WorkflowInv

\* What a migration writes: the node that was next when it read the thread.
LEMMA MigratedFlow ==
  ASSUME WorkflowInv, NEW m \in Migrators, UpdateMigrated(m)
  PROVE  /\ flow' \in WorkflowCheckpoint /\ flow'.version = "current"
         /\ flow'.path = flow.path /\ flow'.seen = flow.seen
         /\ flow'.next = migrator[m] /\ migrator[m] \in {"run_agent", "evaluate_result"}
         /\ flow.version \in {"unversioned", "current"}
         /\ flow.version = "unversioned" => flow.next = migrator[m]
         /\ migrator[m] = "evaluate_result" => Finished
<1>1. /\ migrator[m] \in {"run_agent", "evaluate_result"}
      /\ flow.version \in {"unversioned", "current"}
      /\ flow.version = "unversioned" => flow.next = migrator[m]
      /\ migrator[m] = "evaluate_result" => Finished
  BY DEF UpdateMigrated, WorkflowInv, MigratorOK
<1>2. flow' = [flow EXCEPT !.version = "current", !.next = migrator[m]]
  BY <1>1 DEF UpdateMigrated
<1>3. migrator[m] \in WorkflowNode
  BY DEF UpdateMigrated
<1> QED BY <1>1, <1>2, <1>3, WorkflowNow DEF WorkflowCheckpoint

LEMMA UpdateMigratedStep ==
  ASSUME WorkflowInv, NEW m \in Migrators, UpdateMigrated(m)
  PROVE  WorkflowInv'
<1>1. /\ UNCHANGED <<status, queued, exec, faults, cut>>
      /\ migrator' = [migrator EXCEPT ![m] = "done"]
  BY DEF UpdateMigrated
<1>2. WorkflowTypeOK'
  <2>1. migrator' \in [Migrators -> {"idle", "done"} \cup WorkflowNode]
    BY <1>1 DEF WorkflowInv, WorkflowTypeOK
  <2> QED BY <1>1, <2>1, MigratedFlow DEF WorkflowInv, WorkflowTypeOK
<1>3. ExecutionOK' /\ OldThreadOK'
  BY <1>1, WorkflowNow, MigratedFlow DEF ExecutionOK, InGraph, OldThreadOK, OldThread
<1>4. Sound(flow', status')
  <2>1. LastOf(flow') = LastOf(flow)
    BY MigratedFlow DEF LastOf
  <2> QED BY <1>1, <2>1, WorkflowNow, MigratedFlow DEF Sound, Finished, EngineEnds
<1>5. Finished => Finished'
  BY <1>1, MigratedFlow DEF Finished
<1>6. ASSUME NEW n \in Migrators PROVE MigratorOK(n)'
  <2>1. CASE n = m
    <3>1. migrator'[n] = "done" /\ migrator'[n] \notin WorkflowNode
      BY <1>1, <2>1 DEF WorkflowInv, WorkflowTypeOK, WorkflowNode
    <3> QED BY <3>1 DEF MigratorOK
  <2>2. CASE n # m
    <3>1. migrator'[n] = migrator[n]
      BY <1>1, <2>2 DEF WorkflowInv, WorkflowTypeOK
    <3> QED BY <1>5, <3>1, MigratedFlow DEF MigratorOK, WorkflowInv
  <2> QED BY <2>1, <2>2
<1> QED BY <1>2, <1>3, <1>4, <1>6 DEF WorkflowInv

LEMMA WorkflowInvStep ==
  ASSUME WorkflowInv, [WorkflowNext]_workflowVars
  PROVE  WorkflowInv'
<1>1. CASE UNCHANGED workflowVars
  <2>1. UNCHANGED <<status, queued, flow, exec, migrator, faults, cut>>
    BY <1>1 DEF workflowVars
  <2>2. WorkflowTypeOK' /\ Sound(flow', status') /\ ExecutionOK' /\ OldThreadOK'
    BY <2>1, WorkflowNow DEF WorkflowInv, WorkflowTypeOK, ExecutionOK, InGraph, OldThreadOK,
                            OldThread, Finished
  <2>3. \A m \in Migrators : MigratorOK(m)'
    BY <2>1 DEF WorkflowInv, MigratorOK, Finished
  <2> QED BY <2>2, <2>3 DEF WorkflowInv
<1>2. CASE WorkflowNext
  BY <1>2, ExecuteStep, ClaimStaleRunStep, PlanRunStep, EndSteps, EngineSteps, WriteInputStep,
     StartEngineStep, ResumeOuterStep, NodeSteps, ReadToMigrateStep, UpdateMigratedStep
     DEF WorkflowNext, WorkflowStep, RunOn, Migrate
<1> QED BY <1>1, <1>2

\* Where an execution stands, and how old a thread is, say what the run's status may be.
THEOREM WorkflowInvariant == WorkflowSpec => []WorkflowInv
<1>1. WorkflowInv /\ [WorkflowNext]_workflowVars => WorkflowInv'
  BY WorkflowInvStep
<1> QED BY InitWorkflowInv, <1>1, PTL DEF WorkflowSpec

\* The run, its thread and its execution stay well formed.
THEOREM WorkflowTypeCorrect == WorkflowSpec => []WorkflowTypeOK
<1>1. WorkflowInv => WorkflowTypeOK
  BY DEF WorkflowInv
<1> QED BY WorkflowInvariant, <1>1, PTL

\* evaluate_result and what follows it: however often the thread is restarted, resumed,
\* migrated or cut off, its verdict is about how the run ended.
THEOREM WorkflowAgreesWithRunHolds == WorkflowSpec => []WorkflowAgreesWithRun
<1>1. WorkflowInv => WorkflowAgreesWithRun
  BY DEF WorkflowInv, WorkflowAgreesWithRun, Sound, LastOf, LastNode
<1> QED BY WorkflowInvariant, <1>1, PTL

LEMMA OldWorkflowStep ==
  ASSUME WorkflowInv, [WorkflowNext]_workflowVars, OldThread
  PROVE  /\ flow' # flow =>
              /\ flow.version = "unversioned" /\ flow'.version = "current"
              /\ flow'.next = flow.next /\ flow'.path = flow.path
         /\ flow.next # "end" /\ status' # status => status' \in {"failed", "needs_review"}
<1>1. ~queued /\ exec.pc \in {"idle", "plan", "review"}
  BY WorkflowNow DEF OldThreadOK
<1>2. ASSUME flow' # flow PROVE \E m \in Migrators : UpdateMigrated(m)
  BY <1>1, <1>2 DEF WorkflowNext, WorkflowStep, RunOn, Migrate, workflowVars, Execute,
     ClaimStaleRun, WriteInput, PlanRun, MarkRunForReview, EngineReturns, ResumeOuter,
     RunWorkflowNode, StartEngine, SaveRunAgent, ProcessDies, GraphRaises, ReadToMigrate,
     EngineEndsRun
<1>3. flow' # flow =>
        /\ flow.version = "unversioned" /\ flow'.version = "current"
        /\ flow'.next = flow.next /\ flow'.path = flow.path
  BY <1>2, MigratedFlow DEF OldThread
<1>4. status' # status => status' \in {"failed", "needs_review"}
  BY <1>1 DEF WorkflowNext, WorkflowStep, RunOn, Migrate, workflowVars, Execute,
     ClaimStaleRun, WriteInput, PlanRun, MarkRunForReview, EngineReturns, ResumeOuter,
     RunWorkflowNode, StartEngine, SaveRunAgent, ProcessDies, GraphRaises, ReadToMigrate,
     UpdateMigrated, EngineEndsRun
<1> QED BY <1>3, <1>4

\* require_checkpoint_version and the recovery plan: a thread of another version keeps its
\* history and its place until a migration, and until then the engine does not end the run.
THEOREM OldWorkflowWaitsHolds == WorkflowSpec => OldWorkflowWaits
<1>1. WorkflowInv /\ [WorkflowNext]_workflowVars =>
        [/\ flow.version \in {"unversioned", "other"} /\ flow' # flow =>
               /\ flow.version = "unversioned" /\ flow'.version = "current"
               /\ flow'.next = flow.next /\ flow'.path = flow.path
         /\ flow.version \in {"unversioned", "other"} /\ flow.next # "end" /\ status' # status =>
               status' \in {"failed", "needs_review"}]_workflowVars
  BY OldWorkflowStep DEF OldThread
<1> QED BY WorkflowInvariant, <1>1, PTL DEF WorkflowSpec, OldWorkflowWaits

\* The run of an outer graph ends once: no review, exception or second execution changes
\* the end that an earlier execution committed.
WorkflowEndsOnce == [][status # "running" => UNCHANGED status]_workflowVars

THEOREM WorkflowEndsOnceHolds == WorkflowSpec => WorkflowEndsOnce
<1>1. ASSUME WorkflowInv, WorkflowNext, status # "running"
      PROVE  UNCHANGED status
  <2>1. exec.pc \notin {"enter", "plan", "review"}
    BY <1>1, WorkflowNow DEF ExecutionOK
  <2> QED BY <1>1, <2>1 DEF WorkflowNext, WorkflowStep, RunOn, Migrate, Execute,
     ClaimStaleRun, WriteInput, PlanRun, MarkRunForReview, EngineReturns, ResumeOuter,
     RunWorkflowNode, StartEngine, SaveRunAgent, ProcessDies, GraphRaises, ReadToMigrate,
     UpdateMigrated, EngineEndsRun
<1>2. WorkflowInv /\ [WorkflowNext]_workflowVars
        => [(status # "running") => UNCHANGED status]_workflowVars
  BY <1>1
<1> QED BY WorkflowInvariant, <1>2, PTL DEF WorkflowSpec, WorkflowEndsOnce
=============================================================================
