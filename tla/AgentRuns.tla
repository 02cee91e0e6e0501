----------------------------- MODULE AgentRuns -----------------------------
(***************************************************************************)
(* ONE AgentRun and the executions that work on it: the inline request or   *)
(* pool worker it was created for (agent_workflow.py, agent_run_worker.py), *)
(* startup recovery and the recovery API (agent_run_recovery.py), all of    *)
(* them behind the lease of the row (agent_run_lease.py) and all of them    *)
(* running the same engine (agent_loop.py).                                 *)
(*                                                                          *)
(* Every action is one database read, one commit or one external call.      *)
(* Between two of them another execution runs, the process dies, or an      *)
(* exception is raised.  A tool call is reduced to what the run sees of it; *)
(* ToolRuntime is its detail.                                               *)
(***************************************************************************)
EXTENDS Naturals

CONSTANTS
  Exec,             \* executions that may exist at the same time
  MaxSteps,         \* AgentRun.max_steps
  MaxRows,          \* bound on step rows: an execution that lost its lease
                    \* may add one beyond the limit
  CallIds,          \* does the model give every tool call an id
  DatabaseMayFail,  \* may a read, a commit or a heartbeat raise
  MaxFaults,        \* bound on exceptions, dead processes and heartbeats
  Nobody, Dead      \* lease_owner: NULL; an owner whose process has ended

ASSUME ConstantsAssumption ==
  /\ MaxSteps \in Nat \ {0}
  /\ MaxRows \in Nat
  /\ MaxRows >= MaxSteps
  /\ MaxFaults \in Nat
  /\ CallIds \in BOOLEAN
  /\ DatabaseMayFail \in BOOLEAN
  /\ Nobody \notin Exec
  /\ Dead \notin Exec
  /\ Nobody # Dead

VARIABLES
  \* the agent_runs row; fresh: lease_expires_at is in the future
  status, count, owner, fresh,
  \* its agent_run_steps, with the tool call each one links to
  steps,
  \* the run's working memory, and whether it was promoted to a task fact
  working, promoted,
  \* the executions, their heartbeat threads, and the faults so far
  pc, local, beat, faults

run    == <<status, count, steps>>
lease  == <<owner, fresh>>
memory == <<working, promoted>>
vars   == <<run, lease, memory, pc, local, beat, faults>>

(***************************************************************************)
(* Values                                                                   *)
(***************************************************************************)
Status == {"running", "completed", "max_steps", "failed", "needs_review"}

\* create: the execution the run was created for.  recover: a later one.
Creating   == {"worker", "inline"}
Recovering == {"startup", "api"}

\* A step.  call: its linked ToolCallRecord, "open" until it has a terminal
\* status; "ok" stands for a successful get_skill_demand, "other" for every
\* other result.  records: ToolCallRecords created for it (2: two or more).
Step == [kind    : {"none", "tool", "final"},
         call    : {"none", "open", "ok", "other"},
         obs     : {"none", "ok", "other"},
         records : 0..2]

NoStep == [kind |-> "none", call |-> "none", obs |-> "none", records |-> 0]

EnginePc   == {"boundary", "limit", "build", "model", "record", "tool",
               "waiting", "observe", "complete", "completing", "stop",
               "stopping", "fail", "failing"}
RecoveryPc == {"plan", "pending", "call", "recover", "restore", "review"}
\* Between a successful claim of the lease and its release.
Inside     == EnginePc \cup RecoveryPc
                \cup {"enter", "outer", "raised", "record_failure", "leave"}
Pc         == Inside \cup {"idle", "claim"}

\* pend: executing a pending step outside engine.run.  resumed: the outer
\* workflow was resumed.  seen: run.status as this session loaded it.
\* seq: the step it works on.  obs: the tool result it holds.
Local == [flow    : Creating \cup Recovering \cup {"none"},
          pend    : BOOLEAN,
          resumed : BOOLEAN,
          seen    : Status,
          seq     : 0..MaxRows,
          obs     : {"none", "ok", "other"}]

Fresh(flow) == [flow |-> flow, pend |-> FALSE, resumed |-> FALSE,
                seen |-> "running", seq |-> 0, obs |-> "none"]

Goto(w, p)    == pc' = [pc EXCEPT ![w] = p]
Keep(w, l)    == local' = [local EXCEPT ![w] = l]
SetStep(i, s) == steps' = [steps EXCEPT ![i] = s]

\* An UPDATE leaves out a column whose new value equals the loaded one.
Flushed(seen, new) == IF seen = new THEN status ELSE new

Settled == count > 0 => steps[count].kind = "tool" /\ steps[count].obs # "none"

\* The last step is a tool step without an observation.
Outstanding == count > 0 /\ steps[count].kind = "tool" /\ steps[count].obs = "none"

(***************************************************************************)
(* The lease                                                                *)
(***************************************************************************)
\* Mutants: the claim ignores the owner; an expired owner keeps the run.
Claimable_AnyOwner(w) == status = "running"
Claimable_NoExpiry(w) == status = "running" /\ owner \in {Nobody, w}

\* The WHERE clause of the conditional UPDATE.
Claimable(w) ==
  /\ status = "running"
  /\ owner = Nobody \/ ~fresh \/ owner = w

\* acquire_agent_run_lease; the heartbeat thread starts with it.
Acquire(w) ==
  /\ pc[w] = "claim"
  /\ Claimable(w)
  /\ owner' = w
  /\ fresh' = TRUE
  /\ beat' = [beat EXCEPT ![w] = "on"]
  /\ Goto(w, "enter")
  /\ UNCHANGED <<run, memory, local, faults>>

\* The delivery is skipped: lease_conflict, or the worker returns.
ClaimRefused(w) ==
  /\ pc[w] = "claim"
  /\ ~Claimable(w)
  /\ Goto(w, "idle")
  /\ Keep(w, Fresh("none"))
  /\ UNCHANGED <<run, lease, memory, beat, faults>>

\* release_agent_run_lease: only the owner's row is cleared.
Release(w) ==
  /\ pc[w] = "leave"
  /\ owner' = IF owner = w THEN Nobody ELSE owner
  /\ fresh' = (fresh /\ owner # w)
  /\ beat' = [beat EXCEPT ![w] = "off"]
  /\ Goto(w, "idle")
  /\ Keep(w, Fresh("none"))
  /\ UNCHANGED <<run, memory, faults>>

\* renew_agent_run_lease matched no row: `lost` is set, and never read.
RenewRefused(w) ==
  /\ beat[w] = "on"
  /\ status # "running" \/ owner # w \/ ~fresh
  /\ beat' = [beat EXCEPT ![w] = "lost"]
  /\ UNCHANGED <<run, lease, memory, pc, local, faults>>

\* An exception in the heartbeat thread ends it; the execution goes on.
HeartbeatFails(w) ==
  /\ DatabaseMayFail
  /\ faults < MaxFaults
  /\ beat[w] = "on"
  /\ beat' = [beat EXCEPT ![w] = "lost"]
  /\ faults' = faults + 1
  /\ UNCHANGED <<run, lease, memory, pc, local>>

\* Time passes.  A live heartbeat renews every third of the lease.
LeaseExpires ==
  /\ owner # Nobody
  /\ fresh
  /\ owner \in Exec => beat[owner] # "on"
  /\ fresh' = FALSE
  /\ UNCHANGED <<run, owner, memory, pc, local, beat, faults>>

(***************************************************************************)
(* Ways into the run                                                        *)
(***************************************************************************)
\* The scan of the recovery API or of the startup finds the run stale: steps
\* do not get younger while the model or a tool works.
ScanStale(w) ==
  /\ pc[w] = "idle"
  /\ status = "running"
  /\ \E f \in Recovering : Keep(w, Fresh(f))
  /\ Goto(w, "claim")
  /\ UNCHANGED <<run, lease, memory, beat, faults>>

\* execute_agent_workflow_run, and the first nodes of the graph.
EnterWorkflow(w) ==
  /\ pc[w] = "enter"
  /\ local[w].flow \in Creating
  /\ \/ status # "running" /\ Goto(w, "leave")
     \/ status = "running" /\ owner # w /\ Goto(w, "raised")
     \/ status = "running" /\ owner = w /\ Goto(w, "boundary")
  /\ UNCHANGED <<run, lease, memory, local, beat, faults>>

\* The row is read again after the claim; only the worker tests its status.
EnterRecovery(w) ==
  /\ pc[w] = "enter"
  /\ local[w].flow \in Recovering
  /\ Keep(w, [local[w] EXCEPT !.seen = status])
  /\ Goto(w, IF local[w].flow = "startup" /\ status # "running"
             THEN "leave" ELSE "plan")
  /\ UNCHANGED <<run, lease, memory, beat, faults>>

\* recover_agent_run decides by what the last commit left behind.
PlanRecovery(w) ==
  /\ pc[w] = "plan"
  /\ Keep(w, [local[w] EXCEPT !.seq = count])
  /\ \/ Goto(w, "review")                 \* no such model, or old checkpoint
     \/ ~Outstanding /\ Goto(w, "boundary")
     \/ /\ Outstanding
        /\ Goto(w, IF steps[count].call = "none" THEN "pending" ELSE "call")
  /\ UNCHANGED <<run, lease, memory, beat, faults>>

\* execute_pending_tool_step checks once more, in a session of its own.
LoadPendingStep(w) ==
  /\ pc[w] = "pending"
  /\ LET s == steps[local[w].seq] IN
       \/ /\ s.obs = "none" /\ s.call = "none"
          /\ Keep(w, [local[w] EXCEPT !.pend = TRUE])
          /\ Goto(w, "tool")
       \/ /\ s.obs # "none" \/ s.call # "none"
          /\ Goto(w, "raised")
          /\ UNCHANGED local
  /\ UNCHANGED <<run, lease, memory, beat, faults>>

ReadCall(w) ==
  /\ pc[w] = "call"
  /\ LET c == steps[local[w].seq].call IN
       \/ c = "open" /\ Goto(w, "recover") /\ UNCHANGED local
       \/ c # "open" /\ Goto(w, "restore") /\ Keep(w, [local[w] EXCEPT !.obs = c])
  /\ UNCHANGED <<run, lease, memory, beat, faults>>

\* recover_tool_call settles the call, or leaves it to a human.
RecoverCall(w) ==
  /\ pc[w] = "recover"
  /\ \E c \in {"open", "ok", "other"} :
       /\ steps[local[w].seq].call # "open" => c = steps[local[w].seq].call
       /\ SetStep(local[w].seq, [steps[local[w].seq] EXCEPT !.call = c])
       /\ \/ /\ c = "open"
             /\ Goto(w, "review")
             /\ Keep(w, [local[w] EXCEPT !.seen = status])
          \/ /\ c # "open"
             /\ Goto(w, "restore")
             /\ Keep(w, [local[w] EXCEPT !.obs = c])
  /\ UNCHANGED <<status, count, lease, memory, beat, faults>>

\* Mutant: the call is read again instead of the loaded result.
RestoreObservation_Rereads(w) ==
  /\ pc[w] = "restore"
  /\ SetStep(local[w].seq,
       [steps[local[w].seq] EXCEPT !.obs = steps[local[w].seq].call])
  /\ Keep(w, [local[w] EXCEPT !.obs = "none"])
  /\ Goto(w, "boundary")
  /\ UNCHANGED <<status, count, lease, memory, beat, faults>>

\* _restore_observation; it captures no working memory.
RestoreObservation(w) ==
  /\ pc[w] = "restore"
  /\ SetStep(local[w].seq, [steps[local[w].seq] EXCEPT !.obs = local[w].obs])
  /\ Keep(w, [local[w] EXCEPT !.obs = "none"])
  /\ Goto(w, "boundary")
  /\ UNCHANGED <<status, count, lease, memory, beat, faults>>

\* _mark_run_for_review.
MarkForReview(w) ==
  /\ pc[w] = "review"
  /\ status' = Flushed(local[w].seen, "needs_review")
  /\ Goto(w, "leave")
  /\ UNCHANGED <<count, steps, lease, memory, local, beat, faults>>

\* What follows engine.run: the last nodes of the graph, or the recovery
\* resuming an outer workflow that was interrupted in its run_agent node.
LeaveEngine(w) ==
  /\ pc[w] = "outer"
  /\ \/ /\ Goto(w, "leave")
        /\ UNCHANGED local
     \/ /\ local[w].flow \in Recovering
        /\ ~local[w].resumed
        /\ Keep(w, [local[w] EXCEPT !.resumed = TRUE])
        /\ Goto(w, "boundary")
  /\ UNCHANGED <<run, lease, memory, beat, faults>>

\* An exception left the engine.  The pool reads the row to record it; a
\* request lets it propagate.
ReadForFailure(w) ==
  /\ pc[w] = "raised"
  /\ Goto(w, IF /\ local[w].flow \in {"worker", "startup"}
                /\ status = "running"
                /\ owner = w
             THEN "record_failure" ELSE "leave")
  /\ UNCHANGED <<run, lease, memory, local, beat, faults>>

\* _record_failure; it retires no working memory.
RecordFailure(w) ==
  /\ pc[w] = "record_failure"
  /\ status' = "failed"
  /\ Goto(w, "leave")
  /\ UNCHANGED <<count, steps, lease, memory, local, beat, faults>>

(***************************************************************************)
(* The engine                                                               *)
(***************************************************************************)
\* Mutant: a tool step without an observation does not stop the loop.
FinishCommittedBoundary_SkipsPending(w) ==
  /\ pc[w] = "boundary"
  /\ \/ status # "running" /\ Goto(w, "outer")
     \/ /\ status = "running"
        /\ Goto(w, IF count > 0 => steps[count].kind = "tool"
                   THEN "limit" ELSE "complete")
  /\ UNCHANGED <<run, lease, memory, local, beat, faults>>

\* _finish_committed_boundary.
FinishCommittedBoundary(w) ==
  /\ pc[w] = "boundary"
  /\ \/ status # "running" /\ Goto(w, "outer")
     \/ status = "running" /\ Settled /\ Goto(w, "limit")
     \/ /\ status = "running" /\ ~Settled
        /\ Goto(w, IF steps[count].kind = "final" THEN "complete" ELSE "fail")
  /\ UNCHANGED <<run, lease, memory, local, beat, faults>>

\* _step_limit_reached.
CheckStepLimit(w) ==
  /\ pc[w] = "limit"
  /\ Goto(w, IF count >= MaxSteps THEN "stop" ELSE "build")
  /\ UNCHANGED <<run, lease, memory, local, beat, faults>>

\* _build_request: None when the run is no longer running.
BuildRequest(w) ==
  /\ pc[w] = "build"
  /\ Goto(w, IF status = "running" THEN "model" ELSE "outer")
  /\ UNCHANGED <<run, lease, memory, local, beat, faults>>

\* model.decide has answered; _record_model_decision loads the run.
LoadForDecision(w) ==
  /\ pc[w] = "model"
  /\ \/ status # "running" /\ Goto(w, "fail") /\ UNCHANGED local
     \/ /\ status = "running"
        /\ count < MaxRows
        /\ Keep(w, [local[w] EXCEPT !.seq = count + 1])
        /\ Goto(w, "record")
  /\ UNCHANGED <<run, lease, memory, beat, faults>>

\* Mutant: no unique constraint on (run_id, sequence).
CommitDecision_NotUnique(w) ==
  /\ pc[w] = "record"
  /\ \E k \in {"tool", "final"} :
       /\ count' = local[w].seq
       /\ SetStep(local[w].seq, [NoStep EXCEPT !.kind = k])
       /\ Goto(w, IF k = "tool" THEN "tool" ELSE "complete")
  /\ UNCHANGED <<status, lease, memory, local, beat, faults>>

\* Step and step_count in one commit; (run_id, sequence) is unique.
CommitDecision(w) ==
  /\ pc[w] = "record"
  /\ \/ /\ steps[local[w].seq].kind = "none"
        /\ \E k \in {"tool", "final"} :
             /\ count' = local[w].seq
             /\ SetStep(local[w].seq, [NoStep EXCEPT !.kind = k])
             /\ Goto(w, IF k = "tool" THEN "tool" ELSE "complete")
     \/ /\ steps[local[w].seq].kind # "none"
        /\ Goto(w, "fail")
        /\ UNCHANGED <<count, steps>>
  /\ UNCHANGED <<status, lease, memory, local, beat, faults>>

\* _execute_tool up to the commit of run_tool_call that creates the record
\* and links it.  The key of a step without a call id is fresh every time.
SameKey(s) == CallIds /\ s.records > 0

OneMore(n) == IF n < 2 THEN n + 1 ELSE n

\* Mutant: the record is committed before the step links to it.
InvokeTool_LinksLater(w) ==
  /\ pc[w] = "tool"
  /\ LET s == steps[local[w].seq] IN
       /\ SetStep(local[w].seq, [s EXCEPT !.records = OneMore(@)])
       /\ Goto(w, "waiting")
  /\ UNCHANGED <<status, count, lease, memory, local, beat, faults>>

InvokeTool(w) ==
  /\ pc[w] = "tool"
  /\ LET s == steps[local[w].seq] IN
       \/ /\ ~SameKey(s)
          /\ SetStep(local[w].seq,
               [s EXCEPT !.records = OneMore(@), !.call = "open"])
          /\ Goto(w, "waiting")
          /\ UNCHANGED local
       \/ /\ SameKey(s)                   \* joins the record of that key
          /\ Goto(w, "waiting")
          /\ UNCHANGED <<steps, local>>
       \/ /\ Keep(w, [local[w] EXCEPT !.obs = "other"])  \* refused: no record
          /\ Goto(w, "observe")
          /\ UNCHANGED steps
  /\ UNCHANGED <<status, count, lease, memory, beat, faults>>

\* run_tool_call returns or raises.  A record may be returned without a
\* terminal status; a successful one is final, and its replay may be refused.
ToolReturns(w) ==
  /\ pc[w] = "waiting"
  /\ LET s == steps[local[w].seq] IN
       \E c \in IF s.call = "ok" THEN {"ok"} ELSE {"open", "ok", "other"} :
         /\ SetStep(local[w].seq, [s EXCEPT !.call = c])
         /\ \E o \in {"ok", "other"} :
              /\ o = "ok" => c = "ok"
              /\ o # c => c = "open" \/ s.call = c
              /\ Keep(w, [local[w] EXCEPT !.obs = o])
  /\ Goto(w, "observe")
  /\ UNCHANGED <<status, count, lease, memory, beat, faults>>

\* The observation and the working memory of the run, which is captured once,
\* in one commit.
CommitObservation(w) ==
  /\ pc[w] = "observe"
  /\ SetStep(local[w].seq, [steps[local[w].seq] EXCEPT !.obs = local[w].obs])
  /\ working' = IF local[w].obs = "ok" /\ working = "none"
                THEN "active" ELSE working
  /\ Keep(w, [local[w] EXCEPT !.pend = FALSE, !.obs = "none"])
  /\ Goto(w, IF local[w].pend THEN "boundary" ELSE "limit")
  /\ UNCHANGED <<status, count, lease, promoted, beat, faults>>

\* Retired working memories stay retired.
Retire == working' = IF working = "active" THEN "retired" ELSE working

\* Mutant: the evaluated memories are committed before the run.
LoadToEnd_PromotesFirst(w) ==
  /\ \/ pc[w] = "complete" /\ Goto(w, "completing")
     \/ pc[w] = "stop"     /\ Goto(w, "stopping")
     \/ pc[w] = "fail"     /\ Goto(w, "failing")
  /\ promoted' = (promoted \/ (pc[w] = "complete" /\ working = "active"))
  /\ Keep(w, [local[w] EXCEPT !.seen = status])
  /\ UNCHANGED <<run, lease, working, beat, faults>>

\* _complete_run, _stop_at_limit and _mark_failed load the run first; none of
\* them looks at its status or its owner.
LoadToEnd(w) ==
  /\ \/ pc[w] = "complete" /\ Goto(w, "completing")
     \/ pc[w] = "stop"     /\ Goto(w, "stopping")
     \/ pc[w] = "fail"     /\ Goto(w, "failing")
  /\ Keep(w, [local[w] EXCEPT !.seen = status])
  /\ UNCHANGED <<run, lease, memory, beat, faults>>

\* The evaluator may accept the active working memory as a task fact.
CompleteRun(w) ==
  /\ pc[w] = "completing"
  /\ status' = Flushed(local[w].seen, "completed")
  /\ \E accept \in BOOLEAN :
       promoted' = (promoted \/ (accept /\ working = "active"))
  /\ Retire
  /\ Goto(w, "outer")
  /\ UNCHANGED <<count, steps, lease, local, beat, faults>>

StopAtLimit(w) ==
  /\ pc[w] = "stopping"
  /\ status' = Flushed(local[w].seen, "max_steps")
  /\ Retire
  /\ Goto(w, "outer")
  /\ UNCHANGED <<count, steps, lease, promoted, local, beat, faults>>

MarkFailed(w) ==
  /\ pc[w] = "failing"
  /\ status' = Flushed(local[w].seen, "failed")
  /\ Retire
  /\ Goto(w, "outer")
  /\ UNCHANGED <<count, steps, lease, promoted, local, beat, faults>>

(***************************************************************************)
(* Faults                                                                   *)
(***************************************************************************)
\* Where the code itself, the model, the evaluator, the graph or the recovery
\* of a tool call raises; and, if the database may fail, everywhere.  An
\* exception of a tool is an observation (InvokeTool, ToolReturns).
MayRaise ==
  IF DatabaseMayFail THEN Inside \ {"waiting", "leave"}
  ELSE {"enter", "plan", "recover", "build", "model", "observe", "completing",
        "outer"}

\* engine.run turns an exception into a failed run, unless that fails too.
Handler(w) ==
  CASE pc[w] \in {"raised", "record_failure"} -> "leave"
    [] pc[w] \in EnginePc \ {"fail", "failing"} /\ ~local[w].pend -> "fail"
    [] OTHER -> "raised"

Raise(w) ==
  /\ faults < MaxFaults
  /\ pc[w] \in MayRaise
  /\ Goto(w, Handler(w))
  /\ Keep(w, [local[w] EXCEPT !.pend = FALSE, !.obs = "none"])
  /\ faults' = faults + 1
  /\ UNCHANGED <<run, lease, memory, beat>>

\* The process dies, or the release raises: the row keeps its owner until the
\* lease expires.
Crash(w) ==
  /\ faults < MaxFaults
  /\ pc[w] # "idle"
  /\ owner' = IF owner = w THEN Dead ELSE owner
  /\ beat' = [beat EXCEPT ![w] = "off"]
  /\ Goto(w, "idle")
  /\ Keep(w, Fresh("none"))
  /\ faults' = faults + 1
  /\ UNCHANGED <<run, fresh, memory>>

(***************************************************************************)
(* The specification                                                        *)
(***************************************************************************)
\* create_agent_run has committed the row; the request that did it goes on
\* inline, or has submitted the run to the pool.
Init ==
  /\ status = "running"
  /\ count = 0
  /\ steps = [i \in 1..MaxRows |-> NoStep]
  /\ owner = Nobody
  /\ fresh = FALSE
  /\ working = "none"
  /\ promoted = FALSE
  /\ \E w \in Exec, f \in Creating :
       /\ pc = [v \in Exec |-> IF v = w THEN "claim" ELSE "idle"]
       /\ local = [v \in Exec |-> Fresh(IF v = w THEN f ELSE "none")]
  /\ beat = [w \in Exec |-> "off"]
  /\ faults = 0

Recovery(w) ==
  \/ EnterRecovery(w) \/ PlanRecovery(w) \/ LoadPendingStep(w) \/ ReadCall(w)
  \/ RecoverCall(w) \/ RestoreObservation(w) \/ MarkForReview(w)

Engine(w) ==
  \/ FinishCommittedBoundary(w) \/ CheckStepLimit(w) \/ BuildRequest(w)
  \/ LoadForDecision(w) \/ CommitDecision(w) \/ InvokeTool(w) \/ ToolReturns(w)
  \/ CommitObservation(w) \/ LoadToEnd(w) \/ CompleteRun(w) \/ StopAtLimit(w)
  \/ MarkFailed(w)

\* An execution goes on.
Advance(w) ==
  \/ Acquire(w) \/ ClaimRefused(w) \/ Release(w) \/ EnterWorkflow(w)
  \/ Recovery(w) \/ Engine(w) \/ LeaveEngine(w) \/ ReadForFailure(w)
  \/ RecordFailure(w)

Next ==
  \/ \E w \in Exec :
       \/ Advance(w) \/ ScanStale(w) \/ RenewRefused(w)
       \/ HeartbeatFails(w) \/ Raise(w) \/ Crash(w)
  \/ LeaseExpires

Spec == Init /\ [][Next]_vars

\* A thread that can run does; leases expire; somebody scans for stale runs
\* again and again (the service only does so when it starts).
Fairness ==
  /\ \A w \in Exec : WF_vars(Advance(w)) /\ WF_vars(ScanStale(w))
  /\ WF_vars(LeaseExpires)

FairSpec == Spec /\ Fairness

(***************************************************************************)
(* Properties                                                               *)
(***************************************************************************)
TypeOK ==
  /\ status \in Status
  /\ count \in 0..MaxRows
  /\ owner \in Exec \cup {Nobody, Dead}
  /\ fresh \in BOOLEAN
  /\ steps \in [1..MaxRows -> Step]
  /\ working \in {"none", "active", "retired"}
  /\ promoted \in BOOLEAN
  /\ pc \in [Exec -> Pc]
  /\ local \in [Exec -> Local]
  /\ beat \in [Exec -> {"off", "on", "lost"}]
  /\ faults \in 0..MaxFaults

\* docs/agent-run-recovery.md: duplicate deliveries have different owners, so
\* only one task at a time is inside the workflow.  Holds while heartbeats do
\* not fail, across crashes, expiry and takeover.
OneExecution ==
  \A v, w \in Exec : pc[v] \in Inside /\ pc[w] \in Inside => v = w

\* A step without a linked call has no call at all: the handler of a step is
\* never started under a second key, however often the run is recovered.
OneCallPerStep == \A i \in 1..MaxRows : steps[i].records <= 1

\* Only a completed run turns its working memory into a fact of the task.
PromotedOnlyIfCompleted == promoted => status = "completed"

\* A committed model decision is never replaced or removed, not even by an
\* execution that lost its lease while the model was answering.
DecisionsDurable ==
  [][/\ count' >= count
     /\ \A i \in 1..count : steps'[i].kind = steps[i].kind]_vars

\* A run reaches an end, whatever is raised and whoever dies in between.
RunEnds == status = "running" ~> status # "running"

\* What a reader sees of the steps.
Log == [i \in 1..MaxSteps |-> [kind |-> steps[i].kind, obs |-> steps[i].obs]]

\* To a reader the run is ONE sequential agent: no decision while a tool is
\* outstanding, no step observed twice, no change after the end.
Loop == INSTANCE AgentLoop WITH log <- Log

RunIsSequential == Loop!LoopSpec

(***************************************************************************)
(* What the documents say and the code does not do                           *)
(***************************************************************************)
\* README.md: successful get_skill_demand observations are summarized into
\* the run's working memory for later model steps.
ObservedIsCaptured ==
  status = "running" /\ (\E i \in 1..count : steps[i].obs = "ok")
    => working # "none"

\* README.md: failed or step-limited runs retire it without promotion.
EndedRunHasNoWorkingMemory ==
  status \in {"failed", "max_steps"} => working # "active"
=============================================================================
