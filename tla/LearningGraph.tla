----------------------------- MODULE LearningGraph -----------------------------
(***************************************************************************)
(* The learning-plan graph of one AgentTask: a LangGraph thread with a     *)
(* checkpoint after every node, a pause for human review, and requests     *)
(* that start, resume and migrate it, or set the status of the task.       *)
(*                                                                         *)
(* LangGraph is external: an invocation loads the newest checkpoint, runs  *)
(* node after node on its own copy and writes a checkpoint after each.     *)
(* Invocations exclude nobody; the newest checkpoint is what others read.  *)
(***************************************************************************)
EXTENDS Integers, Sequences

CONSTANTS Sessions,       \* requests
          Settable,       \* statuses of the task that a request may set
          None,           \* no session, no decision
          MaxCrashes,     \* bound: requests that die
          MaxMigrations,  \* bound: migrations of the thread
          MaxPatches      \* bound: requests that set the task's status

ASSUME LearningAssumption ==
  /\ None \notin Sessions \cup {"yes", "no"}
  /\ MaxCrashes \in Nat /\ MaxMigrations \in Nat /\ MaxPatches \in Nat

VARIABLES thread,      \* the newest checkpoint of the thread
          task,        \* AgentTask.status
          pc,          \* where each request stands
          local,       \* what it holds
          decisions,   \* (history) decisions submitted to the thread
          crashes, migrations, patches   \* (history) how many of each

learningVars == <<thread, task, pc, local, decisions, crashes, migrations, patches>>

-----------------------------------------------------------------------------
(* Checkpoints *)

Node == {"load_skill_demand", "build_plan", "validate_plan", "human_review",
         "complete_run", "block_run"}

Drafted == <<"load_skill_demand", "build_plan", "validate_plan">>

\* version "none": no values; waiting: snapshot.interrupts; path: node_history;
\* errors: validation_errors; by: whose invocation wrote it
Checkpoint == [version : {"none", "current", "unversioned", "other"},
               next : Node \cup {"end"}, waiting : BOOLEAN, path : Seq(Node),
               errors : BOOLEAN, approved : {None, "yes", "no"}, by : Sessions \cup {None}]

NoCheckpoint == [version |-> "none", next |-> "end", waiting |-> FALSE, path |-> <<>>,
                 errors |-> FALSE, approved |-> None, by |-> None]

\* the input of start_learning_graph, which overwrites whatever the thread held
Input(s) == [version |-> "current", next |-> "load_skill_demand", waiting |-> FALSE,
             path |-> <<>>, errors |-> FALSE, approved |-> None, by |-> s]

\* Threads that an earlier version left: at the review, half run, or ended.
Old(version) ==
  LET cp(next, waiting, path, approved) ==
        [NoCheckpoint EXCEPT !.version = version, !.next = next, !.waiting = waiting,
                             !.path = path, !.approved = approved]
  IN  {cp("human_review", TRUE, Drafted, None),
       cp("build_plan", FALSE, <<"load_skill_demand">>, None),
       cp("end", FALSE, Drafted \o <<"human_review", "block_run">>, "no")}

RouteAfterValidation_Status(cp) == IF cp.errors THEN "blocked" ELSE "human_review"
RouteAfterValidation(cp) == IF cp.errors THEN "block_run" ELSE "human_review"
RouteAfterReview_Unrejected(cp) == "complete_run"
RouteAfterReview(cp) == IF cp.approved = "yes" THEN "complete_run" ELSE "block_run"

Ran(cp, s) == [cp EXCEPT !.path = Append(@, cp.next), !.by = s]

\* The checkpoint after cp.next has run.  Whether the plan validates is the data's matter.
AfterNode(cp, s, errors, decision) ==
  CASE cp.next = "load_skill_demand" -> [Ran(cp, s) EXCEPT !.next = "build_plan"]
    [] cp.next = "build_plan" -> [Ran(cp, s) EXCEPT !.next = "validate_plan"]
    [] cp.next = "validate_plan" ->
         LET ran == [Ran(cp, s) EXCEPT !.errors = errors]
         IN  [ran EXCEPT !.next = RouteAfterValidation(ran)]
    [] cp.next = "human_review" ->
         LET ran == [Ran(cp, s) EXCEPT !.approved = decision]
         IN  [ran EXCEPT !.next = RouteAfterReview(ran)]
    [] OTHER -> [Ran(cp, s) EXCEPT !.next = "end"]

\* status of the state: "completed" is what complete_run leaves
IsCompleted(cp) == cp.path # <<>> /\ cp.path[Len(cp.path)] = "complete_run"

-----------------------------------------------------------------------------
(* Requests.  loaded: task.status when the request read the task, which     *)
(* decides whether its commit writes the column; decision: the user's;      *)
(* found: the status that its answer implies.                               *)

Kinds == {"none", "start", "resume", "migrate", "patch"}
Pcs == {"idle", "invoke", "update", "node", "report", "commit"}
TaskStatus == Settable \cup {"draft", "waiting_for_approval", "completed", "blocked"}

Request == [kind : Kinds, loaded : TaskStatus, decision : {None, "yes", "no"},
            state : Checkpoint, found : TaskStatus]

Fresh(kind, decision) == [kind |-> kind, loaded |-> task, decision |-> decision,
                          state |-> NoCheckpoint, found |-> "draft"]
NoRequest == [kind |-> "none", loaded |-> "draft", decision |-> None,
              state |-> NoCheckpoint, found |-> "draft"]

LearningInit ==
  /\ thread \in {NoCheckpoint} \cup Old("unversioned") \cup Old("other")
  /\ task = CASE thread.waiting -> "waiting_for_approval"
              [] thread.next = "end" /\ thread.version # "none" -> "blocked"
              [] OTHER -> "draft"
  /\ pc = [s \in Sessions |-> "idle"]
  /\ local = [s \in Sessions |-> NoRequest]
  /\ decisions = {} /\ crashes = 0 /\ migrations = 0 /\ patches = 0

Become(s, at, request) ==
  /\ pc' = [pc EXCEPT ![s] = at]
  /\ local' = [local EXCEPT ![s] = request]

\* the invocation has returned
Returned(s) == [local[s] EXCEPT !.state = NoCheckpoint, !.decision = None]

\* start_learning_graph: a thread with values is only reported, if its version allows
ReadForStart(s) ==
  /\ pc[s] = "idle"
  /\ thread.version \in {"none", "current"}
  /\ Become(s, IF thread.version = "none" THEN "invoke" ELSE "report", Fresh("start", None))
  /\ UNCHANGED <<thread, task, decisions, crashes, migrations, patches>>

\* resume_learning_graph
ReadForResume_AnyVersion(s, decision) ==
  /\ pc[s] = "idle" /\ thread.waiting
  /\ Become(s, "invoke", Fresh("resume", decision))
  /\ UNCHANGED <<thread, task, decisions, crashes, migrations, patches>>

ReadForResume(s, decision) ==
  /\ pc[s] = "idle"
  /\ thread.waiting /\ thread.version = "current"
  /\ Become(s, "invoke", Fresh("resume", decision))
  /\ UNCHANGED <<thread, task, decisions, crashes, migrations, patches>>

\* migrate_learning_graph_checkpoint
ReadForMigration(s) ==
  /\ pc[s] = "idle" /\ migrations < MaxMigrations
  /\ thread.version = "unversioned" /\ thread.next = "human_review"
  /\ Become(s, "update", Fresh("migrate", None))
  /\ UNCHANGED <<thread, task, decisions, crashes, migrations, patches>>

UpdateState(s) ==
  LET cp == [thread EXCEPT !.version = "current", !.waiting = FALSE, !.by = s]
  IN  /\ pc[s] = "update"
      /\ thread' = [cp EXCEPT !.next = RouteAfterValidation(cp)]
      /\ migrations' = migrations + 1
      /\ Become(s, "invoke", local[s])
      /\ UNCHANGED <<task, decisions, crashes, patches>>

\* invoke: on the input, with the user's decision, or to go on
InvokeStart(s) ==
  /\ pc[s] = "invoke" /\ local[s].kind = "start"
  /\ thread' = Input(s)
  /\ Become(s, "node", [local[s] EXCEPT !.state = Input(s)])
  /\ UNCHANGED <<task, decisions, crashes, migrations, patches>>

InvokeNewest(s) ==
  /\ pc[s] = "invoke" /\ local[s].kind \in {"resume", "migrate"}
  /\ IF thread.next = "end" THEN Become(s, "report", Returned(s))
     ELSE Become(s, "node", [local[s] EXCEPT !.state = [thread EXCEPT !.waiting = FALSE]])
  /\ decisions' = decisions \cup ({local[s].decision} \ {None})
  /\ UNCHANGED <<thread, task, crashes, migrations, patches>>

\* A node that does not pause.  Of decisions submitted to one checkpoint at once LangGraph
\* may use any.
RunNode(s) ==
  /\ pc[s] = "node"
  /\ local[s].state.next = "human_review" => local[s].decision # None
  /\ \E errors \in BOOLEAN, decision \in decisions \cup {None} :
       /\ errors => local[s].state.next = "validate_plan"
       /\ decision # None <=> local[s].state.next = "human_review"
       /\ thread' = AfterNode(local[s].state, s, errors, decision)
  /\ IF thread'.next = "end" THEN Become(s, "report", Returned(s))
     ELSE Become(s, "node", [local[s] EXCEPT !.state = thread'])
  /\ UNCHANGED <<task, decisions, crashes, migrations, patches>>

Interrupt_Unsaved(s) ==
  /\ pc[s] = "node" /\ local[s].state.next = "human_review" /\ local[s].decision = None
  /\ Become(s, "report", Returned(s))
  /\ UNCHANGED <<thread, task, decisions, crashes, migrations, patches>>

\* human_review without a decision: the interrupt belongs to the checkpoint it ran from,
\* which others see only while it is the newest.
Interrupt(s) ==
  /\ pc[s] = "node" /\ local[s].state.next = "human_review" /\ local[s].decision = None
  /\ thread' = IF [thread EXCEPT !.waiting = FALSE] = local[s].state
               THEN [thread EXCEPT !.waiting = TRUE] ELSE thread
  /\ Become(s, "report", Returned(s))
  /\ UNCHANGED <<task, decisions, crashes, migrations, patches>>

\* run_agent_learning_graph, resume_agent_learning_graph: task.status from the snapshot
StatusOf_EndedIsCompleted(kind, cp) ==
  CASE cp.waiting /\ kind = "start" -> "waiting_for_approval"
    [] cp.next = "end" /\ ~(cp.waiting /\ kind = "start") -> "completed"
    [] OTHER -> "blocked"
StatusOf(kind, cp) ==
  CASE cp.waiting /\ kind = "start" -> "waiting_for_approval"
    [] IsCompleted(cp) /\ ~(cp.waiting /\ kind = "start") -> "completed"
    [] OTHER -> "blocked"

\* _graph_result
Report(s) ==
  /\ pc[s] = "report"
  /\ IF local[s].kind = "migrate" THEN Become(s, "idle", NoRequest)
     ELSE Become(s, "commit", [local[s] EXCEPT !.found = StatusOf(local[s].kind, thread)])
  /\ UNCHANGED <<thread, task, decisions, crashes, migrations, patches>>

\* update_agent_task, with whatever status the request names
PatchTask(s, status) ==
  /\ pc[s] = "idle" /\ patches < MaxPatches
  /\ patches' = patches + 1
  /\ Become(s, "commit", [Fresh("patch", None) EXCEPT !.found = status])
  /\ UNCHANGED <<thread, task, decisions, crashes, migrations>>

\* The column is written only if the request changes what it has loaded.
CommitTask(s) ==
  /\ pc[s] = "commit"
  /\ task' = IF local[s].found = local[s].loaded THEN task ELSE local[s].found
  /\ Become(s, "idle", NoRequest)
  /\ UNCHANGED <<thread, decisions, crashes, migrations, patches>>

DieInRequest(s) ==
  /\ pc[s] # "idle" /\ crashes < MaxCrashes
  /\ crashes' = crashes + 1
  /\ Become(s, "idle", NoRequest)
  /\ UNCHANGED <<thread, task, decisions, migrations, patches>>

Ask(s) ==
  \/ ReadForStart(s) \/ ReadForMigration(s)
  \/ \E decision \in {"yes", "no"} : ReadForResume(s, decision)
  \/ \E status \in Settable : PatchTask(s, status)

Handle(s) ==
  \/ UpdateState(s) \/ InvokeStart(s) \/ InvokeNewest(s)
  \/ RunNode(s) \/ Interrupt(s) \/ Report(s) \/ CommitTask(s)

LearningNext == \E s \in Sessions : Ask(s) \/ Handle(s) \/ DieInRequest(s)

LearningSpec == LearningInit /\ [][LearningNext]_learningVars

\* A request runs on unless its process dies.
LearningFairness == \A s \in Sessions : WF_learningVars(Handle(s))

-----------------------------------------------------------------------------
(* Properties *)

\* The thread, the task and the requests are well formed.
LearningTypeOK ==
  /\ thread \in Checkpoint
  /\ task \in TaskStatus
  /\ pc \in [Sessions -> Pcs]
  /\ local \in [Sessions -> Request]
  /\ decisions \subseteq {"yes", "no"}
  /\ crashes \in 0..MaxCrashes /\ migrations \in Nat /\ patches \in Nat

Reviewed == Drafted \o <<"human_review">>

\* The history of a checkpoint agrees with where it stands and with what was decided.
Consistent(cp) ==
  CASE cp.next = "load_skill_demand" -> cp.path = <<>>
    [] cp.next = "build_plan" -> cp.path = <<"load_skill_demand">>
    [] cp.next = "validate_plan" -> cp.path = <<"load_skill_demand", "build_plan">>
    [] cp.next = "human_review" -> cp.path = Drafted /\ ~cp.errors /\ cp.approved = None
    [] cp.next = "complete_run" -> cp.path = Reviewed /\ cp.approved = "yes"
    [] cp.next = "block_run" -> \/ cp.path = Drafted /\ cp.errors
                                \/ cp.path = Reviewed /\ cp.approved = "no"
    [] cp.next = "end" -> \/ cp.version = "none"
                          \/ cp.path = Append(Drafted, "block_run") /\ cp.errors
                          \/ cp.path = Append(Reviewed, "complete_run") /\ cp.approved = "yes"
                          \/ cp.path = Append(Reviewed, "block_run") /\ cp.approved = "no"

\* Starts, resumes and crashes in any order leave a checkpoint that the graph could have
\* reached by itself; so does a migration, unless two of them race.
ThreadIsConsistent == migrations <= 1 => Consistent(thread)

\* docs/memory-runtime.md: a task is completed by a request that says so, or by its graph,
\* and by that only after somebody approved the plan -- even if two users answer one review
\* at once, or others set the status while the graph runs.
CompletionHasSource ==
  [][task' = "completed" /\ task # "completed" =>
       \/ "yes" \in decisions
       \/ \E s \in Sessions : pc[s] = "commit" /\ local[s].kind = "patch" /\ pc'[s] = "idle"
    ]_learningVars

\* require_checkpoint_version: a thread of another version keeps its history and leaves
\* its version only by a migration, from the review.
OldThreadsWait ==
  [][thread.version \in {"unversioned", "other"} /\ thread' # thread =>
       /\ thread.version = "unversioned" /\ migrations' = migrations + 1
       /\ thread.next = "human_review" /\ thread'.next = "human_review"
       /\ thread'.path = thread.path]_learningVars

\* A thread of this version comes to wait for a human or to an end, unless a request died:
\* then nothing ever continues it (start_learning_graph only reports it).
GraphWaitsOrEnds ==
  thread.version = "current" ~> (thread.waiting \/ thread.next = "end" \/ crashes > 0)
=============================================================================
