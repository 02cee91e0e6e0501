---------------------------- MODULE LearningGraphProofs ----------------------------
(***************************************************************************)
(* Theorems about LearningGraph for any number of requests, crashes and     *)
(* migrations.                                                             *)
(*                                                                         *)
(* LearningInv is about one request at a time: which version the thread may *)
(* have where the request stands, and what the checkpoint that it works on  *)
(* may hold, however old that is.  A thread leaves the version of an earlier*)
(* program once, and never again has it; so what a request has read of the  *)
(* version stays true, although other requests run in between.              *)
(***************************************************************************)
EXTENDS LearningGraph, SequenceTheorems, TLAPS

(***************************************************************************)
(* Types                                                                    *)
(***************************************************************************)
LEMMA CheckpointFields ==
  ASSUME NEW cp \in Checkpoint
  PROVE  /\ cp.version \in {"none", "current", "unversioned", "other"}
         /\ cp.next \in Node \cup {"end"} /\ cp.waiting \in BOOLEAN /\ cp.path \in Seq(Node)
         /\ cp.errors \in BOOLEAN /\ cp.approved \in {None, "yes", "no"}
         /\ cp.by \in Sessions \cup {None}
BY DEF Checkpoint

LEMMA RequestFields ==
  ASSUME NEW r \in Request
  PROVE  /\ r.kind \in Kinds /\ r.loaded \in TaskStatus /\ r.decision \in {None, "yes", "no"}
         /\ r.state \in Checkpoint /\ r.found \in TaskStatus
BY DEF Request

LEMMA Constructed ==
  /\ NoCheckpoint \in Checkpoint /\ NoCheckpoint.version = "none" /\ NoCheckpoint.next = "end"
  /\ \A s \in Sessions :
       /\ Input(s) \in Checkpoint /\ Input(s).version = "current" /\ ~Input(s).errors
       /\ Input(s).next = "load_skill_demand" /\ Input(s).path = <<>>
       /\ Input(s).approved = None
  /\ NoRequest \in Request /\ NoRequest.kind = "none" /\ NoRequest.found = "draft"
  /\ task \in TaskStatus =>
       \A kind \in Kinds, decision \in {None, "yes", "no"} :
         /\ Fresh(kind, decision) \in Request /\ Fresh(kind, decision).kind = kind
         /\ Fresh(kind, decision).found = "draft" /\ Fresh(kind, decision).state = NoCheckpoint
         /\ Fresh(kind, decision).decision = decision
<1>1. /\ NoCheckpoint \in Checkpoint /\ NoCheckpoint.version = "none"
      /\ NoCheckpoint.next = "end"
  BY DEF NoCheckpoint, Checkpoint
<1>2. ASSUME NEW s \in Sessions
      PROVE  /\ Input(s) \in Checkpoint /\ Input(s).version = "current" /\ ~Input(s).errors
             /\ Input(s).next = "load_skill_demand" /\ Input(s).path = <<>>
             /\ Input(s).approved = None
  BY DEF Input, Checkpoint, Node
<1>3. NoRequest \in Request /\ NoRequest.kind = "none" /\ NoRequest.found = "draft"
  BY <1>1 DEF NoRequest, Request, Kinds, TaskStatus
<1>4. ASSUME task \in TaskStatus, NEW kind \in Kinds, NEW decision \in {None, "yes", "no"}
      PROVE  /\ Fresh(kind, decision) \in Request /\ Fresh(kind, decision).kind = kind
             /\ Fresh(kind, decision).found = "draft"
             /\ Fresh(kind, decision).state = NoCheckpoint
             /\ Fresh(kind, decision).decision = decision
  BY <1>1, <1>4 DEF Fresh, Request, TaskStatus
<1> QED BY <1>1, <1>2, <1>3, <1>4

\* Threads that an earlier version left.
LEMMA OldThreads ==
  ASSUME NEW version \in {"unversioned", "other"}, NEW cp \in Old(version)
  PROVE  /\ cp \in Checkpoint /\ cp.version = version /\ ~cp.errors
         /\ \/ cp.next = "human_review" /\ cp.path = Drafted /\ cp.approved = None
            \/ cp.next = "build_plan" /\ cp.path = <<"load_skill_demand">> /\ cp.approved = None
            \/ /\ cp.next = "end" /\ cp.path = Drafted \o <<"human_review", "block_run">>
               /\ cp.approved = "no"
<1>1. /\ "load_skill_demand" \in Node /\ "build_plan" \in Node /\ "validate_plan" \in Node
      /\ "human_review" \in Node /\ "block_run" \in Node
  BY DEF Node
<1>2. /\ Drafted \in Seq(Node) /\ <<"load_skill_demand">> \in Seq(Node)
      /\ <<"human_review", "block_run">> \in Seq(Node)
  BY <1>1 DEF Drafted
<1>3. Drafted \o <<"human_review", "block_run">> \in Seq(Node)
  BY <1>2
<1>4. PICK next \in Node \cup {"end"}, waiting \in BOOLEAN, path \in Seq(Node),
           approved \in {None, "yes", "no"} :
        /\ cp = [NoCheckpoint EXCEPT !.version = version, !.next = next, !.waiting = waiting,
                                     !.path = path, !.approved = approved]
        /\ \/ next = "human_review" /\ path = Drafted /\ approved = None
           \/ next = "build_plan" /\ path = <<"load_skill_demand">> /\ approved = None
           \/ /\ next = "end" /\ path = Drafted \o <<"human_review", "block_run">>
              /\ approved = "no"
  BY <1>1, <1>2, <1>3 DEF Old
<1>5. /\ cp \in Checkpoint /\ cp.version = version /\ ~cp.errors
      /\ cp.next = next /\ cp.path = path /\ cp.approved = approved
  BY <1>4 DEF NoCheckpoint, Checkpoint
<1> QED BY <1>4, <1>5

\* What a node makes of the checkpoint it runs on.
LEMMA NodeRan ==
  ASSUME NEW cp \in Checkpoint, cp.next \in Node, NEW s \in Sessions,
         NEW errors \in BOOLEAN, NEW decision \in {None, "yes", "no"},
         NEW new, new = AfterNode(cp, s, errors, decision)
  PROVE  /\ new \in Checkpoint /\ new.version = cp.version
         /\ new.path = Append(cp.path, cp.next)
         /\ cp.next # "validate_plan" => new.errors = cp.errors
         /\ cp.next # "human_review" => new.approved = cp.approved
         /\ cp.next = "load_skill_demand" => new.next = "build_plan"
         /\ cp.next = "build_plan" => new.next = "validate_plan"
         /\ cp.next = "validate_plan" =>
              new.errors = errors /\ new.next = IF errors THEN "block_run" ELSE "human_review"
         /\ cp.next = "human_review" =>
              /\ new.approved = decision
              /\ new.next = IF decision = "yes" THEN "complete_run" ELSE "block_run"
         /\ cp.next \in {"complete_run", "block_run"} => new.next = "end"
<1> DEFINE ran == Ran(cp, s)
<1>1. Append(cp.path, cp.next) \in Seq(Node)
  BY CheckpointFields
<1>2. /\ ran \in Checkpoint /\ ran.version = cp.version /\ ran.path = Append(cp.path, cp.next)
      /\ ran.errors = cp.errors /\ ran.approved = cp.approved
  BY <1>1 DEF Ran, Checkpoint
<1> HIDE DEF ran
<1>3. ASSUME NEW c \in Checkpoint, NEW next \in Node \cup {"end"}, NEW goes,
             goes = [c EXCEPT !.next = next]
      PROVE  /\ goes \in Checkpoint /\ goes.version = c.version /\ goes.path = c.path
             /\ goes.errors = c.errors /\ goes.approved = c.approved /\ goes.next = next
  BY <1>3 DEF Checkpoint
<1>4. CASE cp.next = "load_skill_demand"
  <2>1. new = [ran EXCEPT !.next = "build_plan"]
    BY <1>4 DEF AfterNode, ran
  <2>2. "build_plan" \in Node \cup {"end"}
    BY DEF Node
  <2>3. /\ new \in Checkpoint /\ new.version = ran.version /\ new.path = ran.path
        /\ new.errors = ran.errors /\ new.approved = ran.approved /\ new.next = "build_plan"
    BY <1>2, <1>3, <2>1, <2>2
  <2> QED BY <1>2, <1>4, <2>3
<1>5. CASE cp.next = "build_plan"
  <2>1. new = [ran EXCEPT !.next = "validate_plan"]
    BY <1>5 DEF AfterNode, ran
  <2>2. "validate_plan" \in Node \cup {"end"}
    BY DEF Node
  <2>3. /\ new \in Checkpoint /\ new.version = ran.version /\ new.path = ran.path
        /\ new.errors = ran.errors /\ new.approved = ran.approved /\ new.next = "validate_plan"
    BY <1>2, <1>3, <2>1, <2>2
  <2> QED BY <1>2, <1>5, <2>3
<1>6. CASE cp.next = "validate_plan"
  <2> DEFINE checked == [ran EXCEPT !.errors = errors]
             next == IF errors THEN "block_run" ELSE "human_review"
  <2>1. /\ checked \in Checkpoint /\ checked.version = ran.version /\ checked.path = ran.path
        /\ checked.errors = errors /\ checked.approved = ran.approved
    BY <1>2 DEF Checkpoint
  <2>2. new = [checked EXCEPT !.next = next]
    BY <1>6, <2>1 DEF AfterNode, ran, RouteAfterValidation
  <2>3. next \in Node \cup {"end"}
    BY DEF Node
  <2> HIDE DEF checked, next
  <2>4. /\ new \in Checkpoint /\ new.version = checked.version /\ new.path = checked.path
        /\ new.errors = checked.errors /\ new.approved = checked.approved /\ new.next = next
    BY <1>3, <2>1, <2>2, <2>3
  <2> QED BY <1>2, <1>6, <2>1, <2>4 DEF next
<1>7. CASE cp.next = "human_review"
  <2> DEFINE decided == [ran EXCEPT !.approved = decision]
             next == IF decision = "yes" THEN "complete_run" ELSE "block_run"
  <2>1. /\ decided \in Checkpoint /\ decided.version = ran.version /\ decided.path = ran.path
        /\ decided.errors = ran.errors /\ decided.approved = decision
    BY <1>2 DEF Checkpoint
  <2>2. new = [decided EXCEPT !.next = next]
    BY <1>7, <2>1 DEF AfterNode, ran, RouteAfterReview
  <2>3. next \in Node \cup {"end"}
    BY DEF Node
  <2> HIDE DEF decided, next
  <2>4. /\ new \in Checkpoint /\ new.version = decided.version /\ new.path = decided.path
        /\ new.errors = decided.errors /\ new.approved = decided.approved /\ new.next = next
    BY <1>3, <2>1, <2>2, <2>3
  <2> QED BY <1>2, <1>7, <2>1, <2>4 DEF next
<1>8. CASE cp.next \in {"complete_run", "block_run"}
  <2>1. new = [ran EXCEPT !.next = "end"]
    BY <1>8 DEF AfterNode, ran
  <2>2. /\ new \in Checkpoint /\ new.version = ran.version /\ new.path = ran.path
        /\ new.errors = ran.errors /\ new.approved = ran.approved /\ new.next = "end"
    BY <1>2, <1>3, <2>1
  <2> QED BY <1>2, <1>8, <2>2
<1> QED BY <1>4, <1>5, <1>6, <1>7, <1>8 DEF Node

(***************************************************************************)
(* The version of the thread                                                *)
(***************************************************************************)
\* What the thread's version is where a request stands.
RequestOK(s) ==
  /\ pc[s] = "invoke" =>
       \/ local[s].kind = "start" /\ thread.version \in {"none", "current"}
       \/ local[s].kind \in {"resume", "migrate"} /\ thread.version = "current"
  /\ pc[s] = "update" =>
       /\ local[s].kind = "migrate"
       /\ thread.version \in {"unversioned", "current"}
       /\ thread.version = "unversioned" => thread.next = "human_review"
  /\ pc[s] = "node" =>
       /\ thread.version = "current"
       /\ local[s].state.version = "current" /\ local[s].state.next \in Node

LearningInv ==
  /\ LearningTypeOK
  /\ thread.version \in {"unversioned", "other"} => ~thread.errors
  /\ \A s \in Sessions : RequestOK(s)

\* A thread that changes has this version, and did not have another one.
VersionStep ==
  thread' = thread \/ (thread'.version = "current" /\ thread.version # "other")

LEMMA OtherKept ==
  ASSUME LearningTypeOK, NEW t \in Sessions, RequestOK(t), VersionStep,
         pc'[t] = pc[t], local'[t] = local[t]
  PROVE  RequestOK(t)'
<1>1. thread.version \in {"none", "current", "unversioned", "other"}
  BY CheckpointFields DEF LearningTypeOK
<1> QED BY <1>1 DEF RequestOK, VersionStep

LEMMA Proceeds ==
  ASSUME LearningInv, NEW s \in Sessions, NEW at \in Pcs, NEW request \in Request,
         Become(s, at, request), thread' \in Checkpoint, VersionStep,
         task' \in TaskStatus, decisions' \subseteq {"yes", "no"},
         crashes' \in 0..MaxCrashes, migrations' \in Nat, patches' \in Nat,
         pc'[s] = at /\ local'[s] = request => RequestOK(s)'
  PROVE  LearningInv'
<1>1. /\ pc' \in [Sessions -> Pcs] /\ local' \in [Sessions -> Request]
      /\ pc'[s] = at /\ local'[s] = request
      /\ \A t \in Sessions : t # s => pc'[t] = pc[t] /\ local'[t] = local[t]
  BY DEF LearningInv, LearningTypeOK, Become
<1>2. LearningTypeOK'
  BY <1>1 DEF LearningTypeOK
<1>3. ASSUME NEW t \in Sessions PROVE RequestOK(t)'
  <2>1. CASE t = s
    BY <1>1, <2>1
  <2>2. CASE t # s
    BY <1>1, <2>2, OtherKept DEF LearningInv
  <2> QED BY <2>1, <2>2
<1>4. thread'.version \in {"unversioned", "other"} => ~thread'.errors
  BY DEF LearningInv, VersionStep
<1> QED BY <1>2, <1>3, <1>4 DEF LearningInv

LEMMA InitLearningInv == LearningInit => LearningInv
<1> SUFFICES ASSUME LearningInit PROVE LearningInv
  OBVIOUS
<1>1. thread \in Checkpoint /\ ~thread.errors
  <2>1. CASE thread = NoCheckpoint
    BY <2>1, Constructed DEF NoCheckpoint
  <2>2. CASE thread \in Old("unversioned") \cup Old("other")
    BY <2>2, OldThreads
  <2> QED BY <2>1, <2>2 DEF LearningInit
<1>2. LearningTypeOK
  BY <1>1, Constructed, LearningAssumption DEF LearningInit, LearningTypeOK, TaskStatus, Pcs
<1>3. \A s \in Sessions : RequestOK(s)
  BY DEF LearningInit, RequestOK
<1> QED BY <1>1, <1>2, <1>3 DEF LearningInv

\* What a state of the invariant is made of, for one request.
LEMMA Now ==
  ASSUME LearningInv, NEW s \in Sessions
  PROVE  /\ thread \in Checkpoint /\ task \in TaskStatus /\ decisions \subseteq {"yes", "no"}
         /\ crashes \in 0..MaxCrashes /\ migrations \in Nat /\ patches \in Nat
         /\ pc[s] \in Pcs /\ local[s] \in Request /\ RequestOK(s)
BY DEF LearningInv, LearningTypeOK

LEMMA ReadSteps ==
  ASSUME LearningInv, NEW s \in Sessions, Ask(s)
  PROVE  LearningInv' /\ VersionStep
<1>1. VersionStep
  BY DEF Ask, ReadForStart, ReadForMigration, ReadForResume, PatchTask, VersionStep
<1>2. CASE ReadForStart(s)
  <2> DEFINE at == IF thread.version = "none" THEN "invoke" ELSE "report"
             request == Fresh("start", None)
  <2>1. at \in Pcs /\ request \in Request /\ request.kind = "start"
    BY Now, Constructed DEF Pcs, Kinds
  <2>2. /\ Become(s, at, request) /\ UNCHANGED <<thread, task, decisions, crashes, migrations, patches>>
        /\ thread.version \in {"none", "current"}
    BY <1>2 DEF ReadForStart
  <2>3. pc'[s] = at /\ local'[s] = request => RequestOK(s)'
    BY <2>1, <2>2 DEF RequestOK
  <2> HIDE DEF at, request
  <2> QED BY <1>1, <2>1, <2>2, <2>3, Now, Proceeds
<1>3. CASE ReadForMigration(s)
  <2> DEFINE request == Fresh("migrate", None)
  <2>1. "update" \in Pcs /\ request \in Request /\ request.kind = "migrate"
    BY Now, Constructed DEF Pcs, Kinds
  <2>2. /\ Become(s, "update", request)
        /\ UNCHANGED <<thread, task, decisions, crashes, migrations, patches>>
        /\ thread.version = "unversioned" /\ thread.next = "human_review"
    BY <1>3 DEF ReadForMigration
  <2>3. pc'[s] = "update" /\ local'[s] = request => RequestOK(s)'
    BY <2>1, <2>2 DEF RequestOK
  <2> HIDE DEF request
  <2> QED BY <1>1, <2>1, <2>2, <2>3, Now, Proceeds
<1>4. ASSUME NEW decision \in {"yes", "no"}, ReadForResume(s, decision) PROVE LearningInv'
  <2> DEFINE request == Fresh("resume", decision)
  <2>1. "invoke" \in Pcs /\ request \in Request /\ request.kind = "resume"
    BY Now, Constructed DEF Pcs, Kinds
  <2>2. /\ Become(s, "invoke", request)
        /\ UNCHANGED <<thread, task, decisions, crashes, migrations, patches>>
        /\ thread.version = "current"
    BY <1>4 DEF ReadForResume
  <2>3. pc'[s] = "invoke" /\ local'[s] = request => RequestOK(s)'
    BY <2>1, <2>2 DEF RequestOK
  <2> HIDE DEF request
  <2> QED BY <1>1, <2>1, <2>2, <2>3, Now, Proceeds
<1>5. ASSUME NEW status \in Settable, PatchTask(s, status) PROVE LearningInv'
  <2> DEFINE request == [Fresh("patch", None) EXCEPT !.found = status]
  <2>1. "commit" \in Pcs /\ request \in Request
    <3>1. Fresh("patch", None) \in Request
      BY Now, Constructed DEF Kinds
    <3> QED BY <3>1 DEF Request, TaskStatus, Pcs
  <2>2. /\ Become(s, "commit", request) /\ patches' = patches + 1
        /\ UNCHANGED <<thread, task, decisions, crashes, migrations>>
    BY <1>5 DEF PatchTask
  <2>3. pc'[s] = "commit" /\ local'[s] = request => RequestOK(s)'
    BY DEF RequestOK
  <2> HIDE DEF request
  <2>4. patches' \in Nat
    BY <2>2, Now
  <2> QED BY <1>1, <2>1, <2>2, <2>3, <2>4, Now, Proceeds
<1> QED BY <1>1, <1>2, <1>3, <1>4, <1>5 DEF Ask

\* The checkpoint that a migration writes.
LEMMA Migrated ==
  ASSUME LearningInv, NEW s \in Sessions, UpdateState(s)
  PROVE  /\ thread' \in Checkpoint /\ thread'.version = "current"
         /\ thread'.path = thread.path /\ thread'.errors = thread.errors
         /\ thread'.approved = thread.approved
         /\ thread'.next = IF thread.errors THEN "block_run" ELSE "human_review"
<1> DEFINE cp == [thread EXCEPT !.version = "current", !.waiting = FALSE, !.by = s]
<1>1. /\ cp \in Checkpoint /\ cp.version = "current" /\ cp.path = thread.path
      /\ cp.errors = thread.errors /\ cp.approved = thread.approved
  BY Now DEF Checkpoint
<1>2. thread' = [cp EXCEPT !.next = RouteAfterValidation(cp)]
  BY DEF UpdateState
<1>3. RouteAfterValidation(cp) = IF thread.errors THEN "block_run" ELSE "human_review"
  BY <1>1 DEF RouteAfterValidation
<1>4. RouteAfterValidation(cp) \in Node
  BY <1>3 DEF Node
<1> HIDE DEF cp
<1> QED BY <1>1, <1>2, <1>3, <1>4 DEF Checkpoint

LEMMA UpdateStateStep ==
  ASSUME LearningInv, NEW s \in Sessions, UpdateState(s)
  PROVE  LearningInv' /\ VersionStep
<1>1. thread' \in Checkpoint /\ thread'.version = "current"
  BY Migrated
<1>2. VersionStep
  BY <1>1, Now DEF VersionStep, UpdateState, RequestOK
<1>3. local[s].kind = "migrate"
  BY Now DEF RequestOK, UpdateState
<1>4. "invoke" \in Pcs /\ Become(s, "invoke", local[s]) /\ migrations' \in Nat
  BY Now DEF Pcs, UpdateState
<1>5. pc'[s] = "invoke" /\ local'[s] = local[s] => RequestOK(s)'
  BY <1>1, <1>3 DEF RequestOK
<1> QED BY <1>1, <1>2, <1>4, <1>5, Now, Proceeds DEF UpdateState

\* An invocation that has returned, and one that works on a checkpoint.
LEMMA Working ==
  ASSUME LearningInv, NEW s \in Sessions, NEW cp \in Checkpoint
  PROVE  /\ Returned(s) \in Request /\ Returned(s).state = NoCheckpoint
         /\ Returned(s).found = local[s].found /\ Returned(s).kind = local[s].kind
         /\ [local[s] EXCEPT !.state = cp] \in Request
         /\ [local[s] EXCEPT !.state = cp].state = cp
         /\ [local[s] EXCEPT !.state = cp].found = local[s].found
         /\ [local[s] EXCEPT !.state = cp].kind = local[s].kind
<1>1. local[s] \in Request /\ NoCheckpoint \in Checkpoint
  BY Now, Constructed
<1> QED BY <1>1 DEF Returned, Request

LEMMA InvokeStartStep ==
  ASSUME LearningInv, NEW s \in Sessions, InvokeStart(s)
  PROVE  LearningInv' /\ VersionStep
<1> DEFINE request == [local[s] EXCEPT !.state = Input(s)]
<1>1. Input(s) \in Checkpoint /\ Input(s).version = "current" /\ Input(s).next \in Node
  BY Constructed DEF Node
<1>2. request \in Request /\ request.state = Input(s)
  BY <1>1, Working
<1>3. thread' = Input(s) /\ Become(s, "node", request) /\ "node" \in Pcs
  BY DEF InvokeStart, Pcs
<1>4. VersionStep
  BY <1>1, <1>3, Now DEF VersionStep, InvokeStart, RequestOK
<1>5. pc'[s] = "node" /\ local'[s] = request => RequestOK(s)'
  BY <1>1, <1>2, <1>3 DEF RequestOK
<1> HIDE DEF request
<1> QED BY <1>1, <1>2, <1>3, <1>4, <1>5, Now, Proceeds DEF InvokeStart

LEMMA InvokeNewestStep ==
  ASSUME LearningInv, NEW s \in Sessions, InvokeNewest(s)
  PROVE  LearningInv' /\ VersionStep
<1>1. /\ UNCHANGED <<thread, task, crashes, migrations, patches>> /\ VersionStep
      /\ pc[s] = "invoke" /\ local[s].kind \in {"resume", "migrate"}
      /\ decisions' = decisions \cup ({local[s].decision} \ {None})
  BY DEF InvokeNewest, VersionStep
<1>2. decisions' \subseteq {"yes", "no"} /\ thread.version = "current"
  BY <1>1, Now, RequestFields DEF RequestOK
<1>3. CASE thread.next = "end"
  <2>1. Become(s, "report", Returned(s)) /\ "report" \in Pcs /\ Returned(s) \in Request
    BY <1>3, Now, Working DEF InvokeNewest, Pcs
  <2>2. pc'[s] = "report" /\ local'[s] = Returned(s) => RequestOK(s)'
    BY DEF RequestOK
  <2> QED BY <1>1, <1>2, <2>1, <2>2, Now, Proceeds
<1>4. CASE thread.next # "end"
  <2> DEFINE cp == [thread EXCEPT !.waiting = FALSE]
             request == [local[s] EXCEPT !.state = cp]
  <2>1. cp \in Checkpoint /\ cp.version = thread.version /\ cp.next = thread.next
    BY Now DEF Checkpoint
  <2>2. thread.next \in Node
    BY <1>4, Now, CheckpointFields
  <2>3. request \in Request /\ request.state = cp
    BY <2>1, Working
  <2>4. Become(s, "node", request) /\ "node" \in Pcs
    BY <1>4 DEF InvokeNewest, Pcs
  <2>5. pc'[s] = "node" /\ local'[s] = request => RequestOK(s)'
    BY <1>1, <1>2, <2>1, <2>2, <2>3 DEF RequestOK
  <2> HIDE DEF request
  <2> QED BY <1>1, <1>2, <2>3, <2>4, <2>5, Now, Proceeds
<1> QED BY <1>3, <1>4

LEMMA RunNodeStep ==
  ASSUME LearningInv, NEW s \in Sessions, RunNode(s)
  PROVE  LearningInv' /\ VersionStep
<1>1. PICK errors \in BOOLEAN, decision \in decisions \cup {None} :
        thread' = AfterNode(local[s].state, s, errors, decision)
  BY DEF RunNode
<1>2. /\ local[s].state \in Checkpoint /\ local[s].state.next \in Node
      /\ local[s].state.version = "current" /\ decision \in {None, "yes", "no"}
      /\ thread.version = "current"
  BY Now, RequestFields DEF RunNode, RequestOK
<1>3. thread' \in Checkpoint /\ thread'.version = "current"
  BY <1>1, <1>2, NodeRan
<1>4. VersionStep
  BY <1>2, <1>3 DEF VersionStep
<1>5. CASE thread'.next = "end"
  <2>1. Become(s, "report", Returned(s)) /\ "report" \in Pcs /\ Returned(s) \in Request
    BY <1>5, Now, Working, <1>3 DEF RunNode, Pcs
  <2>2. pc'[s] = "report" /\ local'[s] = Returned(s) => RequestOK(s)'
    BY DEF RequestOK
  <2> QED BY <1>3, <1>4, <2>1, <2>2, Now, Proceeds DEF RunNode
<1>6. CASE thread'.next # "end"
  <2> DEFINE request == [local[s] EXCEPT !.state = thread']
  <2>1. thread'.next \in Node
    BY <1>3, <1>6, CheckpointFields
  <2>2. request \in Request /\ request.state = thread'
    BY <1>3, Working
  <2>3. Become(s, "node", request) /\ "node" \in Pcs
    BY <1>6 DEF RunNode, Pcs
  <2>4. pc'[s] = "node" /\ local'[s] = request => RequestOK(s)'
    BY <1>3, <2>1, <2>2 DEF RequestOK
  <2> HIDE DEF request
  <2> QED BY <1>3, <1>4, <2>2, <2>3, <2>4, Now, Proceeds DEF RunNode
<1> QED BY <1>5, <1>6

\* An interrupt marks the newest checkpoint, or changes nothing.
LEMMA Interrupted ==
  ASSUME LearningInv, NEW s \in Sessions, Interrupt(s)
  PROVE  /\ thread' \in Checkpoint /\ thread'.version = thread.version
         /\ thread.version = "current" /\ thread'.next = thread.next
         /\ thread'.path = thread.path /\ thread'.errors = thread.errors
         /\ thread'.approved = thread.approved
<1>1. thread' = thread \/ thread' = [thread EXCEPT !.waiting = TRUE]
  BY DEF Interrupt
<1>2. thread.version = "current" /\ thread \in Checkpoint
  BY Now DEF Interrupt, RequestOK
<1> QED BY <1>1, <1>2 DEF Checkpoint

LEMMA InterruptStep ==
  ASSUME LearningInv, NEW s \in Sessions, Interrupt(s)
  PROVE  LearningInv' /\ VersionStep
<1>1. thread' \in Checkpoint /\ VersionStep
  BY Interrupted DEF VersionStep
<1>2. Become(s, "report", Returned(s)) /\ "report" \in Pcs /\ Returned(s) \in Request
  BY Now, Working DEF Interrupt, Pcs
<1>3. pc'[s] = "report" /\ local'[s] = Returned(s) => RequestOK(s)'
  BY DEF RequestOK
<1> QED BY <1>1, <1>2, <1>3, Now, Proceeds DEF Interrupt

\* The status that a snapshot implies.
LEMMA StatusOfSnapshot ==
  ASSUME NEW kind, NEW cp
  PROVE  /\ StatusOf(kind, cp) \in TaskStatus
         /\ StatusOf(kind, cp) = "completed" => IsCompleted(cp)
BY DEF StatusOf, TaskStatus

LEMMA ReportStep ==
  ASSUME LearningInv, NEW s \in Sessions, Report(s)
  PROVE  LearningInv' /\ VersionStep
<1>1. /\ UNCHANGED <<thread, task, decisions, crashes, migrations, patches>> /\ VersionStep
      /\ "idle" \in Pcs /\ "commit" \in Pcs
  BY DEF Report, VersionStep, Pcs
<1>2. CASE Become(s, "idle", NoRequest)
  <2>1. pc'[s] = "idle" /\ local'[s] = NoRequest => RequestOK(s)'
    BY DEF RequestOK
  <2> QED BY <1>1, <1>2, <2>1, Now, Constructed, Proceeds
<1>3. CASE Become(s, "commit",
                  [local[s] EXCEPT !.found = StatusOf(local[s].kind, thread)])
  <2> DEFINE request == [local[s] EXCEPT !.found = StatusOf(local[s].kind, thread)]
  <2>1. request \in Request
    BY Now, StatusOfSnapshot DEF Request
  <2>2. pc'[s] = "commit" /\ local'[s] = request => RequestOK(s)'
    BY DEF RequestOK
  <2> HIDE DEF request
  <2> QED BY <1>1, <1>3, <2>1, <2>2, Now, Proceeds DEF request
<1> QED BY <1>2, <1>3 DEF Report

LEMMA LeaveStep ==
  ASSUME LearningInv, NEW s \in Sessions, CommitTask(s) \/ DieInRequest(s)
  PROVE  LearningInv' /\ VersionStep
<1>1. /\ UNCHANGED <<thread, decisions, migrations, patches>> /\ VersionStep /\ "idle" \in Pcs
      /\ Become(s, "idle", NoRequest)
  BY DEF CommitTask, DieInRequest, VersionStep, Pcs
<1>2. task' \in TaskStatus
  BY Now, RequestFields DEF CommitTask, DieInRequest
<1>3. crashes' \in 0..MaxCrashes
  BY Now, LearningAssumption DEF CommitTask, DieInRequest
<1>4. pc'[s] = "idle" /\ local'[s] = NoRequest => RequestOK(s)'
  BY DEF RequestOK
<1> QED BY <1>1, <1>2, <1>3, <1>4, Now, Constructed, Proceeds

LEMMA LearningStep ==
  ASSUME LearningInv, [LearningNext]_learningVars
  PROVE  LearningInv' /\ VersionStep
<1>1. CASE UNCHANGED learningVars
  BY <1>1 DEF learningVars, LearningInv, LearningTypeOK, RequestOK, VersionStep
<1>2. CASE LearningNext
  <2>1. PICK s \in Sessions : Ask(s) \/ Handle(s) \/ DieInRequest(s)
    BY <1>2 DEF LearningNext
  <2> QED BY <2>1, ReadSteps, UpdateStateStep, InvokeStartStep, InvokeNewestStep, RunNodeStep,
             InterruptStep, ReportStep, LeaveStep DEF Handle
<1> QED BY <1>1, <1>2

\* Where a request stands says which version the thread may have.
THEOREM LearningInvariant == LearningSpec => []LearningInv
<1>1. LearningInv /\ [LearningNext]_learningVars => LearningInv'
  BY LearningStep
<1> QED BY InitLearningInv, <1>1, PTL DEF LearningSpec

\* The thread, the task and the requests stay well formed.
THEOREM LearningTypeCorrect == LearningSpec => []LearningTypeOK
<1>1. LearningInv => LearningTypeOK
  BY DEF LearningInv
<1> QED BY LearningInvariant, <1>1, PTL

(***************************************************************************)
(* Threads of an earlier version                                            *)
(***************************************************************************)
\* Only a migration rewrites a thread of another version.
LEMMA OldThreadStep ==
  ASSUME LearningInv, [LearningNext]_learningVars,
         thread.version \in {"unversioned", "other"}, thread' # thread
  PROVE  /\ thread.version = "unversioned" /\ migrations' = migrations + 1
         /\ thread.next = "human_review" /\ thread'.next = "human_review"
         /\ thread'.path = thread.path
<1>1. PICK s \in Sessions : Ask(s) \/ Handle(s) \/ DieInRequest(s)
  BY DEF LearningNext, learningVars
<1>2. RequestOK(s) /\ ~thread.errors
  BY Now DEF LearningInv
<1>3. ~Ask(s) /\ ~DieInRequest(s)
  BY DEF Ask, ReadForStart, ReadForMigration, ReadForResume, PatchTask, DieInRequest
<1>4. ~InvokeNewest(s) /\ ~Report(s) /\ ~CommitTask(s)
  BY DEF InvokeNewest, Report, CommitTask
<1>5. ~InvokeStart(s) /\ ~RunNode(s) /\ ~Interrupt(s)
  BY <1>2 DEF InvokeStart, RunNode, Interrupt, RequestOK
<1>6. UpdateState(s)
  BY <1>1, <1>3, <1>4, <1>5 DEF Handle
<1>7. /\ thread'.next = "human_review" /\ thread'.path = thread.path
      /\ migrations' = migrations + 1
  BY <1>2, <1>6, Migrated DEF UpdateState
<1>8. thread.version = "unversioned" /\ thread.next = "human_review"
  BY <1>2, <1>6 DEF UpdateState, RequestOK
<1> QED BY <1>7, <1>8

\* require_checkpoint_version: whatever starts, resumes and races, a thread of another
\* version keeps its history until a migration takes it over at the review.
THEOREM OldThreadsWaitHolds == LearningSpec => OldThreadsWait
<1>1. LearningInv /\ [LearningNext]_learningVars =>
        [thread.version \in {"unversioned", "other"} /\ thread' # thread =>
           /\ thread.version = "unversioned" /\ migrations' = migrations + 1
           /\ thread.next = "human_review" /\ thread'.next = "human_review"
           /\ thread'.path = thread.path]_learningVars
  BY OldThreadStep
<1> QED BY LearningInvariant, <1>1, PTL DEF LearningSpec, OldThreadsWait

(***************************************************************************)
(* Approval                                                                 *)
(***************************************************************************)
\* A checkpoint that was, or will be, completed was approved.
Approved(cp, made) ==
  cp.approved = "yes" \/ cp.next = "complete_run" \/ IsCompleted(cp) => "yes" \in made

\* A request that is going to complete the task says so itself, or has an approval.
Justified(request, made) ==
  request.found = "completed" /\ request.kind # "patch" => "yes" \in made

ApprovalInv ==
  /\ Approved(thread, decisions)
  /\ \A s \in Sessions :
       Approved(local[s].state, decisions) /\ Justified(local[s], decisions)

LEMMA Unapproved ==
  /\ Approved(NoCheckpoint, decisions) /\ \A s \in Sessions : Approved(Input(s), decisions)
  /\ \A cp \in Old("unversioned") \cup Old("other") : Approved(cp, decisions)
<1>1. Approved(NoCheckpoint, decisions) /\ \A s \in Sessions : Approved(Input(s), decisions)
  BY LearningAssumption DEF Approved, NoCheckpoint, Input, IsCompleted
<1>2. ASSUME NEW cp \in Old("unversioned") \cup Old("other") PROVE Approved(cp, decisions)
  <2>1. \/ cp.next = "human_review" /\ cp.path = Drafted /\ cp.approved = None
        \/ cp.next = "build_plan" /\ cp.path = <<"load_skill_demand">> /\ cp.approved = None
        \/ /\ cp.next = "end" /\ cp.path = Drafted \o <<"human_review", "block_run">>
           /\ cp.approved = "no"
    BY OldThreads
  <2>2. cp.approved # "yes" /\ cp.next # "complete_run"
    BY <2>1, LearningAssumption
  <2>3. ~IsCompleted(cp)
    BY <2>1 DEF IsCompleted, Drafted
  <2> QED BY <2>2, <2>3 DEF Approved
<1> QED BY <1>1, <1>2

LEMMA InitApproval == LearningInit => ApprovalInv
<1> SUFFICES ASSUME LearningInit PROVE ApprovalInv
  OBVIOUS
<1>1. Approved(thread, decisions)
  BY Unapproved DEF LearningInit
<1>2. \A s \in Sessions : local[s].state = NoCheckpoint /\ local[s].found # "completed"
  BY DEF LearningInit, NoRequest
<1> QED BY <1>1, <1>2, Unapproved DEF ApprovalInv, Approved, Justified

\* Decisions stay, and so does what they justify.
LEMMA StaysApproved ==
  ASSUME NEW s \in Sessions, NEW at, NEW request, Become(s, at, request),
         LearningInv, ApprovalInv, decisions \subseteq decisions',
         Approved(thread', decisions'),
         Approved(request.state, decisions'), Justified(request, decisions')
  PROVE  ApprovalInv'
<1>1. ASSUME NEW t \in Sessions
      PROVE  Approved(local'[t].state, decisions') /\ Justified(local'[t], decisions')
  <2>1. CASE t = s
    <3>1. local'[t] = request
      BY <2>1 DEF Become, LearningInv, LearningTypeOK
    <3> QED BY <3>1 DEF Approved, Justified
  <2>2. CASE t # s
    <3>1. local'[t] = local[t]
      BY <2>2 DEF Become, LearningInv, LearningTypeOK
    <3> QED BY <3>1 DEF Approved, Justified, ApprovalInv
  <2> QED BY <2>1, <2>2
<1> QED BY <1>1 DEF ApprovalInv

\* The node that runs keeps its checkpoint approved.
LEMMA NodeApproved ==
  ASSUME LearningInv, NEW s \in Sessions, RunNode(s), Approved(local[s].state, decisions)
  PROVE  Approved(thread', decisions')
<1> DEFINE cp == local[s].state
<1>1. PICK errors \in BOOLEAN, decision \in decisions \cup {None} :
        thread' = AfterNode(cp, s, errors, decision)
  BY DEF RunNode
<1>2. cp \in Checkpoint /\ cp.next \in Node /\ decision \in {None, "yes", "no"}
  BY Now, RequestFields DEF RunNode, RequestOK
<1>3. decisions' = decisions
  BY DEF RunNode
<1> HIDE DEF cp
<1>4. /\ thread'.path = Append(cp.path, cp.next)
      /\ cp.next # "human_review" => thread'.approved = cp.approved
      /\ cp.next = "load_skill_demand" => thread'.next = "build_plan"
      /\ cp.next = "build_plan" => thread'.next = "validate_plan"
      /\ cp.next = "validate_plan" =>
           thread'.next = IF errors THEN "block_run" ELSE "human_review"
      /\ cp.next = "human_review" =>
           /\ thread'.approved = decision
           /\ thread'.next = IF decision = "yes" THEN "complete_run" ELSE "block_run"
      /\ cp.next \in {"complete_run", "block_run"} => thread'.next = "end"
  BY <1>1, <1>2, NodeRan
<1>5. thread'.approved = "yes" => "yes" \in decisions
  <2>1. CASE cp.next = "human_review"
    BY <1>1, <1>4, <2>1, LearningAssumption
  <2>2. CASE cp.next # "human_review"
    BY <1>4, <2>2 DEF cp, Approved
  <2> QED BY <2>1, <2>2
<1>6. thread'.next = "complete_run" => "yes" \in decisions
  BY <1>1, <1>2, <1>4, LearningAssumption DEF Node
<1>7. IsCompleted(thread') => cp.next = "complete_run"
  <2>1. cp.path \in Seq(Node)
    BY <1>2, CheckpointFields
  <2>2. thread'.path[Len(thread'.path)] = cp.next
    BY <1>2, <1>4, <2>1
  <2> QED BY <2>2 DEF IsCompleted
<1>8. IsCompleted(thread') => "yes" \in decisions
  BY <1>7 DEF cp, Approved
<1> QED BY <1>3, <1>5, <1>6, <1>8 DEF Approved

LEMMA ApprovalStep ==
  ASSUME LearningInv, ApprovalInv, [LearningNext]_learningVars
  PROVE  ApprovalInv'
<1>1. CASE UNCHANGED learningVars
  BY <1>1 DEF learningVars, ApprovalInv, Approved, Justified
<1>2. CASE LearningNext
  <2>1. PICK s \in Sessions : Ask(s) \/ Handle(s) \/ DieInRequest(s)
    BY <1>2 DEF LearningNext
  <2>2. /\ Approved(thread, decisions) /\ Approved(local[s].state, decisions)
        /\ Approved(NoCheckpoint, decisions) /\ Justified(local[s], decisions)
    BY Unapproved DEF ApprovalInv
  <2>3. /\ NoRequest.state = NoCheckpoint /\ NoRequest.found = "draft"
        /\ Returned(s).state = NoCheckpoint /\ Returned(s).found = local[s].found
        /\ Returned(s).kind = local[s].kind
    BY Now, Working, Constructed DEF NoRequest
  <2>4. ASSUME UNCHANGED thread, decisions \subseteq decisions',
               NEW at, NEW request, Become(s, at, request),
               request.state = NoCheckpoint \/ request.state = local[s].state,
               Justified(request, decisions)
        PROVE  ApprovalInv'
    BY <2>2, <2>4, StaysApproved DEF Approved, Justified
  <2>5. CASE Ask(s)
    <3>1. UNCHANGED <<thread, decisions>>
      BY <2>5 DEF Ask, ReadForStart, ReadForMigration, ReadForResume, PatchTask
    <3>2. CASE \E status \in Settable : PatchTask(s, status)
      <4>1. PICK status \in Settable :
              Become(s, "commit", [Fresh("patch", None) EXCEPT !.found = status])
        BY <3>2 DEF PatchTask
      <4> DEFINE request == [Fresh("patch", None) EXCEPT !.found = status]
      <4>2. request.state = NoCheckpoint /\ request.kind = "patch"
        BY DEF Fresh
      <4>3. Become(s, "commit", request)
        BY <4>1
      <4> HIDE DEF request
      <4> QED BY <2>4, <3>1, <4>2, <4>3 DEF Justified
    <3>3. CASE ~ \E status \in Settable : PatchTask(s, status)
      <4>1. PICK kind \in Kinds, decision \in {None, "yes", "no"}, at \in Pcs :
              Become(s, at, Fresh(kind, decision))
        BY <2>5, <3>3 DEF Ask, ReadForStart, ReadForMigration, ReadForResume, Kinds, Pcs
      <4>2. /\ Fresh(kind, decision).state = NoCheckpoint
            /\ Fresh(kind, decision).found = "draft"
        BY Now, Constructed
      <4> QED BY <2>4, <3>1, <4>1, <4>2 DEF Justified
    <3> QED BY <3>2, <3>3
  <2>6. CASE UpdateState(s)
    <3>1. Approved(thread', decisions')
      <4>1. /\ thread'.path = thread.path /\ thread'.approved = thread.approved
            /\ thread'.next # "complete_run"
        BY <2>6, Migrated
      <4>2. IsCompleted(thread') <=> IsCompleted(thread)
        BY <4>1 DEF IsCompleted
      <4>3. decisions' = decisions
        BY <2>6 DEF UpdateState
      <4> QED BY <2>2, <4>1, <4>2, <4>3 DEF Approved
    <3>2. Become(s, "invoke", local[s]) /\ UNCHANGED decisions
      BY <2>6 DEF UpdateState
    <3> QED BY <2>2, <3>1, <3>2, StaysApproved DEF Approved, Justified
  <2>7. CASE InvokeStart(s)
    <3> DEFINE request == [local[s] EXCEPT !.state = Input(s)]
    <3>1. /\ thread' = Input(s) /\ UNCHANGED decisions
          /\ Become(s, "node", request)
      BY <2>7 DEF InvokeStart
    <3>2. request.state = Input(s) /\ request.found = local[s].found /\ request.kind = local[s].kind
      BY Constructed, Working
    <3>3. Approved(Input(s), decisions)
      BY Unapproved
    <3> HIDE DEF request
    <3> QED BY <2>2, <3>1, <3>2, <3>3, StaysApproved DEF Approved, Justified
  <2>8. CASE InvokeNewest(s)
    <3>1. UNCHANGED thread /\ decisions \subseteq decisions'
      BY <2>8 DEF InvokeNewest
    <3>2. CASE thread.next = "end"
      BY <2>2, <2>3, <2>4, <2>8, <3>1, <3>2 DEF InvokeNewest, Justified
    <3>3. CASE thread.next # "end"
      <4> DEFINE cp == [thread EXCEPT !.waiting = FALSE]
                 request == [local[s] EXCEPT !.state = cp]
      <4>1. cp \in Checkpoint /\ cp.next = thread.next /\ cp.path = thread.path
            /\ cp.approved = thread.approved
        BY Now DEF Checkpoint
      <4>2. request.state = cp /\ request.found = local[s].found /\ request.kind = local[s].kind
        BY <4>1, Working
      <4>3. Become(s, "node", request)
        BY <2>8, <3>3 DEF InvokeNewest
      <4> HIDE DEF cp, request
      <4>4. IsCompleted(cp) <=> IsCompleted(thread)
        BY <4>1 DEF IsCompleted
      <4>5. Approved(request.state, decisions')
        BY <2>2, <3>1, <4>1, <4>2, <4>4 DEF Approved
      <4>6. Approved(thread', decisions')
        BY <2>2, <3>1 DEF Approved
      <4>7. Justified(request, decisions')
        BY <2>2, <3>1, <4>2 DEF Justified
      <4> QED BY <3>1, <4>3, <4>5, <4>6, <4>7, StaysApproved
    <3> QED BY <3>2, <3>3
  <2>9. CASE RunNode(s)
    <3>1. Approved(thread', decisions') /\ UNCHANGED decisions
      BY <2>2, <2>9, NodeApproved DEF RunNode
    <3>2. CASE Become(s, "report", Returned(s))
      BY <2>2, <2>3, <3>1, <3>2, StaysApproved DEF Approved, Justified
    <3>3. CASE Become(s, "node", [local[s] EXCEPT !.state = thread'])
      <4> DEFINE request == [local[s] EXCEPT !.state = thread']
      <4>1. thread' \in Checkpoint
        BY <2>9, RunNodeStep, LearningInv DEF LearningInv, LearningTypeOK
      <4>2. request.state = thread' /\ request.found = local[s].found /\ request.kind = local[s].kind
        BY <4>1, Working
      <4> HIDE DEF request
      <4> QED BY <2>2, <3>1, <3>3, <4>2, StaysApproved DEF Approved, Justified, request
    <3> QED BY <2>9, <3>2, <3>3 DEF RunNode
  <2>10. CASE Interrupt(s)
    <3>1. Approved(thread', decisions') /\ UNCHANGED decisions
      BY <2>2, <2>10, Interrupted DEF Interrupt, Approved, IsCompleted
    <3>2. Become(s, "report", Returned(s))
      BY <2>10 DEF Interrupt
    <3> QED BY <2>2, <2>3, <3>1, <3>2, StaysApproved DEF Approved, Justified
  <2>11. CASE Report(s)
    <3>1. UNCHANGED <<thread, decisions>>
      BY <2>11 DEF Report
    <3>2. CASE Become(s, "idle", NoRequest)
      BY <2>3, <2>4, <3>1, <3>2 DEF Justified
    <3>3. CASE Become(s, "commit", [local[s] EXCEPT !.found = StatusOf(local[s].kind, thread)])
      <4> DEFINE request == [local[s] EXCEPT !.found = StatusOf(local[s].kind, thread)]
      <4>1. /\ request.state = local[s].state
            /\ request.found = StatusOf(local[s].kind, thread)
        BY Now DEF Request
      <4>2. Justified(request, decisions)
        BY <2>2, <4>1, StatusOfSnapshot DEF Approved, Justified
      <4> HIDE DEF request
      <4> QED BY <2>4, <3>1, <3>3, <4>1, <4>2 DEF request
    <3> QED BY <2>11, <3>2, <3>3 DEF Report
  <2>12. CASE CommitTask(s)
    <3>1. UNCHANGED <<thread, decisions>> /\ Become(s, "idle", NoRequest)
      BY <2>12 DEF CommitTask
    <3> QED BY <2>2, <2>3, <3>1, StaysApproved DEF Approved, Justified
  <2>13. CASE DieInRequest(s)
    BY <2>3, <2>4, <2>13 DEF DieInRequest, Justified
  <2> QED BY <2>1, <2>5, <2>6, <2>7, <2>8, <2>9, <2>10, <2>11, <2>12, <2>13 DEF Handle
<1> QED BY <1>1, <1>2

LEMMA CompletionStep ==
  ASSUME LearningInv, ApprovalInv, [LearningNext]_learningVars,
         task' = "completed", task # "completed", "yes" \notin decisions
  PROVE  \E s \in Sessions : pc[s] = "commit" /\ local[s].kind = "patch" /\ pc'[s] = "idle"
<1>1. PICK s \in Sessions : Ask(s) \/ Handle(s) \/ DieInRequest(s)
  BY DEF LearningNext, learningVars
<1>2. CommitTask(s)
  BY <1>1 DEF Ask, ReadForStart, ReadForMigration, ReadForResume, PatchTask, DieInRequest,
     Handle, UpdateState, InvokeStart, InvokeNewest, RunNode, Interrupt, Report
<1>3. pc[s] = "commit" /\ local[s].found = "completed"
  BY <1>2 DEF CommitTask
<1>4. pc'[s] = "idle"
  BY <1>2 DEF CommitTask, Become, LearningInv, LearningTypeOK
<1>5. local[s].kind = "patch"
  BY <1>3 DEF ApprovalInv, Justified
<1> QED BY <1>3, <1>4, <1>5

\* docs/memory-runtime.md: no order of starts, answers, deaths, migrations and settings of
\* the status completes a task that nobody approved and no request declares completed.
THEOREM CompletionHasSourceHolds == LearningSpec => CompletionHasSource
<1>1. LearningInv /\ ApprovalInv /\ [LearningNext]_learningVars => ApprovalInv'
  BY ApprovalStep
<1>2. LearningInv /\ ApprovalInv /\ [LearningNext]_learningVars =>
        [task' = "completed" /\ task # "completed" =>
           \/ "yes" \in decisions
           \/ \E s \in Sessions :
                pc[s] = "commit" /\ local[s].kind = "patch" /\ pc'[s] = "idle"]_learningVars
  BY CompletionStep
<1> QED BY LearningInvariant, InitApproval, <1>1, <1>2, PTL
        DEF LearningSpec, CompletionHasSource

(***************************************************************************)
(* Histories                                                                *)
(***************************************************************************)
\* Consistent, as what each place of the graph implies; and what was not decided yet.
Coherent(cp) ==
  /\ cp.next = "load_skill_demand" => cp.path = <<>>
  /\ cp.next = "build_plan" => cp.path = <<"load_skill_demand">>
  /\ cp.next = "validate_plan" => cp.path = <<"load_skill_demand", "build_plan">>
  /\ cp.next = "human_review" => cp.path = Drafted /\ ~cp.errors /\ cp.approved = None
  /\ cp.next = "complete_run" => cp.path = Reviewed /\ cp.approved = "yes"
  /\ cp.next = "block_run" => \/ cp.path = Drafted /\ cp.errors
                              \/ cp.path = Reviewed /\ cp.approved = "no"
  /\ cp.next = "end" =>
       \/ cp.version = "none"
       \/ cp.path = Append(Drafted, "block_run") /\ cp.errors
       \/ cp.path = Append(Reviewed, "complete_run") /\ cp.approved = "yes"
       \/ cp.path = Append(Reviewed, "block_run") /\ cp.approved = "no"
  /\ cp.next \in {"load_skill_demand", "build_plan", "validate_plan"} => cp.approved = None

LEMMA CoherentIsConsistent ==
  ASSUME NEW cp \in Checkpoint, Coherent(cp)
  PROVE  Consistent(cp)
<1>1. cp.next \in Node \cup {"end"}
  BY CheckpointFields
<1> QED BY <1>1 DEF Coherent, Consistent, Node

LEMMA OneMore ==
  ASSUME NEW x, NEW y, NEW z
  PROVE  /\ Append(<<>>, x) = <<x>> /\ Append(<<x>>, y) = <<x, y>>
         /\ Append(<<x, y>>, z) = <<x, y, z>>
<1> DEFINE S == {x, y, z}
<1>1. <<>> \in Seq(S) /\ <<x>> \in Seq(S) /\ <<x, y>> \in Seq(S) /\ <<x, y, z>> \in Seq(S)
  OBVIOUS
<1>2. /\ Append(<<>>, x) \in Seq(S) /\ Append(<<x>>, y) \in Seq(S)
      /\ Append(<<x, y>>, z) \in Seq(S)
  BY <1>1
<1>3. Append(<<>>, x) = <<x>>
  <2>1. /\ Len(Append(<<>>, x)) = Len(<<x>>)
        /\ \A i \in 1..Len(Append(<<>>, x)) : Append(<<>>, x)[i] = <<x>>[i]
    OBVIOUS
  <2> QED BY <1>1, <1>2, <2>1, SeqEqual
<1>4. Append(<<x>>, y) = <<x, y>>
  <2>1. /\ Len(Append(<<x>>, y)) = Len(<<x, y>>)
        /\ \A i \in 1..Len(Append(<<x>>, y)) : Append(<<x>>, y)[i] = <<x, y>>[i]
    OBVIOUS
  <2> QED BY <1>1, <1>2, <2>1, SeqEqual
<1>5. Append(<<x, y>>, z) = <<x, y, z>>
  <2>1. /\ Len(Append(<<x, y>>, z)) = Len(<<x, y, z>>)
        /\ \A i \in 1..Len(Append(<<x, y>>, z)) : Append(<<x, y>>, z)[i] = <<x, y, z>>[i]
    OBVIOUS
  <2> QED BY <1>1, <1>2, <2>1, SeqEqual
<1> QED BY <1>3, <1>4, <1>5

LEMMA Paths ==
  /\ Append(<<>>, "load_skill_demand") = <<"load_skill_demand">>
  /\ Append(<<"load_skill_demand">>, "build_plan") = <<"load_skill_demand", "build_plan">>
  /\ Append(<<"load_skill_demand", "build_plan">>, "validate_plan") = Drafted
  /\ Append(Drafted, "human_review") = Reviewed
  /\ Drafted \o <<"human_review", "block_run">> = Append(Reviewed, "block_run")
<1>1. /\ Append(<<>>, "load_skill_demand") = <<"load_skill_demand">>
      /\ Append(<<"load_skill_demand">>, "build_plan") = <<"load_skill_demand", "build_plan">>
      /\ Append(<<"load_skill_demand", "build_plan">>, "validate_plan") = Drafted
  BY OneMore DEF Drafted
<1>2. Append(Drafted, "human_review") = Reviewed
  BY DEF Drafted, Reviewed
<1>3. Drafted \o <<"human_review", "block_run">> = Append(Reviewed, "block_run")
  BY DEF Drafted, Reviewed
<1> QED BY <1>1, <1>2, <1>3

LEMMA SameCoherence ==
  ASSUME NEW cp, NEW new, Coherent(cp), new.next = cp.next, new.path = cp.path,
         new.errors = cp.errors, new.approved = cp.approved,
         cp.version = "none" => new.version = "none"
  PROVE  Coherent(new)
BY DEF Coherent

LEMMA NodeCoherent ==
  ASSUME NEW cp \in Checkpoint, cp.next \in Node, Coherent(cp), NEW s \in Sessions,
         NEW errors \in BOOLEAN, NEW decision \in {None, "yes", "no"},
         cp.next = "human_review" => decision # None,
         NEW new, new = AfterNode(cp, s, errors, decision)
  PROVE  Coherent(new)
<1>1. /\ new.path = Append(cp.path, cp.next)
      /\ cp.next # "validate_plan" => new.errors = cp.errors
      /\ cp.next # "human_review" => new.approved = cp.approved
      /\ cp.next = "load_skill_demand" => new.next = "build_plan"
      /\ cp.next = "build_plan" => new.next = "validate_plan"
      /\ cp.next = "validate_plan" =>
           new.errors = errors /\ new.next = IF errors THEN "block_run" ELSE "human_review"
      /\ cp.next = "human_review" =>
           /\ new.approved = decision
           /\ new.next = IF decision = "yes" THEN "complete_run" ELSE "block_run"
      /\ cp.next \in {"complete_run", "block_run"} => new.next = "end"
  BY NodeRan
<1>2. CASE cp.next = "load_skill_demand"
  BY <1>1, <1>2, Paths DEF Coherent
<1>3. CASE cp.next = "build_plan"
  BY <1>1, <1>3, Paths DEF Coherent
<1>4. CASE cp.next = "validate_plan"
  <2>1. new.path = Drafted /\ new.approved = None
    BY <1>1, <1>4, Paths DEF Coherent
  <2>2. \/ new.next = "human_review" /\ new.errors = FALSE
        \/ new.next = "block_run" /\ new.errors = TRUE
    BY <1>1, <1>4
  <2>3. CASE new.next = "human_review"
    BY <2>1, <2>2, <2>3 DEF Coherent
  <2>4. CASE new.next = "block_run"
    BY <2>1, <2>2, <2>4 DEF Coherent
  <2> QED BY <2>2, <2>3, <2>4
<1>5. CASE cp.next = "human_review"
  BY <1>1, <1>5, Paths DEF Coherent
<1>6. CASE cp.next = "complete_run"
  BY <1>1, <1>6 DEF Coherent
<1>7. CASE cp.next = "block_run"
  BY <1>1, <1>7 DEF Coherent
<1> QED BY <1>2, <1>3, <1>4, <1>5, <1>6, <1>7 DEF Node

CoherenceInv ==
  /\ migrations <= 1 =>
       /\ Coherent(thread)
       /\ \A s \in Sessions : pc[s] = "node" => Coherent(local[s].state)
  /\ migrations = 0 => \A s \in Sessions : pc[s] = "update" => thread.version = "unversioned"

LEMMA InitCoherence == LearningInit => CoherenceInv
<1> SUFFICES ASSUME LearningInit PROVE CoherenceInv
  OBVIOUS
<1>1. CASE thread = NoCheckpoint
  BY <1>1 DEF LearningInit, CoherenceInv, Coherent, NoCheckpoint
<1>2. CASE thread \in Old("unversioned") \cup Old("other")
  <2>1. \/ thread.next = "human_review" /\ thread.path = Drafted /\ thread.approved = None
        \/ /\ thread.next = "build_plan" /\ thread.path = <<"load_skill_demand">>
           /\ thread.approved = None
        \/ /\ thread.next = "end" /\ thread.path = Drafted \o <<"human_review", "block_run">>
           /\ thread.approved = "no"
    BY <1>2, OldThreads
  <2>2. ~thread.errors
    BY <1>2, OldThreads
  <2>3. Coherent(thread)
    BY <2>1, <2>2, Paths DEF Coherent
  <2> QED BY <2>3 DEF LearningInit, CoherenceInv
<1> QED BY <1>1, <1>2 DEF LearningInit

\* One request proceeds; the others work on what they have.
LEMMA StaysCoherent ==
  ASSUME LearningInv, CoherenceInv, NEW s \in Sessions, NEW at, NEW request,
         Become(s, at, request), migrations' \in Nat, migrations <= migrations',
         migrations' <= 1 => Coherent(thread'),
         migrations' <= 1 /\ at = "node" => Coherent(request.state),
         migrations' = 0 =>
           /\ thread.version = "unversioned" => thread'.version = "unversioned"
           /\ at = "update" => thread'.version = "unversioned"
  PROVE  CoherenceInv'
<1>1. migrations \in Nat
  BY Now
<1>2. ASSUME NEW t \in Sessions
      PROVE  /\ migrations' <= 1 /\ pc'[t] = "node" => Coherent(local'[t].state)
             /\ migrations' = 0 /\ pc'[t] = "update" => thread'.version = "unversioned"
  <2>1. CASE t = s
    <3>1. local'[t] = request /\ pc'[t] = at
      BY <2>1 DEF Become, LearningInv, LearningTypeOK
    <3> QED BY <3>1
  <2>2. CASE t # s
    <3>1. local'[t] = local[t] /\ pc'[t] = pc[t]
      BY <2>2 DEF Become, LearningInv, LearningTypeOK
    <3>2. migrations' <= 1 => migrations <= 1
      BY <1>1
    <3>3. migrations' = 0 => migrations = 0
      BY <1>1
    <3> QED BY <3>1, <3>2, <3>3 DEF CoherenceInv
  <2> QED BY <2>1, <2>2
<1> QED BY <1>2 DEF CoherenceInv

LEMMA CoherenceStep ==
  ASSUME LearningInv, CoherenceInv, [LearningNext]_learningVars
  PROVE  CoherenceInv'
<1>1. CASE UNCHANGED learningVars
  BY <1>1 DEF learningVars, CoherenceInv, Coherent
<1>2. CASE LearningNext
  <2>1. PICK s \in Sessions : Ask(s) \/ Handle(s) \/ DieInRequest(s)
    BY <1>2 DEF LearningNext
  <2>2. /\ migrations <= 1 => Coherent(thread)
        /\ migrations <= 1 /\ pc[s] = "node" => Coherent(local[s].state)
        /\ migrations = 0 /\ pc[s] = "update" => thread.version = "unversioned"
        /\ migrations \in Nat /\ thread \in Checkpoint
    BY Now DEF CoherenceInv
  \* An action that leaves the thread alone, or changes a thread of this version.
  <2>3. ASSUME UNCHANGED migrations, NEW at, NEW request, Become(s, at, request),
               thread' = thread \/ thread.version # "unversioned",
               migrations <= 1 => Coherent(thread'),
               migrations <= 1 /\ at = "node" => Coherent(request.state),
               at = "update" => thread' = thread /\ thread.version = "unversioned"
        PROVE  CoherenceInv'
    <3>1. /\ migrations' = migrations /\ migrations' \in Nat /\ migrations <= migrations'
      BY <2>2, <2>3
    <3>2. /\ thread.version = "unversioned" => thread'.version = "unversioned"
          /\ at = "update" => thread'.version = "unversioned"
      BY <2>3
    <3> QED BY <2>3, <3>1, <3>2, StaysCoherent
  <2>4. CASE Ask(s)
    <3>1. UNCHANGED <<thread, migrations>>
      BY <2>4 DEF Ask, ReadForStart, ReadForMigration, ReadForResume, PatchTask
    <3>2. PICK at, request :
            /\ at \in {"invoke", "report", "update", "commit"}
            /\ Become(s, at, request) /\ (at = "update" => thread.version = "unversioned")
      <4>1. CASE \E status \in Settable : PatchTask(s, status)
        BY <4>1 DEF PatchTask
      <4>2. CASE ReadForStart(s)
        BY <4>2 DEF ReadForStart
      <4>3. CASE ReadForMigration(s)
        BY <4>3 DEF ReadForMigration
      <4>4. CASE \E decision \in {"yes", "no"} : ReadForResume(s, decision)
        BY <4>4 DEF ReadForResume
      <4> QED BY <2>4, <4>1, <4>2, <4>3, <4>4 DEF Ask
    <3>3. migrations <= 1 => Coherent(thread')
      BY <2>2, <3>1 DEF Coherent
    <3> QED BY <2>3, <3>1, <3>2, <3>3
  <2>5. CASE UpdateState(s)
    <3>1. /\ migrations' = migrations + 1 /\ pc[s] = "update"
          /\ Become(s, "invoke", local[s])
      BY <2>5 DEF UpdateState
    <3>2. ASSUME migrations' <= 1 PROVE Coherent(thread')
      <4>1. migrations = 0 /\ thread.version = "unversioned"
        BY <2>2, <3>1, <3>2
      <4>2. thread.next = "human_review" /\ ~thread.errors
        BY <3>1, <4>1, Now DEF RequestOK, LearningInv
      <4>3. Coherent(thread)
        BY <2>2, <4>1
      <4>4. /\ thread'.next = "human_review" /\ thread'.path = thread.path
            /\ thread'.errors = thread.errors /\ thread'.approved = thread.approved
        BY <2>5, <4>2, Migrated
      <4> QED BY <4>1, <4>2, <4>3, <4>4, SameCoherence
    <3>3. migrations' \in Nat /\ migrations <= migrations' /\ migrations' # 0
      BY <2>2, <3>1
    <3> QED BY <3>1, <3>2, <3>3, StaysCoherent
  <2>6. CASE InvokeStart(s)
    <3> DEFINE request == [local[s] EXCEPT !.state = Input(s)]
    <3>1. /\ thread' = Input(s) /\ UNCHANGED migrations /\ Become(s, "node", request)
          /\ pc[s] = "invoke" /\ local[s].kind = "start"
      BY <2>6 DEF InvokeStart
    <3>2. request.state = Input(s)
      BY Constructed, Working
    <3>3. Coherent(Input(s))
      BY Constructed DEF Coherent
    <3>4. thread.version # "unversioned"
      BY <3>1, Now DEF RequestOK
    <3>5. Coherent(thread') /\ Coherent(request.state)
      BY <3>1, <3>2, <3>3 DEF Coherent
    <3> HIDE DEF request
    <3> QED BY <2>3, <3>1, <3>4, <3>5
  <2>7. CASE InvokeNewest(s)
    <3>1. UNCHANGED <<thread, migrations>> /\ thread.version = "current"
      BY <2>7, Now DEF InvokeNewest, RequestOK
    <3>2. migrations <= 1 => Coherent(thread')
      BY <2>2, <3>1 DEF Coherent
    <3>3. CASE thread.next = "end"
      <4>1. Become(s, "report", Returned(s))
        BY <2>7, <3>3 DEF InvokeNewest
      <4> QED BY <2>3, <3>1, <3>2, <4>1
    <3>4. CASE thread.next # "end"
      <4> DEFINE cp == [thread EXCEPT !.waiting = FALSE]
                 request == [local[s] EXCEPT !.state = cp]
      <4>1. /\ cp \in Checkpoint /\ cp.next = thread.next /\ cp.path = thread.path
            /\ cp.approved = thread.approved /\ cp.errors = thread.errors
            /\ cp.version = thread.version
        BY Now DEF Checkpoint
      <4>2. request.state = cp
        BY <4>1, Working
      <4>3. Become(s, "node", request)
        BY <2>7, <3>4 DEF InvokeNewest
      <4> HIDE DEF cp, request
      <4>4. migrations <= 1 => Coherent(cp)
        BY <2>2, <4>1, SameCoherence
      <4> QED BY <2>3, <3>1, <3>2, <4>2, <4>3, <4>4
    <3> QED BY <3>3, <3>4
  <2>8. CASE RunNode(s)
    <3> DEFINE cp == local[s].state
    <3>1. PICK errors \in BOOLEAN, decision \in decisions \cup {None} :
            /\ decision # None <=> cp.next = "human_review"
            /\ thread' = AfterNode(cp, s, errors, decision)
      BY <2>8 DEF RunNode
    <3>2. /\ cp \in Checkpoint /\ cp.next \in Node /\ decision \in {None, "yes", "no"}
          /\ thread.version = "current" /\ pc[s] = "node"
      BY <2>8, Now, RequestFields DEF RunNode, RequestOK
    <3>3. migrations <= 1 => Coherent(thread')
      <4> HIDE DEF cp
      <4>1. migrations <= 1 => Coherent(cp)
        BY <2>2, <3>2 DEF cp
      <4> QED BY <3>1, <3>2, <4>1, NodeCoherent
    <3>4. UNCHANGED migrations
      BY <2>8 DEF RunNode
    <3>5. CASE Become(s, "report", Returned(s))
      BY <2>3, <3>2, <3>3, <3>4, <3>5
    <3>6. CASE Become(s, "node", [local[s] EXCEPT !.state = thread'])
      <4> DEFINE request == [local[s] EXCEPT !.state = thread']
      <4>1. thread' \in Checkpoint
        BY <2>8, RunNodeStep DEF LearningInv, LearningTypeOK
      <4>2. request.state = thread'
        BY <4>1, Working
      <4>3. migrations <= 1 => Coherent(request.state)
        BY <3>3, <4>2 DEF Coherent
      <4>4. Become(s, "node", request)
        BY <3>6
      <4> HIDE DEF request
      <4> QED BY <2>3, <3>2, <3>3, <3>4, <4>3, <4>4
    <3> QED BY <2>8, <3>5, <3>6 DEF RunNode
  <2>9. CASE Interrupt(s)
    <3>1. /\ thread'.version = thread.version /\ thread.version = "current"
          /\ thread'.next = thread.next /\ thread'.path = thread.path
          /\ thread'.errors = thread.errors /\ thread'.approved = thread.approved
      BY <2>9, Interrupted
    <3>2. migrations <= 1 => Coherent(thread')
      BY <2>2, <3>1, SameCoherence
    <3>3. Become(s, "report", Returned(s)) /\ UNCHANGED migrations
      BY <2>9 DEF Interrupt
    <3> QED BY <2>3, <3>1, <3>2, <3>3
  <2>10. CASE Report(s) \/ CommitTask(s) \/ DieInRequest(s)
    <3>1. /\ UNCHANGED <<thread, migrations>>
          /\ \E at, request : at \in {"idle", "commit"} /\ Become(s, at, request)
      BY <2>10 DEF Report, CommitTask, DieInRequest
    <3>2. migrations <= 1 => Coherent(thread')
      BY <2>2, <3>1 DEF Coherent
    <3> QED BY <2>3, <3>1, <3>2
  <2> QED BY <2>1, <2>4, <2>5, <2>6, <2>7, <2>8, <2>9, <2>10 DEF Handle
<1> QED BY <1>1, <1>2

\* The checkpoints of the graph: starts, answers and deaths in any order leave a history
\* that agrees with where the graph stands, and so does one migration.
THEOREM ThreadIsConsistentHolds == LearningSpec => []ThreadIsConsistent
<1>1. LearningInv /\ CoherenceInv /\ [LearningNext]_learningVars => CoherenceInv'
  BY CoherenceStep
<1>2. LearningInv /\ CoherenceInv => ThreadIsConsistent
  BY Now, CoherentIsConsistent DEF CoherenceInv, ThreadIsConsistent, LearningInv, LearningTypeOK
<1> QED BY LearningInvariant, InitCoherence, <1>1, <1>2, PTL DEF LearningSpec
=============================================================================
