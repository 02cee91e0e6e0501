----------------------------- MODULE ToolRuntime -----------------------------
(***************************************************************************)
(* The life of ONE ToolCallRecord, the row that (task_id, idempotency_key)  *)
(* identifies, under several database sessions: API calls and replays of    *)
(* the same operation key (tool_runtime.py), the authorization each of them *)
(* records (authorization.py), one-time human approvals (tool_approval.py)  *)
(* and recovery with provider reconciliation (tool_recovery.py).            *)
(*                                                                          *)
(* Every action is one database read or one session.commit(): between two   *)
(* of them another session may run, or the process may die.  What a session *)
(* loaded and still holds in its ORM objects is in local[s].                *)
(***************************************************************************)
EXTENDS Naturals

CONSTANTS
  Session,          \* concurrent database sessions (requests, workers)
  Request,          \* request fingerprints a caller may send under this key
  Effect,           \* ToolDefinition.effect
  RequireApproval,  \* TaskPolicy.external_writes_require_approval
  HasReconciler,    \* ToolDefinition.reconciler is set
  Approval,         \* ToolApproval rows that may be created (a bound)
  MaxRuns,          \* bound on handler invocations
  MaxCrashes,       \* bound on sessions that die
  None              \* NULL

ASSUME ConstantsAssumption ==
  /\ Effect \in {"read", "internal_write", "external_write"}
  /\ RequireApproval \in BOOLEAN
  /\ HasReconciler \in BOOLEAN
  /\ MaxRuns \in Nat \ {0}
  /\ MaxCrashes \in Nat
  /\ None \notin Approval
  /\ None \notin Nat
  /\ None \notin Request

VARIABLES
  \* columns of the row
  status, attempts, opId, recon, fp,
  \* ToolAuthorization.decision of the newest row; is the tool in allowed_tools
  lastAuth, allowed,
  \* ToolApproval rows, and the before-state fixtures (attempt numbers)
  approvals, fixtures,
  \* handler invocations: how many, what each did at the provider, and the
  \* approval and the fixture each one started from
  runs, effect, paidBy, snapOf,
  \* the sessions, and how many of them have died
  pc, local, crashes

row      == <<status, attempts, opId, recon, fp>>
grants   == <<lastAuth, allowed, approvals>>
handler  == <<runs, effect, paidBy, snapOf>>
vars     == <<row, grants, fixtures, handler, pc, local, crashes>>

(***************************************************************************)
(* Values                                                                   *)
(***************************************************************************)
Status == {"absent", "proposed", "authorized", "awaiting_approval",
           "executing", "succeeded", "failed", "denied", "outcome_unknown",
           "needs_review"}
\* Mutant: the scan forgets calls that died after their authorization.
Recoverable_NoAuthorized == {"proposed", "executing", "outcome_unknown"}
Recoverable == {"proposed", "authorized", "executing", "outcome_unknown"}
\* Mutant: an AgentRun recovery takes a failed call for an interrupted one.
TerminalToolStatus_NotFailed == {"succeeded", "denied"}
TerminalToolStatus == {"succeeded", "failed", "denied"}
Decision == {"allowed", "denied", "requires_approval"}
\* "lapsed": expired, but the row still occupies active_slot
ApprovalState == {"none", "active", "lapsed", "revoked", "consumed"}
ProviderState == {"none", "pending", "applied"}
Answer == {"succeeded", "not_found", "pending", "unknown"}
Run == 1 .. MaxRuns

\* Why a session asks for authorization: it created the row, it replays a call
\* still waiting for execution, it replays any other call, it recovers an
\* interrupted call, or the provider has just answered "not_found".
Flow == {"new", "pending", "replay", "recover", "not_found"}

PC == {"idle", "insert", "policy", "select", "consume", "record", "refuse",
       "authorize", "load", "executing", "capture", "fixture", "invoke", "finish",
       "scanned", "decide", "reconcile", "approve"}

Local == [flow : Flow, req : Request \cup {None}, seen : Status,
          seenOp : Run \cup {None}, decision : Decision,
          pays : Approval \cup {None}, att : Nat, snap : Nat,
          run : Run \cup {None}, answer : Answer]

Blank == [flow |-> "new", req |-> None, seen |-> "absent", seenOp |-> None,
          decision |-> "denied", pays |-> None, att |-> 0, snap |-> 0,
          run |-> None, answer |-> "unknown"]

Init ==
  /\ status = "absent" /\ attempts = 0 /\ opId = None
  /\ recon = None /\ fp = None
  /\ lastAuth = None
  /\ allowed = (Effect = "read")      \* default_allowed_tools
  /\ approvals = [a \in Approval |-> "none"]
  /\ fixtures = {}
  /\ runs = 0
  /\ effect = [r \in Run |-> "none"]
  /\ paidBy = [r \in Run |-> None]
  /\ snapOf = [r \in Run |-> 0]
  /\ pc = [s \in Session |-> "idle"]
  /\ local = [s \in Session |-> Blank]
  /\ crashes = 0

(***************************************************************************)
(* Helpers                                                                  *)
(***************************************************************************)
Goto(s, l)  == pc' = [pc EXCEPT ![s] = l]
Return(s)   == Goto(s, "idle") /\ local' = [local EXCEPT ![s] = Blank]

\* SQLAlchemy leaves a column out of the UPDATE when the value assigned equals
\* the one the session loaded, so what another session wrote meanwhile stays.
Flushed(loaded, new, current) == IF new = loaded THEN current ELSE new

HoldsSlot(a) == approvals[a] \in {"active", "lapsed"}

\* Every read tool of TOOL_REGISTRY has idempotency_mode "none": each call gets
\* a key, hence a row, of its own.
OperationKey == Effect # "read"

(***************************************************************************)
(* run_tool_call: find or insert the row, then authorize                    *)
(***************************************************************************)
AskAuthorization(s, l) == Goto(s, "policy") /\ local' = [local EXCEPT ![s] = l]

\* Mutant: the fingerprint of a replayed request is not compared.
ReplayOrConflict_AnyRequest(s, q) ==
  AskAuthorization(s, [Blank EXCEPT
    !.req = q, !.seen = status,
    !.flow = IF status \in {"awaiting_approval", "denied"}
               THEN "pending" ELSE "replay"])

\* Mutant: a failed call counts as one whose handler is still owed.
ReplayOrConflict_RerunsFailed(s, q) ==
  IF q # fp THEN Return(s)
  ELSE AskAuthorization(s, [Blank EXCEPT
         !.req = q, !.seen = status,
         !.flow = IF status \in {"awaiting_approval", "denied", "failed"}
                    THEN "pending" ELSE "replay"])

\* _replay_or_conflict: the status the session loaded decides whether the
\* handler is still owed; another request under the key is refused.
ReplayOrConflict(s, q) ==
  IF q # fp THEN Return(s)
  ELSE AskAuthorization(s, [Blank EXCEPT
         !.req = q, !.seen = status,
         !.flow = IF status \in {"awaiting_approval", "denied"}
                    THEN "pending" ELSE "replay"])

FindCall(s, q) ==
  /\ pc[s] = "idle"
  /\ \/ /\ status = "absent"
        /\ Goto(s, "insert")
        /\ local' = [local EXCEPT ![s] = [Blank EXCEPT !.req = q]]
     \/ /\ status # "absent"
        /\ OperationKey
        /\ ReplayOrConflict(s, q)
  /\ UNCHANGED <<row, grants, fixtures, handler, crashes>>

\* Mutant: the row is inserted without its request fingerprint.
InsertCall_NoFingerprint(s) ==
  /\ pc[s] = "insert"
  /\ status = "absent"
  /\ status' = "proposed"
  /\ AskAuthorization(s, local[s])
  /\ UNCHANGED <<attempts, opId, recon, fp>>
  /\ UNCHANGED <<grants, fixtures, handler, crashes>>

\* The unique constraint decides between concurrent inserts; the loser rolls
\* back, finds the winner's row and replays it.
InsertCall(s) ==
  /\ pc[s] = "insert"
  /\ \/ /\ status = "absent"
        /\ status' = "proposed"
        /\ fp' = local[s].req
        /\ AskAuthorization(s, local[s])
        /\ UNCHANGED <<attempts, opId, recon>>
     \/ /\ status # "absent"
        /\ OperationKey
        /\ ReplayOrConflict(s, local[s].req)
        /\ UNCHANGED row
     \/ /\ status # "absent"      \* a fresh key: not this row
        /\ ~OperationKey
        /\ Return(s)
        /\ UNCHANGED row
  /\ UNCHANGED <<grants, fixtures, handler, crashes>>

(***************************************************************************)
(* authorize_tool_call                                                      *)
(***************************************************************************)
NeedsApproval(f) ==
  Effect = "external_write" /\ RequireApproval /\ f # "replay"

Decide(s, d, a) ==
  /\ Goto(s, "record")
  /\ local' = [local EXCEPT ![s].decision = d, ![s].pays = a]

ReadPolicy(s) ==
  /\ pc[s] = "policy"
  /\ \/ ~allowed /\ Decide(s, "denied", None)
     \/ allowed /\ ~NeedsApproval(local[s].flow) /\ Decide(s, "allowed", None)
     \/ /\ allowed /\ NeedsApproval(local[s].flow)
        /\ Goto(s, "select")
        /\ UNCHANGED local
  /\ UNCHANGED <<row, grants, fixtures, handler, crashes>>

\* consume_matching_tool_approval, first half: SELECT with the clock read here.
SelectApproval(s) ==
  /\ pc[s] = "select"
  /\ \/ \E a \in Approval :
          /\ approvals[a] = "active"
          /\ Goto(s, "consume")
          /\ local' = [local EXCEPT ![s].pays = a]
     \/ /\ \A a \in Approval : approvals[a] # "active"
        /\ Decide(s, "requires_approval", None)
  /\ UNCHANGED <<row, grants, fixtures, handler, crashes>>

\* The commits of the authorization also flush the reconciliation answer that
\* _reconcile_external_write assigned before asking for it.
FlushRecon(s) ==
  recon' = IF local[s].flow = "not_found" THEN "not_found" ELSE recon

\* Mutant: the UPDATE names the approval only, not its slot.
ConsumeApproval_Unconditional(s) ==
  /\ pc[s] = "consume"
  /\ approvals' = [approvals EXCEPT ![local[s].pays] = "consumed"]
  /\ Decide(s, "allowed", local[s].pays)
  /\ FlushRecon(s)
  /\ UNCHANGED <<status, attempts, opId, fp, lastAuth, allowed, fixtures,
                 handler, crashes>>

\* Second half: the conditional UPDATE.  The slot must still be held; the clock
\* is the one of the SELECT, so a lapse in between does not matter.
ConsumeApproval(s) ==
  /\ pc[s] = "consume"
  /\ LET a == local[s].pays
     IN \/ /\ HoldsSlot(a)
           /\ approvals' = [approvals EXCEPT ![a] = "consumed"]
           /\ Decide(s, "allowed", a)
        \/ /\ ~HoldsSlot(a)
           /\ Decide(s, "requires_approval", None)
           /\ UNCHANGED approvals
  /\ FlushRecon(s)
  /\ UNCHANGED <<status, attempts, opId, fp, lastAuth, allowed, fixtures,
                 handler, crashes>>

\* Where each caller of authorize_tool_call goes when it is allowed ...
AfterAllowed(s) ==
  \/ local[s].flow \in {"new", "pending"}     /\ Goto(s, "authorize") /\ UNCHANGED local
  \/ local[s].flow \in {"recover", "not_found"} /\ Goto(s, "load") /\ UNCHANGED local
  \/ local[s].flow = "replay"                 /\ Return(s)   \* replay_count += 1

\* ... and when it is not: a replay raises ToolReplayPermissionError.
AfterRefused(s) ==
  \/ local[s].flow \in {"pending", "replay"} /\ Return(s)
  \/ local[s].flow \in {"new", "recover", "not_found"} /\ Goto(s, "refuse") /\ UNCHANGED local

RecordAuthorization(s) ==
  /\ pc[s] = "record"
  /\ lastAuth' = local[s].decision
  /\ FlushRecon(s)
  /\ \/ local[s].decision = "allowed" /\ AfterAllowed(s)
     \/ local[s].decision # "allowed" /\ AfterRefused(s)
  /\ UNCHANGED <<status, attempts, opId, fp, allowed, approvals, fixtures,
                 handler, crashes>>

RefusedStatus(f, d) ==
  IF d = "requires_approval" /\ f \in {"new", "not_found"} THEN "awaiting_approval"
  ELSE IF f = "new" THEN "denied"
  ELSE "needs_review"

CommitRefusal(s) ==
  /\ pc[s] = "refuse"
  /\ status' = RefusedStatus(local[s].flow, local[s].decision)
  /\ Return(s)
  /\ UNCHANGED <<attempts, opId, recon, fp, grants, fixtures, handler, crashes>>

(***************************************************************************)
(* _execute_authorized_record and retry_persisted_tool_call                 *)
(***************************************************************************)
CommitAuthorized(s) ==
  /\ pc[s] = "authorize"
  /\ status' = "authorized"
  /\ Goto(s, "load")
  /\ UNCHANGED <<attempts, opId, recon, fp, grants, fixtures, handler, local, crashes>>

\* "attempt_count += 1" loads the expired column; the commit writes it back.
LoadAttempts(s) ==
  /\ pc[s] = "load"
  /\ local' = [local EXCEPT ![s].att = attempts]
  /\ Goto(s, "executing")
  /\ UNCHANGED <<row, grants, fixtures, handler, crashes>>

\* provider_operation_id keeps the value of the previous attempt.
CommitExecuting(s) ==
  /\ pc[s] = "executing"
  /\ status' = "executing"
  /\ attempts' = local[s].att + 1
  /\ Goto(s, IF Effect = "internal_write" THEN "capture" ELSE "invoke")
  /\ UNCHANGED <<opId, recon, fp, grants, fixtures, handler, local, crashes>>

\* capture_tool_before_state on a file-backed SQLite database loads the row,
\* which another session may have moved on, and copies the database ...
CaptureBeforeState(s) ==
  /\ pc[s] = "capture"
  /\ local' = [local EXCEPT ![s].snap = attempts]
  /\ Goto(s, "fixture")
  /\ UNCHANGED <<row, grants, fixtures, handler, crashes>>

\* Mutant: (tool_call_id, attempt_number) is not unique.
CommitFixture_NotUnique(s) ==
  /\ pc[s] = "fixture"
  /\ fixtures' = fixtures \cup {local[s].snap}
  /\ Goto(s, "invoke")
  /\ UNCHANGED <<row, grants, handler, local, crashes>>

\* ... before it stores the fixture.  A second one for the same (tool_call_id,
\* attempt_number) raises IntegrityError, which nothing on the way out handles.
CommitFixture(s) ==
  /\ pc[s] = "fixture"
  /\ \/ /\ local[s].snap \notin fixtures
        /\ fixtures' = fixtures \cup {local[s].snap}
        /\ Goto(s, "invoke")
        /\ UNCHANGED local
     \/ /\ local[s].snap \in fixtures
        /\ Return(s)
        /\ UNCHANGED fixtures
  /\ UNCHANGED <<row, grants, handler, crashes>>

\* What a handler that has returned or raised may leave behind.  An external
\* operation has taken effect, or is still being processed by the provider, or was
\* never accepted.  An internal write runs in session.begin_nested(): pysqlite has
\* no transaction open then, so the savepoint is the outermost one and its RELEASE
\* commits the write; a handler that raised is rolled back to it.
Outcomes ==
  CASE Effect = "external_write" -> ProviderState
    [] Effect = "internal_write" -> {"none", "applied"}
    [] OTHER -> {"none"}

InvokeHandler(s) ==
  /\ pc[s] = "invoke"
  /\ runs < MaxRuns
  /\ runs' = runs + 1
  /\ \E e \in Outcomes : effect' = [effect EXCEPT ![runs + 1] = e]
  /\ paidBy' = [paidBy EXCEPT ![runs + 1] = local[s].pays]
  /\ snapOf' = [snapOf EXCEPT ![runs + 1] = local[s].snap]
  /\ local' = [local EXCEPT ![s].run = runs + 1, ![s].seen = status,
                            ![s].seenOp = opId]
  /\ Goto(s, "finish")
  /\ UNCHANGED <<row, grants, fixtures, crashes>>

\* What the handler of a run reports.  An adapter reports success only of an
\* operation that took effect and failure only of one that did not; otherwise it
\* raises ExternalOperationUncertainError with the operation's id.
Reports(r) ==
  {res \in {"succeeded", "failed", "outcome_unknown"} :
     /\ res = "succeeded" => effect[r] = "applied" \/ Effect = "read"
     /\ res = "failed" => effect[r] = "none"
     /\ res = "outcome_unknown" => Effect = "external_write"}

\* The commit of the result: a transaction of its own, after the handler's.
CommitResult(s) ==
  /\ pc[s] = "finish"
  /\ LET r == local[s].run
     IN \E res \in Reports(r) :
          /\ status' = Flushed(local[s].seen, res, status)
          /\ opId' = Flushed(local[s].seenOp,
                             IF res = "outcome_unknown" THEN r ELSE None, opId)
  /\ Return(s)
  /\ UNCHANGED <<attempts, recon, fp, grants, fixtures, handler, crashes>>

(***************************************************************************)
(* Recovery: recover_stale_tool_calls, recover_tool_call, _recover_record    *)
(***************************************************************************)
LoadForRecovery(s, l) ==
  /\ Goto(s, l)
  /\ local' = [local EXCEPT ![s] = [Blank EXCEPT
                 !.flow = "recover", !.seen = status, !.seenOp = opId]]
  /\ UNCHANGED <<row, grants, fixtures, handler, crashes>>

\* The task's scan.  Only age selects the row: its session may still be alive.
ScanStaleCall(s) ==
  /\ pc[s] = "idle"
  /\ status \in Recoverable
  /\ LoadForRecovery(s, "scanned")

\* Another row of the scan came first: its commits expired this one, which is
\* read again, but not selected again.
RereadScanned(s) ==
  /\ pc[s] = "scanned"
  /\ LoadForRecovery(s, "decide")

\* An AgentRun recovery passes the call of its last step unless it is terminal.
RecoverRunCall(s) ==
  /\ pc[s] = "idle"
  /\ status \notin TerminalToolStatus \cup {"absent"}
  /\ LoadForRecovery(s, "decide")

MarkForReview(s) ==
  /\ status' = Flushed(local[s].seen, "needs_review", status)
  /\ Return(s)
  /\ UNCHANGED <<attempts, opId, recon, fp, effect>>

\* Mutant: the adapter reports an operation in progress as done.
Answers_PendingIsDone(r) ==
  {"unknown", IF effect[r] = "none" THEN "not_found" ELSE "succeeded"}

\* Mutant: the adapter does not find an operation still in progress.
Answers_PendingIsAbsent(r) ==
  {"unknown", IF effect[r] = "applied" THEN "succeeded" ELSE "not_found"}

\* The provider's answer about one operation: an adapter error, an invalid
\* answer and an unsupported one all count as "unknown".
Answers(r) ==
  {"unknown"} \cup
  {CASE effect[r] = "applied" -> "succeeded"
     [] effect[r] = "pending" -> "pending"
     [] OTHER -> "not_found"}

QueryProvider(s) ==
  /\ HasReconciler /\ local[s].seenOp # None
  /\ \E ans \in Answers(local[s].seenOp) :
       local' = [local EXCEPT ![s].answer = ans]
  /\ Goto(s, "reconcile")
  /\ UNCHANGED row

RecoverRecord(s) ==
  /\ pc[s] \in {"scanned", "decide"}
  /\ LET seen == local[s].seen
     IN \/ seen = "proposed" /\ MarkForReview(s)
        \/ /\ seen = "outcome_unknown"
           /\ \/ ~(HasReconciler /\ local[s].seenOp # None) /\ MarkForReview(s)
              \/ QueryProvider(s)
        \/ /\ seen \notin {"proposed", "outcome_unknown"}
           /\ Effect = "external_write"
           /\ status' = "outcome_unknown"
           /\ Return(s)
           /\ UNCHANGED <<attempts, opId, recon, fp>>
        \/ /\ seen \notin {"proposed", "outcome_unknown"}
           /\ Effect # "external_write"
           /\ AskAuthorization(s, local[s])
           /\ UNCHANGED row
  /\ UNCHANGED <<grants, fixtures, handler, crashes>>

\* Mutant: "not_found" is kept pending, as "unknown" is.
Reconcile_NotFoundIsPending(s) ==
  /\ pc[s] = "reconcile"
  /\ \/ /\ local[s].answer = "succeeded"
        /\ status' = "succeeded"
     \/ /\ local[s].answer # "succeeded"
        /\ UNCHANGED status
  /\ recon' = local[s].answer
  /\ Return(s)
  /\ UNCHANGED <<attempts, opId, fp, grants, fixtures, handler, crashes>>

\* _reconcile_external_write after the answer.  A pending or unknown answer
\* assigns the status the session loaded, so the column is not written.
Reconcile(s) ==
  /\ pc[s] = "reconcile"
  /\ \/ /\ local[s].answer = "succeeded"
        /\ status' = "succeeded"
        /\ recon' = "succeeded"
        /\ Return(s)
     \/ /\ local[s].answer = "not_found"
        /\ AskAuthorization(s, [local[s] EXCEPT !.flow = "not_found"])
        /\ UNCHANGED <<status, recon>>
     \/ /\ local[s].answer \in {"pending", "unknown"}
        /\ recon' = local[s].answer
        /\ Return(s)
        /\ UNCHANGED status
  /\ UNCHANGED <<attempts, opId, fp, grants, fixtures, handler, crashes>>

(***************************************************************************)
(* create_tool_approval                                                     *)
(***************************************************************************)
LoadForApproval(s) ==
  /\ pc[s] = "idle"
  /\ Effect = "external_write"
  /\ status \in {"awaiting_approval", "denied"}
  /\ Goto(s, "approve")
  /\ local' = [local EXCEPT ![s] = [Blank EXCEPT !.seen = status]]
  /\ UNCHANGED <<row, grants, fixtures, handler, crashes>>

\* Refused unless the newest authorization asked for an approval and no live
\* approval holds the slot; a lapsed one is revoked to free it.
GrantApproval(s) ==
  /\ pc[s] = "approve"
  /\ \/ /\ lastAuth = "requires_approval"
        /\ \A a \in Approval : approvals[a] # "active"
        /\ \E a \in Approval :
             /\ approvals[a] = "none"
             /\ approvals' = [b \in Approval |->
                  IF b = a THEN "active"
                  ELSE IF approvals[b] = "lapsed" THEN "revoked"
                  ELSE approvals[b]]
        /\ status' = Flushed(local[s].seen, "awaiting_approval", status)
     \/ /\ \/ lastAuth # "requires_approval"
           \/ \E a \in Approval : approvals[a] = "active"
           \/ \A a \in Approval : approvals[a] # "none"
        /\ UNCHANGED <<status, approvals>>
  /\ Return(s)
  /\ UNCHANGED <<attempts, opId, recon, fp, lastAuth, allowed, fixtures,
                 handler, crashes>>

(***************************************************************************)
(* The environment                                                          *)
(***************************************************************************)
ApprovalLapses(a) ==
  /\ approvals[a] = "active"
  /\ approvals' = [approvals EXCEPT ![a] = "lapsed"]
  /\ UNCHANGED <<row, lastAuth, allowed, fixtures, handler, pc, local, crashes>>

\* update_task_policy: one commit that adds or removes the tool.
UpdateTaskPolicy ==
  /\ allowed' = ~allowed
  /\ UNCHANGED <<row, lastAuth, approvals, fixtures, handler, pc, local, crashes>>

\* The provider finishes, or drops, an operation it had accepted.
ProviderSettles(r) ==
  /\ effect[r] = "pending"
  /\ \E e \in {"applied", "none"} : effect' = [effect EXCEPT ![r] = e]
  /\ UNCHANGED <<row, grants, fixtures, runs, paidBy, snapOf, pc, local, crashes>>

\* The process dies, or an exception leaves the request: whatever the session
\* had not committed is lost.
Crash(s) ==
  /\ pc[s] # "idle"
  /\ crashes < MaxCrashes
  /\ crashes' = crashes + 1
  /\ Return(s)
  /\ UNCHANGED <<row, grants, fixtures, handler>>

Start(s) ==
  \/ \E q \in Request : FindCall(s, q)
  \/ ScanStaleCall(s)
  \/ RecoverRunCall(s)
  \/ LoadForApproval(s)

Continue(s) ==
  \/ InsertCall(s)
  \/ ReadPolicy(s) \/ SelectApproval(s) \/ ConsumeApproval(s)
  \/ RecordAuthorization(s) \/ CommitRefusal(s)
  \/ CommitAuthorized(s) \/ LoadAttempts(s) \/ CommitExecuting(s)
  \/ CaptureBeforeState(s) \/ CommitFixture(s) \/ InvokeHandler(s) \/ CommitResult(s)
  \/ RereadScanned(s) \/ RecoverRecord(s) \/ Reconcile(s) \/ GrantApproval(s)

Next ==
  \/ \E s \in Session : Start(s) \/ Continue(s) \/ Crash(s)
  \/ \E a \in Approval : ApprovalLapses(a)
  \/ UpdateTaskPolicy
  \/ \E r \in Run : ProviderSettles(r)

Spec == Init /\ [][Next]_vars

(***************************************************************************)
(* Fairness.  A live session goes on.  Nothing in the code schedules the     *)
(* recovery of tool calls: the operator repeats POST recover-tool-calls until *)
(* the call has settled, the provider finishes what it accepted, and its      *)
(* status query does not fail for ever.                                       *)
(***************************************************************************)
DefiniteAnswer(s) == RecoverRecord(s) /\ local'[s].answer # "unknown"

Fairness ==
  /\ \A s \in Session : /\ WF_vars(Continue(s))
                        /\ SF_vars(ScanStaleCall(s))
                        /\ SF_vars(DefiniteAnswer(s))
  /\ \A r \in Run : WF_vars(ProviderSettles(r))

FairSpec == Spec /\ Fairness

(***************************************************************************)
(* Properties of any number of sessions                                     *)
(***************************************************************************)
\* The shape of every variable; a stored row always has its fingerprint.
TypeOK ==
  /\ status = "absent" <=> fp = None
  /\ status \in Status /\ attempts \in Nat /\ opId \in Run \cup {None}
  /\ recon \in Answer \cup {None} /\ fp \in Request \cup {None}
  /\ lastAuth \in Decision \cup {None} /\ allowed \in BOOLEAN
  /\ approvals \in [Approval -> ApprovalState] /\ fixtures \in SUBSET Nat
  /\ runs \in 0 .. MaxRuns /\ effect \in [Run -> ProviderState]
  /\ paidBy \in [Run -> Approval \cup {None}] /\ snapOf \in [Run -> Nat]
  /\ pc \in [Session -> PC] /\ local \in [Session -> Local]
  /\ crashes \in 0 .. MaxCrashes

Started == 1 .. runs
Applied == {r \in Started : effect[r] = "applied"}

\* An approval is good for one execution: while approvals are required, every
\* invocation of an external-write handler consumed an approval, and no two
\* invocations the same one -- whatever sessions race, crash or retry.
OneRunPerApproval ==
  Effect = "external_write" /\ RequireApproval =>
    \A r \in Started :
      /\ paidBy[r] \in Approval
      /\ approvals[paidBy[r]] = "consumed"
      /\ \A q \in Started : paidBy[q] = paidBy[r] => q = r

\* A write recorded as succeeded did take effect, even when the record was
\* written by a reconciliation, or by a session the recovery had given up on.
SucceededIsReal ==
  status = "succeeded" /\ Effect # "read" => Applied # {}

\* Every attempt of an internal write starts from a before-state fixture of
\* its own, although concurrent retries may compute the same attempt number.
FixturePerRun ==
  Effect = "internal_write" =>
    \A q, r \in Started : snapOf[q] = snapOf[r] => q = r

\* A caller that gets past the fingerprint check only ever executes, or is
\* shown, the request it sent itself, also when it lost the race to insert.
OwnRequestOnly ==
  \A s \in Session :
    pc[s] \notin {"idle", "insert"} /\ local[s].req # None => local[s].req = fp

(***************************************************************************)
(* Properties of one session at a time, which may die at any step            *)
(***************************************************************************)
\* At most one session is inside a request.
Alone == \A s, t \in Session : pc[s] # "idle" /\ pc[t] # "idle" => s = t

\* A write whose outcome is unknown is repeated only if the provider does not
\* have it: nothing the first invocation did survives a second one.
FirstRetryIsSafe ==
  Effect = "external_write" /\ runs > 1 => effect[1] = "none"

\* Neither a replay nor a recovery changes a result once it is recorded.
ResultIsFinal ==
  [][(status \in {"succeeded", "failed"}) => UNCHANGED <<status, runs>>]_vars

RunsMatchDeaths ==
  Effect = "internal_write" =>
    /\ runs <= 1 + crashes
    /\ status = "succeeded" => effect[runs] = "applied"
    /\ status = "failed" => effect[runs] = "none"

\* The handler of an internal write runs again only because a session died over
\* the call, at most once for every death, and the recorded result is that of its
\* last run.  (An earlier run may have had its effect: InternalWriteIsAtomic.)
RepeatedOnlyAfterDeath == []Alone => []RunsMatchDeaths

\* A call whose session died is settled or handed to a human by recovery.
InterruptedCallSettles ==
  status \in {"proposed", "authorized", "executing"}
    ~> status \notin {"proposed", "authorized", "executing"}

\* An unknown outcome is resolved once the provider can tell.
UnknownIsResolved == status = "outcome_unknown" ~> status # "outcome_unknown"

(***************************************************************************)
(* What the documents say and the code does not do                           *)
(***************************************************************************)
\* TODO.md T15: "timeout-after-success does not duplicate an external side
\* effect".
NoDuplicateEffect == \A q, r \in Applied : q = r

\* docs/reliable-tool-runtime.md: an internal write and its record of success are
\* one transaction and are rolled back together when the process dies in between.
InternalWriteIsAtomic ==
  Effect = "internal_write" /\ (\A s \in Session : pc[s] = "idle") =>
    (Applied # {} <=> status = "succeeded")
=============================================================================
