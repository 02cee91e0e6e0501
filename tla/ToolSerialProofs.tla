--------------------------- MODULE ToolSerialProofs ---------------------------
(***************************************************************************)
(* Proofs about ToolRuntime while at most one session at a time works on    *)
(* the call: any number of sessions, one after the other, each of which may *)
(* die at any step and leave the row to the next.                           *)
(*                                                                          *)
(* With two sessions at once these theorems are false: recovery takes no    *)
(* lease on a call, so it may run the handler of a call that is alive.      *)
(***************************************************************************)
EXTENDS ToolRuntimeProofs

(***************************************************************************)
(* The inductive invariant                                                  *)
(***************************************************************************)

\* The handler may be called (again): no earlier call is known to have had an
\* effect that the provider still has, or may still have.  A tool whose provider
\* cannot be asked is not called a second time at all.
Clear ==
  Effect = "external_write" =>
    IF HasReconciler THEN runs > 0 => effect[1] = "none" ELSE runs = 0

Interrupted == {"authorized", "executing", "awaiting_approval", "needs_review"}

\* What a session has seen of the row, by the reason why it asks for authorization.
Owes(f) ==
  /\ f = "new" => status = "proposed"
  /\ f = "pending" => status \in {"awaiting_approval", "denied"}
  /\ f = "recover" => Effect # "external_write" /\ status \in Interrupted
  /\ f = "not_found" => status = "outcome_unknown" /\ Clear

\* What holds of the row while a session stands at p with memory l.
Stands(p, l) ==
  /\ p = "insert" => l.flow = "new" /\ status = "absent"
  /\ p \in {"policy", "select", "consume", "record"} => Owes(l.flow)
  /\ p = "refuse" => l.flow \in {"new", "recover", "not_found"} /\ Owes(l.flow)
  /\ p = "authorize" => l.flow \in {"new", "pending"} /\ Owes(l.flow)
  /\ p \in {"load", "executing"} =>
       \/ l.flow \in {"new", "pending"} /\ status = "authorized"
       \/ l.flow \in {"recover", "not_found"} /\ Owes(l.flow)
  /\ p \in {"capture", "fixture", "invoke"} => status = "executing" /\ Clear
  /\ p = "finish" => status = "executing" /\ l.seen = "executing" /\ l.run = runs
  /\ p \in {"scanned", "decide"} =>
       /\ status \notin TerminalToolStatus \cup {"absent"}
       /\ l.flow = "recover" /\ l.seen = status /\ l.seenOp = opId
  /\ p = "reconcile" =>
       status = "outcome_unknown" /\ (l.answer = "not_found" => Clear)
  /\ p = "approve" => status \in {"awaiting_approval", "denied"} /\ l.seen = status

\* A row in one of these states is owed its handler.
Unstarted == {"proposed", "denied", "awaiting_approval", "authorized"}

RowPart ==
  /\ status = "absent" => runs = 0
  /\ status \in Unstarted => Clear
  /\ Effect = "external_write" /\ runs > 1 => HasReconciler /\ effect[1] = "none"
  /\ status = "outcome_unknown" => Effect = "external_write"
  /\ Effect = "internal_write" => \A r \in Run : effect[r] # "pending"

Settled == status \in {"succeeded", "failed"}

\* Every run that has not recorded its result is one that a session is still to
\* record, or one over which a session has died.
RunsPart ==
  /\ RunsMatchDeaths
  /\ Effect = "internal_write" /\ ~Settled /\ (\A s \in Session : pc[s] # "finish")
       => runs <= crashes

SerialInv ==
  /\ RowPart
  /\ RunsPart
  /\ \A s \in Session : Stands(pc[s], local[s])

(***************************************************************************)
(* One session moves, the others are idle                                   *)
(***************************************************************************)
LEMMA IdleStandsNext ==
  ASSUME NEW s, pc'[s] = "idle" PROVE Stands(pc[s], local[s])'
  BY DEF Stands

LEMMA Arrives ==
  ASSUME TypeOK, NEW s \in Session, NEW p, Goto(s, p)
  PROVE  pc'[s] = p /\ \A t \in Session \ {s} : pc'[t] = pc[t]
  BY DEF TypeOK, Goto

\* A session that is busy is the only one; the memory of the others does not matter.
LEMMA BusyMoves ==
  ASSUME TypeOK, Alone, NEW s \in Session, pc[s] # "idle", NEW p, Goto(s, p),
         Stands(pc[s], local[s])'
  PROVE  \A t \in Session : Stands(pc[t], local[t])'
<1> SUFFICES ASSUME NEW t \in Session PROVE Stands(pc[t], local[t])'
  OBVIOUS
<1>1. CASE t = s
  BY <1>1
<1>2. CASE t # s
  <2>1. pc'[t] = "idle"
    BY <1>2, Arrives DEF Alone
  <2> QED BY <2>1, IdleStandsNext
<1> QED BY <1>1, <1>2

\* ... and so is one that becomes busy.
LEMMA IdleMoves ==
  ASSUME TypeOK, Alone', NEW s \in Session, NEW p, p # "idle", Goto(s, p),
         Stands(pc[s], local[s])'
  PROVE  \A t \in Session : Stands(pc[t], local[t])'
<1> SUFFICES ASSUME NEW t \in Session PROVE Stands(pc[t], local[t])'
  OBVIOUS
<1>1. CASE t = s
  BY <1>1
<1>2. CASE t # s
  <2>1. pc'[t] = "idle"
    BY <1>2, Arrives DEF Alone
  <2> QED BY <2>1, IdleStandsNext
<1> QED BY <1>1, <1>2

LEMMA BusyReturns ==
  ASSUME TypeOK, Alone, NEW s \in Session, pc[s] # "idle", Return(s)
  PROVE  \A t \in Session : Stands(pc[t], local[t])'
<1>1. Goto(s, "idle")
  BY DEF Return
<1>2. Stands(pc[s], local[s])'
  BY <1>1, Arrives, IdleStandsNext
<1> QED BY <1>1, <1>2, BusyMoves

\* Nobody gives up a result that it is still to record.
ResultsStay == \A t \in Session : pc[t] = "finish" => pc'[t] = "finish"

LEMMA NobodyGivesUp ==
  ASSUME TypeOK, NEW s \in Session, pc[s] # "finish", NEW p, Goto(s, p)
  PROVE  ResultsStay
  BY Arrives DEF ResultsStay

LEMMA NobodyGivesUpByReturning ==
  ASSUME TypeOK, NEW s \in Session, pc[s] # "finish", Return(s)
  PROVE  ResultsStay
  BY NobodyGivesUp DEF Return

\* What the row part says of a status that changes while no handler runs.
LEMMA SameStatus ==
  ASSUME RowPart, RunsPart, UNCHANGED <<status, handler, crashes>>, ResultsStay
  PROVE  RowPart' /\ RunsPart' /\ (Clear' <=> Clear)
<1>1. RunsPart'
  BY DEF RunsPart, RunsMatchDeaths, Settled, ResultsStay, handler
<1> QED BY <1>1 DEF RowPart, Clear, handler

LEMMA StatusMoves ==
  ASSUME RowPart, RunsPart, UNCHANGED <<handler, crashes>>, ResultsStay, ~Settled,
         status' \notin {"absent", "succeeded", "failed"},
         status' = "outcome_unknown" => Effect = "external_write",
         status' \in Unstarted => Clear
  PROVE  RowPart' /\ RunsPart' /\ (Clear' <=> Clear)
<1>1. RunsPart'
  BY DEF RunsPart, RunsMatchDeaths, Settled, ResultsStay, handler
<1> QED BY <1>1 DEF RowPart, Clear, Unstarted, handler

\* A request that is refused, or dies, without a write changes nothing for others.
LEMMA ReturnsUnchanged ==
  ASSUME TypeOK, SerialInv, NEW s \in Session, Return(s), UNCHANGED <<row, handler>>,
         \/ pc[s] # "finish" /\ UNCHANGED crashes
         \/ crashes' = crashes + 1
  PROVE  SerialInv'
<1>1. ASSUME NEW t \in Session PROVE Stands(pc[t], local[t])'
  <2>1. CASE t = s
    BY <2>1, Arrives, IdleStandsNext DEF Return
  <2>2. CASE t # s
    <3>1. pc'[t] = pc[t] /\ local'[t] = local[t] /\ Stands(pc[t], local[t])
      BY <2>2 DEF Return, Goto, TypeOK, SerialInv
    <3> QED BY <3>1 DEF Stands, Owes, Clear, row, handler
  <2> QED BY <2>1, <2>2
<1>2. RunsPart'
  <2>1. CASE pc[s] # "finish" /\ UNCHANGED crashes
    BY <2>1, NobodyGivesUpByReturning, SameStatus DEF SerialInv, row
  <2>2. CASE crashes' = crashes + 1
    <3>1. runs \in Nat /\ crashes \in Nat
      BY RunsAreNat DEF TypeOK
    <3> QED BY <2>2, <3>1 DEF SerialInv, RunsPart, RunsMatchDeaths, row, handler
  <2> QED BY <2>1, <2>2
<1> QED BY <1>1, <1>2 DEF SerialInv, RowPart, Clear, row, handler

LEMMA SerialInitially == Init => SerialInv
<1> SUFFICES ASSUME Init PROVE SerialInv
  OBVIOUS
<1>1. \A s \in Session : Stands(pc[s], local[s])
  BY DEF Init, Stands
<1>2. RowPart
  BY DEF Init, RowPart, Unstarted
<1>3. RunsPart
  BY ConstantsAssumption DEF ConstantsAssumption, Init, RunsPart, RunsMatchDeaths
<1> QED BY <1>1, <1>2, <1>3 DEF SerialInv

(***************************************************************************)
(* Finding the row and asking for authorization                             *)
(***************************************************************************)
LEMMA FindCallSerial ==
  ASSUME CallInv, SerialInv, Alone', NEW s \in Session, NEW q \in Request, FindCall(s, q)
  PROVE  SerialInv'
<1>1. TypeOK /\ UNCHANGED <<row, handler, crashes>> /\ pc[s] = "idle"
  BY DEF CallInv, FindCall
<1>2. RowPart' /\ RunsPart'
  <2>1. PICK p : Goto(s, p)
    BY DEF FindCall, ReplayOrConflict, AskAuthorization, Return
  <2> QED BY <1>1, <2>1, NobodyGivesUp, SameStatus DEF SerialInv, row
<1>3. CASE status = "absent"
  <2>1. Goto(s, "insert")
    BY <1>3 DEF FindCall
  <2>2. local'[s].flow = "new"
    BY <1>1, <1>3 DEF FindCall, TypeOK, Blank
  <2>3. Stands(pc[s], local[s])'
    BY <1>1, <1>3, <2>1, <2>2, Arrives DEF Stands, row
  <2> QED BY <1>1, <1>2, <2>1, <2>3, IdleMoves DEF SerialInv
<1>4. CASE status # "absent" /\ q # fp
  <2>1. Return(s)
    BY <1>4 DEF FindCall, ReplayOrConflict
  <2> QED BY <1>1, <2>1, ReturnsUnchanged
<1>5. CASE status # "absent" /\ q = fp
  <2>1. Goto(s, "policy")
    BY <1>5 DEF FindCall, ReplayOrConflict, AskAuthorization
  <2>2. local'[s].flow = IF status \in {"awaiting_approval", "denied"} THEN "pending" ELSE "replay"
    <3> DEFINE l == [Blank EXCEPT !.req = q, !.seen = status,
                       !.flow = IF status \in {"awaiting_approval", "denied"}
                                  THEN "pending" ELSE "replay"]
    <3>1. local' = [local EXCEPT ![s] = l]
      BY <1>5 DEF FindCall, ReplayOrConflict, AskAuthorization
    <3>2. l.flow = IF status \in {"awaiting_approval", "denied"} THEN "pending" ELSE "replay"
      BY DEF Blank
    <3> HIDE DEF l
    <3> QED BY <1>1, <3>1, <3>2 DEF TypeOK
  <2>3. Stands(pc[s], local[s])'
    BY <1>1, <1>5, <2>1, <2>2, Arrives DEF Stands, Owes, row
  <2> QED BY <1>1, <1>2, <2>1, <2>3, IdleMoves DEF SerialInv
<1> QED BY <1>3, <1>4, <1>5

LEMMA InsertCallSerial ==
  ASSUME CallInv, SerialInv, Alone, NEW s \in Session, InsertCall(s)
  PROVE  SerialInv'
<1>1. /\ TypeOK /\ UNCHANGED <<handler, crashes>> /\ pc[s] = "insert"
      /\ Stands(pc[s], local[s]) /\ RowPart /\ RunsPart
  BY DEF CallInv, SerialInv, InsertCall
<1>2. status = "absent"
  BY <1>1 DEF Stands
<1>3. status' = "proposed" /\ Goto(s, "policy") /\ local' = [local EXCEPT ![s] = local[s]]
  BY <1>2 DEF InsertCall, AskAuthorization
<1>4. local'[s] = local[s]
  BY <1>1, <1>3 DEF TypeOK
<1>5. runs = 0
  BY <1>1, <1>2 DEF RowPart
<1>6. RowPart' /\ RunsPart'
  BY <1>1, <1>2, <1>3, <1>5, NobodyGivesUp, StatusMoves DEF Settled, Clear
<1>7. Stands(pc[s], local[s])'
  BY <1>1, <1>3, <1>4, Arrives DEF Stands, Owes
<1> QED BY <1>1, <1>3, <1>6, <1>7, BusyMoves DEF SerialInv

(***************************************************************************)
(* Authorization                                                            *)
(***************************************************************************)

\* A step of the authorization leaves the status and the reason for asking alone.
LEMMA AuthorizationMoves ==
  ASSUME CallInv, SerialInv, Alone, NEW s \in Session, pc[s] \notin {"idle", "finish"},
         UNCHANGED <<status, handler, crashes>>, local'[s].flow = local[s].flow,
         Owes(local[s].flow), NEW p, Goto(s, p),
         \/ p \in {"policy", "select", "consume", "record"}
         \/ p = "refuse" /\ local[s].flow \in {"new", "recover", "not_found"}
         \/ p = "authorize" /\ local[s].flow \in {"new", "pending"}
         \/ p = "load" /\ local[s].flow \in {"recover", "not_found"}
  PROVE  SerialInv'
<1>1. TypeOK /\ RowPart' /\ RunsPart' /\ (Clear' <=> Clear)
  BY NobodyGivesUp, SameStatus DEF CallInv, SerialInv
<1>2. Owes(local[s].flow)'
  BY <1>1 DEF Owes
<1>3. Stands(pc[s], local[s])'
  BY <1>1, <1>2, Arrives DEF Stands
<1> QED BY <1>1, <1>3, BusyMoves DEF SerialInv

\* ... or ends it.
LEMMA AuthorizationReturns ==
  ASSUME CallInv, SerialInv, Alone, NEW s \in Session, pc[s] \notin {"idle", "finish"},
         UNCHANGED <<status, handler, crashes>>, Return(s)
  PROVE  SerialInv'
<1>1. TypeOK /\ RowPart' /\ RunsPart'
  BY NobodyGivesUp, SameStatus DEF Return, CallInv, SerialInv
<1> QED BY <1>1, BusyReturns DEF SerialInv

LEMMA ReadPolicySerial ==
  ASSUME CallInv, SerialInv, Alone, NEW s \in Session, ReadPolicy(s)
  PROVE  SerialInv'
<1>1. /\ TypeOK /\ UNCHANGED <<status, handler, crashes>> /\ pc[s] = "policy" /\ Owes(local[s].flow)
  BY DEF CallInv, SerialInv, ReadPolicy, row, Stands
<1>2. PICK p \in {"select", "record"} : Goto(s, p) /\ local'[s].flow = local[s].flow
  BY <1>1 DEF ReadPolicy, Decide, TypeOK, Local
<1> QED BY <1>1, <1>2, AuthorizationMoves

LEMMA SelectApprovalSerial ==
  ASSUME CallInv, SerialInv, Alone, NEW s \in Session, SelectApproval(s)
  PROVE  SerialInv'
<1>1. /\ TypeOK /\ UNCHANGED <<status, handler, crashes>> /\ pc[s] = "select" /\ Owes(local[s].flow)
  BY DEF CallInv, SerialInv, SelectApproval, row, Stands
<1>2. PICK p \in {"consume", "record"} : Goto(s, p) /\ local'[s].flow = local[s].flow
  BY <1>1 DEF SelectApproval, Decide, TypeOK, Local
<1> QED BY <1>1, <1>2, AuthorizationMoves

LEMMA ConsumeApprovalSerial ==
  ASSUME CallInv, SerialInv, Alone, NEW s \in Session, ConsumeApproval(s)
  PROVE  SerialInv'
<1>1. /\ TypeOK /\ UNCHANGED <<status, handler, crashes>> /\ pc[s] = "consume" /\ Owes(local[s].flow)
  BY DEF CallInv, SerialInv, ConsumeApproval, Stands
<1>2. Goto(s, "record") /\ local'[s].flow = local[s].flow
  BY <1>1 DEF ConsumeApproval, Decide, TypeOK, Local
<1> QED BY <1>1, <1>2, AuthorizationMoves

LEMMA RecordAuthorizationSerial ==
  ASSUME CallInv, SerialInv, Alone, NEW s \in Session, RecordAuthorization(s)
  PROVE  SerialInv'
<1>1. /\ TypeOK /\ UNCHANGED <<status, handler, crashes>> /\ pc[s] = "record" /\ Owes(local[s].flow)
  BY DEF CallInv, SerialInv, RecordAuthorization, Stands
<1>2. CASE Return(s)
  BY <1>1, <1>2, AuthorizationReturns
<1>3. CASE local[s].flow \in {"new", "pending"} /\ Goto(s, "authorize") /\ UNCHANGED local
  BY <1>1, <1>3, AuthorizationMoves
<1>4. CASE local[s].flow \in {"recover", "not_found"} /\ Goto(s, "load") /\ UNCHANGED local
  BY <1>1, <1>4, AuthorizationMoves
<1>5. CASE local[s].flow \in {"new", "recover", "not_found"} /\ Goto(s, "refuse") /\ UNCHANGED local
  BY <1>1, <1>5, AuthorizationMoves
<1> QED BY <1>2, <1>3, <1>4, <1>5 DEF RecordAuthorization, AfterAllowed, AfterRefused

LEMMA CommitRefusalSerial ==
  ASSUME CallInv, SerialInv, Alone, NEW s \in Session, CommitRefusal(s)
  PROVE  SerialInv'
<1>1. /\ TypeOK /\ UNCHANGED <<handler, crashes>> /\ pc[s] = "refuse" /\ Return(s)
      /\ Stands(pc[s], local[s]) /\ RowPart /\ RunsPart
  BY DEF CallInv, SerialInv, CommitRefusal
<1>2. local[s].flow \in {"new", "recover", "not_found"} /\ Owes(local[s].flow)
  BY <1>1 DEF Stands
<1>3. ~Settled /\ status' \in {"awaiting_approval", "denied", "needs_review"}
  BY <1>2 DEF Owes, Interrupted, CommitRefusal, RefusedStatus, Settled
<1>4. status' \in Unstarted => Clear
  BY <1>1, <1>2 DEF Owes, CommitRefusal, RefusedStatus, Unstarted, RowPart
<1>5. RowPart' /\ RunsPart'
  BY <1>1, <1>3, <1>4, NobodyGivesUp, StatusMoves DEF Return, Settled
<1> QED BY <1>1, <1>5, BusyReturns DEF SerialInv

(***************************************************************************)
(* Execution                                                                *)
(***************************************************************************)
LEMMA CommitAuthorizedSerial ==
  ASSUME CallInv, SerialInv, Alone, NEW s \in Session, CommitAuthorized(s)
  PROVE  SerialInv'
<1>1. /\ TypeOK /\ UNCHANGED <<handler, local, crashes>> /\ pc[s] = "authorize" /\ Goto(s, "load")
      /\ status' = "authorized" /\ Stands(pc[s], local[s]) /\ RowPart /\ RunsPart
  BY DEF CallInv, SerialInv, CommitAuthorized
<1>2. local[s].flow \in {"new", "pending"} /\ status \in Unstarted
  BY <1>1 DEF Stands, Owes, Unstarted
<1>3. RowPart' /\ RunsPart'
  BY <1>1, <1>2, NobodyGivesUp, StatusMoves DEF Settled, RowPart, Unstarted
<1>4. Stands(pc[s], local[s])'
  BY <1>1, <1>2, Arrives DEF Stands
<1> QED BY <1>1, <1>3, <1>4, BusyMoves DEF SerialInv

LEMMA LoadAttemptsSerial ==
  ASSUME CallInv, SerialInv, Alone, NEW s \in Session, LoadAttempts(s)
  PROVE  SerialInv'
<1>1. /\ TypeOK /\ UNCHANGED <<status, handler, crashes>> /\ pc[s] = "load" /\ Goto(s, "executing")
      /\ Stands(pc[s], local[s]) /\ RowPart /\ RunsPart
  BY DEF CallInv, SerialInv, LoadAttempts, row
<1>2. local'[s].flow = local[s].flow
  BY <1>1 DEF LoadAttempts, TypeOK, Local
<1>3. RowPart' /\ RunsPart' /\ (Clear' <=> Clear)
  BY <1>1, NobodyGivesUp, SameStatus
<1>4. Stands(pc[s], local[s])'
  BY <1>1, <1>2, <1>3, Arrives DEF Stands, Owes
<1> QED BY <1>1, <1>3, <1>4, BusyMoves DEF SerialInv

LEMMA CommitExecutingSerial ==
  ASSUME CallInv, SerialInv, Alone, NEW s \in Session, CommitExecuting(s)
  PROVE  SerialInv'
<1>1. /\ TypeOK /\ UNCHANGED <<handler, local, crashes>> /\ pc[s] = "executing" /\ status' = "executing"
      /\ Stands(pc[s], local[s]) /\ RowPart /\ RunsPart
  BY DEF CallInv, SerialInv, CommitExecuting
<1>2. PICK p \in {"capture", "invoke"} : Goto(s, p)
  BY DEF CommitExecuting
<1>3. ~Settled /\ Clear
  BY <1>1 DEF Stands, Owes, Interrupted, RowPart, Unstarted, Clear, Settled
<1>4. RowPart' /\ RunsPart' /\ (Clear' <=> Clear)
  BY <1>1, <1>2, <1>3, NobodyGivesUp, StatusMoves DEF Unstarted
<1>5. Stands(pc[s], local[s])'
  BY <1>1, <1>2, <1>3, <1>4, Arrives DEF Stands
<1> QED BY <1>1, <1>2, <1>4, <1>5, BusyMoves DEF SerialInv

LEMMA CaptureBeforeStateSerial ==
  ASSUME CallInv, SerialInv, Alone, NEW s \in Session, CaptureBeforeState(s)
  PROVE  SerialInv'
<1>1. /\ TypeOK /\ UNCHANGED <<status, handler, crashes>> /\ pc[s] = "capture" /\ Goto(s, "fixture")
      /\ Stands(pc[s], local[s]) /\ RowPart /\ RunsPart
  BY DEF CallInv, SerialInv, CaptureBeforeState, row
<1>2. RowPart' /\ RunsPart' /\ (Clear' <=> Clear)
  BY <1>1, NobodyGivesUp, SameStatus
<1>3. Stands(pc[s], local[s])'
  BY <1>1, <1>2, Arrives DEF Stands
<1> QED BY <1>1, <1>2, <1>3, BusyMoves DEF SerialInv

LEMMA CommitFixtureSerial ==
  ASSUME CallInv, SerialInv, Alone, NEW s \in Session, CommitFixture(s)
  PROVE  SerialInv'
<1>1. /\ TypeOK /\ UNCHANGED <<status, handler, crashes>> /\ pc[s] = "fixture"
      /\ Stands(pc[s], local[s]) /\ RowPart /\ RunsPart
  BY DEF CallInv, SerialInv, CommitFixture, row
<1>2. RowPart' /\ RunsPart' /\ (Clear' <=> Clear)
  <2>1. PICK p \in {"invoke", "idle"} : Goto(s, p)
    BY DEF CommitFixture, Return
  <2> QED BY <1>1, <2>1, NobodyGivesUp, SameStatus
<1>3. CASE Goto(s, "invoke")
  <2>1. Stands(pc[s], local[s])'
    BY <1>1, <1>2, <1>3, Arrives DEF Stands
  <2> QED BY <1>1, <1>2, <1>3, <2>1, BusyMoves DEF SerialInv
<1>4. CASE Return(s)
  BY <1>1, <1>2, <1>4, BusyReturns DEF SerialInv
<1> QED BY <1>3, <1>4 DEF CommitFixture

LEMMA InvokeHandlerSerial ==
  ASSUME CallInv, SerialInv, Alone, NEW s \in Session, InvokeHandler(s)
  PROVE  SerialInv'
<1>1. /\ TypeOK /\ UNCHANGED <<status, crashes>> /\ pc[s] = "invoke" /\ Goto(s, "finish")
      /\ Stands(pc[s], local[s]) /\ RowPart /\ RunsPart
      /\ runs' = runs + 1 /\ runs < MaxRuns
  BY DEF CallInv, SerialInv, InvokeHandler, row
<1>2. status = "executing" /\ Clear
  BY <1>1 DEF Stands
<1>3. runs \in Nat /\ MaxRuns \in Nat /\ crashes \in Nat
  BY <1>1, RunsAreNat DEF TypeOK
<1>4. PICK e \in Outcomes : effect' = [effect EXCEPT ![runs + 1] = e]
  BY DEF InvokeHandler
<1>5. /\ effect'[runs + 1] = e
      /\ \A r \in Run : r # runs + 1 => effect'[r] = effect[r]
  BY <1>1, <1>3, <1>4 DEF TypeOK, Run
<1>6. local'[s].seen = "executing" /\ local'[s].run = runs'
  BY <1>1, <1>2 DEF InvokeHandler, TypeOK, Local
<1>7. Stands(pc[s], local[s])'
  BY <1>1, <1>2, <1>6, Arrives DEF Stands
<1>8. RowPart'
  <2>1. Effect = "external_write" /\ runs' > 1 => HasReconciler /\ effect'[1] = "none"
    BY <1>1, <1>2, <1>3, <1>5 DEF Clear, Run
  <2>2. Effect = "internal_write" => e # "pending"
    BY DEF Outcomes
  <2>3. Effect = "internal_write" => \A r \in Run : effect'[r] # "pending"
    BY <1>1, <1>5, <2>2 DEF RowPart
  <2> QED BY <1>1, <1>2, <2>1, <2>3 DEF RowPart, Unstarted
<1>9. RunsPart'
  <2>1. Effect = "internal_write" => runs <= crashes
    BY <1>1, <1>2 DEF RunsPart, Settled, Alone
  <2>2. pc'[s] = "finish"
    BY <1>1, Arrives
  <2> QED BY <1>1, <1>2, <1>3, <2>1, <2>2 DEF RunsPart, RunsMatchDeaths
<1> QED BY <1>1, <1>7, <1>8, <1>9, BusyMoves DEF SerialInv

LEMMA CommitResultSerial ==
  ASSUME CallInv, SerialInv, Alone, NEW s \in Session, CommitResult(s)
  PROVE  SerialInv'
<1>1. /\ TypeOK /\ pc[s] = "finish" /\ Return(s) /\ UNCHANGED <<handler, crashes>>
      /\ Stands(pc[s], local[s]) /\ RowPart /\ RunsPart
  BY DEF CallInv, SerialInv, CommitResult
<1>2. status = "executing" /\ local[s].seen = "executing" /\ local[s].run = runs
  BY <1>1 DEF Stands
<1>3. PICK res \in Reports(runs) : status' = Flushed(local[s].seen, res, status)
  BY <1>2 DEF CommitResult
<1>4. /\ status' = res /\ res \in {"succeeded", "failed", "outcome_unknown"}
      /\ res = "outcome_unknown" => Effect = "external_write"
      /\ res = "succeeded" => effect[runs] = "applied" \/ Effect = "read"
      /\ res = "failed" => effect[runs] = "none"
  BY <1>2, <1>3 DEF Reports, Flushed
<1>5. RowPart'
  BY <1>1, <1>2, <1>4 DEF RowPart, Unstarted, handler
<1>6. RunsPart'
  BY <1>1, <1>2, <1>4 DEF RunsPart, RunsMatchDeaths, Settled, handler
<1> QED BY <1>1, <1>5, <1>6, BusyReturns DEF SerialInv

(***************************************************************************)
(* Recovery                                                                 *)
(***************************************************************************)

\* A recovery loads the row of a call that is not settled.
LEMMA LoadForRecoverySerial ==
  ASSUME CallInv, SerialInv, NEW s \in Session, pc[s] # "finish", NEW p \in {"scanned", "decide"},
         Alone', status \notin TerminalToolStatus \cup {"absent"}, LoadForRecovery(s, p)
  PROVE  SerialInv'
<1>1. TypeOK /\ UNCHANGED <<status, handler, crashes>> /\ UNCHANGED opId /\ Goto(s, p)
  BY DEF CallInv, LoadForRecovery, row
<1>2. RowPart' /\ RunsPart'
  BY <1>1, NobodyGivesUp, SameStatus DEF SerialInv
<1>3. /\ local'[s].flow = "recover" /\ local'[s].seen = status
      /\ local'[s].seenOp = opId
  <2> DEFINE l == [Blank EXCEPT !.flow = "recover", !.seen = status, !.seenOp = opId]
  <2>1. local' = [local EXCEPT ![s] = l]
    BY DEF LoadForRecovery
  <2>2. l.flow = "recover" /\ l.seen = status /\ l.seenOp = opId
    BY DEF Blank
  <2> HIDE DEF l
  <2> QED BY <1>1, <2>1, <2>2 DEF TypeOK
<1>4. Stands(pc[s], local[s])'
  BY <1>1, <1>3, Arrives DEF Stands
<1> QED BY <1>1, <1>2, <1>4, IdleMoves DEF SerialInv

LEMMA AloneStays ==
  ASSUME TypeOK, Alone, NEW s \in Session, pc[s] # "idle", NEW p, Goto(s, p)
  PROVE  Alone'
  BY Arrives DEF Alone

LEMMA RereadScannedSerial ==
  ASSUME CallInv, SerialInv, Alone, NEW s \in Session, RereadScanned(s)
  PROVE  SerialInv'
<1>1. /\ TypeOK /\ pc[s] = "scanned" /\ LoadForRecovery(s, "decide")
      /\ Stands(pc[s], local[s])
  BY DEF CallInv, SerialInv, RereadScanned
<1>2. Alone'
  BY <1>1, AloneStays DEF LoadForRecovery
<1> QED BY <1>1, <1>2, LoadForRecoverySerial DEF Stands

LEMMA ScanStaleCallSerial ==
  ASSUME CallInv, SerialInv, Alone', NEW s \in Session, ScanStaleCall(s)
  PROVE  SerialInv'
  BY LoadForRecoverySerial DEF ScanStaleCall, Recoverable, TerminalToolStatus

LEMMA RecoverRunCallSerial ==
  ASSUME CallInv, SerialInv, Alone', NEW s \in Session, RecoverRunCall(s)
  PROVE  SerialInv'
  BY LoadForRecoverySerial DEF RecoverRunCall

LEMMA MarkForReviewSerial ==
  ASSUME CallInv, SerialInv, Alone, NEW s \in Session, pc[s] \in {"scanned", "decide"},
         ~Settled, local[s].seen = status, MarkForReview(s), UNCHANGED <<handler, crashes>>
  PROVE  SerialInv'
<1>1. TypeOK /\ RowPart /\ RunsPart /\ status' = "needs_review" /\ Return(s)
  BY DEF CallInv, SerialInv, MarkForReview, Flushed
<1>2. RowPart' /\ RunsPart'
  BY <1>1, NobodyGivesUp, StatusMoves DEF Return, Settled, Unstarted
<1> QED BY <1>1, <1>2, BusyReturns DEF SerialInv

\* An operation the provider does not find had no effect, and it was the first
\* one or came after a first one without effect.
LEMMA QueryProviderSerial ==
  ASSUME CallInv, SerialInv, Alone, NEW s \in Session, pc[s] \in {"scanned", "decide"},
         status = "outcome_unknown", QueryProvider(s), UNCHANGED <<handler, crashes>>
  PROVE  SerialInv'
<1>1. /\ TypeOK /\ UNCHANGED <<status, handler, crashes>> /\ Goto(s, "reconcile")
      /\ RowPart /\ RunsPart /\ Fits(pc[s], local[s]) /\ pc[s] # "idle"
      /\ HasReconciler /\ local[s].seenOp \in Started
  BY DEF CallInv, SerialInv, QueryProvider, row, Fits
<1>2. PICK ans \in Answers(local[s].seenOp) : local' = [local EXCEPT ![s].answer = ans]
  BY DEF QueryProvider
<1>3. local'[s].answer = ans
  BY <1>1, <1>2 DEF TypeOK, Local
<1>4. runs \in Nat /\ Started \subseteq Run
  BY <1>1, RunsAreNat
<1>5. ans = "not_found" => effect[local[s].seenOp] = "none"
  BY <1>1, <1>2, <1>4 DEF Answers, TypeOK, ProviderState
<1>6. ans = "not_found" => Clear
  <2>1. CASE runs > 1
    BY <1>1, <2>1 DEF RowPart, Clear
  <2>2. CASE runs <= 1
    BY <1>1, <1>4, <1>5, <2>2 DEF Clear, Started
  <2> QED BY <1>4, <2>1, <2>2
<1>7. RowPart' /\ RunsPart' /\ (Clear' <=> Clear)
  BY <1>1, NobodyGivesUp, SameStatus
<1>8. Stands(pc[s], local[s])'
  BY <1>1, <1>3, <1>6, <1>7, Arrives DEF Stands
<1> QED BY <1>1, <1>7, <1>8, BusyMoves DEF SerialInv

LEMMA RecoverRecordSerial ==
  ASSUME CallInv, SerialInv, Alone, NEW s \in Session, RecoverRecord(s)
  PROVE  SerialInv'
<1>1. /\ TypeOK /\ pc[s] \in {"scanned", "decide"} /\ UNCHANGED <<handler, crashes>>
      /\ Stands(pc[s], local[s]) /\ RowPart /\ RunsPart /\ pc[s] # "idle"
  BY DEF CallInv, SerialInv, RecoverRecord
<1>2. /\ status \notin {"succeeded", "failed", "denied", "absent"}
      /\ local[s].flow = "recover" /\ local[s].seen = status
  BY <1>1 DEF Stands, TerminalToolStatus
<1>3. CASE MarkForReview(s)
  BY <1>1, <1>2, <1>3, MarkForReviewSerial DEF Settled
<1>4. CASE status = "outcome_unknown" /\ QueryProvider(s)
  BY <1>1, <1>4, QueryProviderSerial
<1>5. CASE Effect = "external_write" /\ status' = "outcome_unknown" /\ Return(s)
  <2>1. RowPart' /\ RunsPart'
    BY <1>1, <1>2, <1>5, NobodyGivesUp, StatusMoves DEF Return, Settled, Unstarted
  <2> QED BY <1>1, <1>5, <2>1, BusyReturns DEF SerialInv
<1>6. CASE /\ status \notin {"proposed", "outcome_unknown"} /\ Effect # "external_write"
           /\ AskAuthorization(s, local[s]) /\ UNCHANGED row
  <2>1. UNCHANGED <<status, handler, crashes>> /\ Goto(s, "policy") /\ local'[s].flow = "recover"
    BY <1>1, <1>2, <1>6 DEF AskAuthorization, row, TypeOK
  <2>2. status \in Interrupted
    BY <1>1, <1>2, <1>6 DEF TypeOK, Status, Interrupted
  <2>3. Owes(local[s].flow)
    BY <1>2, <1>6, <2>2 DEF Owes
  <2> QED BY <1>1, <1>2, <2>1, <2>3, AuthorizationMoves
<1> QED BY <1>2, <1>3, <1>4, <1>5, <1>6 DEF RecoverRecord

LEMMA ReconcileSerial ==
  ASSUME CallInv, SerialInv, Alone, NEW s \in Session, Reconcile(s)
  PROVE  SerialInv'
<1>1. /\ TypeOK /\ pc[s] = "reconcile" /\ UNCHANGED <<handler, crashes>>
      /\ Stands(pc[s], local[s]) /\ RowPart /\ RunsPart
  BY DEF CallInv, SerialInv, Reconcile
<1>2. status = "outcome_unknown" /\ (local[s].answer = "not_found" => Clear)
  BY <1>1 DEF Stands
<1>3. CASE local[s].answer = "succeeded" /\ status' = "succeeded" /\ Return(s)
  <2>1. Effect = "external_write"
    BY <1>1, <1>2 DEF RowPart
  <2>2. RowPart' /\ RunsPart'
    BY <1>1, <1>3, <2>1 DEF RowPart, Unstarted, RunsPart, RunsMatchDeaths, handler
  <2> QED BY <1>1, <1>3, <2>2, BusyReturns DEF SerialInv
<1>4. CASE /\ local[s].answer = "not_found" /\ UNCHANGED status
           /\ AskAuthorization(s, [local[s] EXCEPT !.flow = "not_found"])
  <2>1. Goto(s, "policy") /\ local'[s].flow = "not_found"
    <3> DEFINE l == [local[s] EXCEPT !.flow = "not_found"]
    <3>1. Goto(s, "policy") /\ local' = [local EXCEPT ![s] = l]
      BY <1>4 DEF AskAuthorization
    <3>2. l.flow = "not_found"
      BY <1>1 DEF TypeOK, Local
    <3> HIDE DEF l
    <3> QED BY <1>1, <3>1, <3>2 DEF TypeOK
  <2>2. RowPart' /\ RunsPart' /\ (Clear' <=> Clear)
    BY <1>1, <1>4, <2>1, NobodyGivesUp, SameStatus
  <2>3. Stands(pc[s], local[s])'
    BY <1>1, <1>2, <1>4, <2>1, <2>2, Arrives DEF Stands, Owes
  <2> QED BY <1>1, <2>1, <2>2, <2>3, BusyMoves DEF SerialInv
<1>5. CASE Return(s) /\ UNCHANGED status
  BY <1>1, <1>5, AuthorizationReturns
<1> QED BY <1>3, <1>4, <1>5 DEF Reconcile

(***************************************************************************)
(* Approvals and the environment                                            *)
(***************************************************************************)
LEMMA LoadForApprovalSerial ==
  ASSUME CallInv, SerialInv, Alone', NEW s \in Session, LoadForApproval(s)
  PROVE  SerialInv'
<1>1. /\ TypeOK /\ UNCHANGED <<status, handler, crashes>> /\ Goto(s, "approve")
      /\ status \in {"awaiting_approval", "denied"}
      /\ pc[s] = "idle"
  BY DEF CallInv, LoadForApproval, row
<1>2. RowPart' /\ RunsPart'
  BY <1>1, NobodyGivesUp, SameStatus DEF SerialInv
<1>3. local'[s].seen = status
  <2> DEFINE l == [Blank EXCEPT !.seen = status]
  <2>1. local' = [local EXCEPT ![s] = l]
    BY DEF LoadForApproval
  <2>2. l.seen = status
    BY DEF Blank
  <2> HIDE DEF l
  <2> QED BY <1>1, <2>1, <2>2 DEF TypeOK
<1>4. Stands(pc[s], local[s])'
  BY <1>1, <1>3, Arrives DEF Stands
<1> QED BY <1>1, <1>2, <1>4, IdleMoves DEF SerialInv

LEMMA GrantApprovalSerial ==
  ASSUME CallInv, SerialInv, Alone, NEW s \in Session, GrantApproval(s)
  PROVE  SerialInv'
<1>1. /\ TypeOK /\ pc[s] = "approve" /\ UNCHANGED <<handler, crashes>> /\ Return(s)
      /\ Stands(pc[s], local[s]) /\ RowPart /\ RunsPart
  BY DEF CallInv, SerialInv, GrantApproval
<1>2. /\ status \in {"awaiting_approval", "denied"}
      /\ status' \in {status, "awaiting_approval"}
  BY <1>1 DEF Stands, GrantApproval, Flushed
<1>3. RowPart' /\ RunsPart'
  BY <1>1, <1>2, NobodyGivesUp, StatusMoves DEF Return, Settled, RowPart, Unstarted
<1> QED BY <1>1, <1>3, BusyReturns DEF SerialInv

LEMMA ProviderSettlesSerial ==
  ASSUME CallInv, SerialInv, NEW r \in Run, ProviderSettles(r)
  PROVE  SerialInv'
<1>1. /\ TypeOK /\ RowPart /\ RunsPart
      /\ UNCHANGED <<status, opId, runs, pc, local, crashes>> /\ effect[r] = "pending"
      /\ \A q \in Run : q # r => effect'[q] = effect[q]
  BY DEF CallInv, SerialInv, ProviderSettles, row, TypeOK
<1>2. Effect # "internal_write" /\ (Clear => Clear')
  <2>1. runs > 0 => 1 \in Run
    BY <1>1, RunsAreNat DEF Run
  <2> QED BY <1>1, <2>1 DEF RowPart, Clear
<1>3. RowPart' /\ RunsPart'
  <2>1. runs > 1 => 1 \in Run
    BY <1>1, RunsAreNat DEF Run
  <2> QED BY <1>1, <1>2, <2>1 DEF RowPart, RunsPart, RunsMatchDeaths
<1>4. ASSUME NEW t \in Session PROVE Stands(pc[t], local[t])'
  <2>1. Stands(pc[t], local[t])
    BY DEF SerialInv
  <2> QED BY <1>1, <1>2, <2>1 DEF Stands, Owes
<1> QED BY <1>3, <1>4 DEF SerialInv

LEMMA ElsewhereSerial ==
  ASSUME SerialInv, UNCHANGED <<row, handler, pc, local, crashes>>
  PROVE  SerialInv'
<1>1. ASSUME NEW t \in Session PROVE Stands(pc[t], local[t])'
  <2>1. Stands(pc[t], local[t])
    BY DEF SerialInv
  <2> QED BY <2>1 DEF Stands, Owes, Clear, row, handler
<1>2. RowPart' /\ RunsPart'
  BY SameStatus DEF ResultsStay, SerialInv, row
<1> QED BY <1>1, <1>2 DEF SerialInv

(***************************************************************************)
(* Every step                                                               *)
(***************************************************************************)
LEMMA NextSerial ==
  CallInv /\ SerialInv /\ Alone /\ Alone' /\ [Next]_vars => SerialInv'
<1> SUFFICES ASSUME CallInv, SerialInv, Alone, Alone', [Next]_vars PROVE SerialInv'
  OBVIOUS
<1>1. CASE \E s \in Session : Start(s)
  BY <1>1, FindCallSerial, ScanStaleCallSerial, RecoverRunCallSerial, LoadForApprovalSerial
  DEF Start
<1>2. CASE \E s \in Session : Continue(s)
  BY <1>2, InsertCallSerial, ReadPolicySerial, SelectApprovalSerial, ConsumeApprovalSerial,
     RecordAuthorizationSerial, CommitRefusalSerial, CommitAuthorizedSerial,
     LoadAttemptsSerial, CommitExecutingSerial, CaptureBeforeStateSerial,
     CommitFixtureSerial, InvokeHandlerSerial, CommitResultSerial, RereadScannedSerial,
     RecoverRecordSerial, ReconcileSerial, GrantApprovalSerial
  DEF Continue
<1>3. CASE \E s \in Session : Crash(s)
  <2>1. PICK s \in Session : Return(s) /\ UNCHANGED <<row, handler>> /\ crashes' = crashes + 1
    BY <1>3 DEF Crash
  <2> QED BY <2>1, ReturnsUnchanged DEF CallInv
<1>4. CASE (\E a \in Approval : ApprovalLapses(a)) \/ UpdateTaskPolicy \/ UNCHANGED vars
  <2>1. UNCHANGED <<row, handler, pc, local, crashes>>
    BY <1>4 DEF ApprovalLapses, UpdateTaskPolicy, vars
  <2> QED BY <2>1, ElsewhereSerial
<1>5. CASE \E r \in Run : ProviderSettles(r)
  BY <1>5, ProviderSettlesSerial
<1> QED BY <1>1, <1>2, <1>3, <1>4, <1>5 DEF Next

\* While the sessions follow one another, the row tells each of them truthfully
\* what the handler has done, wherever the one before it has died.
THEOREM SerialInvariant == Spec /\ []Alone => []SerialInv
  BY SerialInitially, NextSerial, CallInvariant, PTL DEF Spec

\* A write whose outcome is unknown is repeated only if the provider does not
\* have it: nothing the first invocation did survives a second one.
THEOREM FirstRetryIsSafeHolds == Spec /\ []Alone => []FirstRetryIsSafe
<1>1. SerialInv => FirstRetryIsSafe
  BY DEF SerialInv, RowPart, FirstRetryIsSafe
<1> QED BY <1>1, SerialInvariant, PTL

\* The handler of an internal write runs again only because a session died over
\* the call, at most once for every death, and a recorded result is that of its
\* last run.
THEOREM RepeatedOnlyAfterDeathHolds == Spec => RepeatedOnlyAfterDeath
<1>1. SerialInv => RunsMatchDeaths
  BY DEF SerialInv, RunsPart
<1> QED BY <1>1, SerialInvariant, PTL DEF RepeatedOnlyAfterDeath

\* A tool whose provider cannot be asked for the outcome is called at most once,
\* however often its sessions die and it is replayed or recovered.
NoBlindRetry == Effect = "external_write" /\ ~HasReconciler => runs <= 1

THEOREM NoBlindRetryHolds == Spec /\ []Alone => []NoBlindRetry
<1>1. CallInv /\ SerialInv => NoBlindRetry
  BY RunsAreNat DEF CallInv, SerialInv, RowPart, NoBlindRetry
<1> QED BY <1>1, SerialInvariant, CallInvariant, PTL

(***************************************************************************)
(* A recorded result is final                                               *)
(*                                                                          *)
(* No session stands, over a settled row, at a step that writes its status   *)
(* or invokes its handler.                                                  *)
(***************************************************************************)
LEMMA ContinueIsFinal ==
  ASSUME CallInv, SerialInv, Settled, NEW s \in Session, Continue(s)
  PROVE  UNCHANGED <<status, runs>>
<1>1. Stands(pc[s], local[s]) /\ TypeOK
  BY DEF CallInv, SerialInv
<1>2. CASE \/ ReadPolicy(s) \/ SelectApproval(s) \/ ConsumeApproval(s)
           \/ RecordAuthorization(s) \/ LoadAttempts(s) \/ CaptureBeforeState(s)
           \/ CommitFixture(s) \/ RereadScanned(s)
  BY <1>2 DEF ReadPolicy, SelectApproval, ConsumeApproval, RecordAuthorization,
              LoadAttempts, CaptureBeforeState, CommitFixture, RereadScanned,
              LoadForRecovery, row, handler
<1>3. CASE InsertCall(s)
  BY <1>1, <1>3 DEF InsertCall, Stands, Settled
<1>4. CASE CommitRefusal(s) \/ CommitAuthorized(s)
  BY <1>1, <1>4 DEF CommitRefusal, CommitAuthorized, Stands, Owes, Interrupted, Settled
<1>5. CASE CommitExecuting(s) \/ InvokeHandler(s) \/ CommitResult(s)
  BY <1>1, <1>5 DEF CommitExecuting, InvokeHandler, CommitResult, Stands, Owes,
                    Interrupted, Settled
<1>6. CASE RecoverRecord(s) \/ Reconcile(s) \/ GrantApproval(s)
  BY <1>1, <1>6 DEF RecoverRecord, Reconcile, GrantApproval, Stands, Settled,
                    TerminalToolStatus
<1> QED BY <1>2, <1>3, <1>4, <1>5, <1>6 DEF Continue

LEMMA NextIsFinal ==
  CallInv /\ SerialInv /\ [Next]_vars
    => [(status \in {"succeeded", "failed"}) => UNCHANGED <<status, runs>>]_vars
<1> SUFFICES ASSUME CallInv, SerialInv, Settled, [Next]_vars
             PROVE  UNCHANGED <<status, runs>>
  BY DEF Settled
<1>1. CASE \E s \in Session : Start(s)
  BY <1>1 DEF Start, FindCall, ScanStaleCall, RecoverRunCall, LoadForRecovery,
              LoadForApproval, row, handler
<1>2. CASE \E s \in Session : Continue(s)
  BY <1>2, ContinueIsFinal
<1>3. CASE \E s \in Session : Crash(s)
  BY <1>3 DEF Crash, row, handler
<1>4. CASE \/ \E a \in Approval : ApprovalLapses(a)
           \/ UpdateTaskPolicy
           \/ \E r \in Run : ProviderSettles(r)
           \/ UNCHANGED vars
  BY <1>4 DEF ApprovalLapses, UpdateTaskPolicy, ProviderSettles, vars, row, handler
<1> QED BY <1>1, <1>2, <1>3, <1>4 DEF Next

\* Neither a replay nor a recovery changes a result once it is recorded, or runs
\* the handler again.
THEOREM ResultIsFinalHolds == Spec /\ []Alone => ResultIsFinal
  BY NextIsFinal, CallInvariant, SerialInvariant, PTL DEF Spec, ResultIsFinal

\* In particular one session, which may die at any step and start again, is alone.
THEOREM OneSessionIsSafe ==
  ASSUME \A s, t \in Session : s = t
  PROVE  Spec => [](FirstRetryIsSafe /\ RunsMatchDeaths /\ NoBlindRetry) /\ ResultIsFinal
<1>1. Alone
  BY DEF Alone
<1> QED BY <1>1, FirstRetryIsSafeHolds, RepeatedOnlyAfterDeathHolds, NoBlindRetryHolds,
           ResultIsFinalHolds, PTL DEF RepeatedOnlyAfterDeath
==============================================================================
