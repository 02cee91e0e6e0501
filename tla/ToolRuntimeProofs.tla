------------------------- MODULE ToolRuntimeProofs -------------------------
(***************************************************************************)
(* Proofs about ToolRuntime, for every number of sessions, approvals and     *)
(* handler runs.                                                             *)
(***************************************************************************)
EXTENDS ToolRuntime, TLAPS

(***************************************************************************)
(* The inductive invariant                                                  *)
(***************************************************************************)

\* What a session that stands at p with memory l may rely on.
Fits(p, l) ==
  /\ p \notin {"idle", "insert"} =>
       status # "absent" /\ (l.req = None \/ l.req = fp)
  /\ p = "insert" => l.req \in Request
  /\ p = "consume" => l.pays \in Approval
  /\ p = "finish" => l.run \in Started
  /\ l.seenOp \in Started \cup {None}
  /\ p = "reconcile" =>
       /\ l.seenOp \in Started
       /\ l.answer = "succeeded" => effect[l.seenOp] = "applied"

CallInv ==
  /\ TypeOK
  /\ opId \in Started \cup {None}
  /\ SucceededIsReal
  /\ \A s \in Session : Fits(pc[s], local[s])

\* What no step undoes: the row and its request, the runs, their effects.
Evolves ==
  /\ status # "absent" => status' # "absent" /\ fp' = fp
  /\ runs' \in 0 .. MaxRuns /\ runs <= runs'
  /\ \A r \in Started : effect[r] = "applied" => effect'[r] = "applied"

LEMMA BlankType == Blank \in Local
  BY DEF Blank, Local, Flow, Status, Decision, Answer, Run

LEMMA RunsAreNat == TypeOK => runs \in Nat /\ MaxRuns \in Nat \ {0} /\ Started \subseteq Run
  BY ConstantsAssumption DEF ConstantsAssumption, TypeOK, Started, Run

LEMMA StartedGrows ==
  ASSUME TypeOK, Evolves PROVE Started \subseteq Started' /\ runs' \in Nat
  BY RunsAreNat DEF Evolves, Started

\* One session moves to p with memory l.
LEMMA SessionMoves ==
  ASSUME CallInv, Evolves, NEW s \in Session, NEW p \in PC, NEW l \in Local,
         Goto(s, p), local' = [local EXCEPT ![s] = l], Fits(p, l)'
  PROVE  /\ pc' \in [Session -> PC]
         /\ local' \in [Session -> Local]
         /\ \A t \in Session : Fits(pc[t], local[t])'
<1>1. pc' \in [Session -> PC] /\ local' \in [Session -> Local]
  BY DEF CallInv, TypeOK, Goto
<1>2. ASSUME NEW t \in Session PROVE Fits(pc[t], local[t])'
  <2>1. CASE t = s
    <3>1. pc'[t] = p /\ local'[t] = l
      BY <2>1 DEF CallInv, TypeOK, Goto
    <3> QED BY <3>1 DEF Fits
  <2>2. CASE t # s
    <3>1. pc'[t] = pc[t] /\ local'[t] = local[t]
      BY <2>2 DEF CallInv, TypeOK, Goto
    <3>2. Fits(pc[t], local[t])
      BY DEF CallInv
    <3> DEFINE p0 == pc[t]  l0 == local[t]
    <3>3. Fits(p0, l0)
      BY <3>2
    <3>4. pc'[t] = p0 /\ local'[t] = l0
      BY <3>1
    <3>5. TypeOK
      BY DEF CallInv
    <3>6. /\ p0 \notin {"idle", "insert"} =>
               status' # "absent" /\ (l0.req = None \/ l0.req = fp')
          /\ p0 = "insert" => l0.req \in Request
          /\ p0 = "consume" => l0.pays \in Approval
          /\ p0 = "finish" => l0.run \in Started'
          /\ l0.seenOp \in Started' \cup {None}
          /\ p0 = "reconcile" =>
               /\ l0.seenOp \in Started'
               /\ l0.answer = "succeeded" => effect'[l0.seenOp] = "applied"
      BY <3>3, <3>5, StartedGrows DEF Fits, Evolves
    <3> HIDE DEF p0, l0
    <3> QED BY <3>4, <3>6 DEF Fits
  <2> QED BY <2>1, <2>2
<1> QED BY <1>1, <1>2

LEMMA SessionReturns ==
  ASSUME CallInv, Evolves, NEW s \in Session, Return(s)
  PROVE  /\ pc' \in [Session -> PC]
         /\ local' \in [Session -> Local]
         /\ \A t \in Session : Fits(pc[t], local[t])'
<1>1. "idle" \in PC /\ Fits("idle", Blank)'
  BY DEF PC, Fits, Blank
<1> QED BY <1>1, BlankType, SessionMoves DEF Return

\* The environment's steps leave every session where it was.
LEMMA SessionsStay ==
  ASSUME CallInv, Evolves, UNCHANGED <<pc, local>>
  PROVE  /\ pc' \in [Session -> PC]
         /\ local' \in [Session -> Local]
         /\ \A t \in Session : Fits(pc[t], local[t])'
<1>1. ASSUME NEW t \in Session PROVE Fits(pc[t], local[t])'
  <2>1. Fits(pc[t], local[t]) /\ TypeOK
    BY DEF CallInv
  <2> QED BY <2>1, StartedGrows DEF Fits, Evolves
<1> QED BY <1>1 DEF CallInv, TypeOK

(***************************************************************************)
(* Initial states and the steps of run_tool_call                            *)
(***************************************************************************)
LEMMA InitInv == Init => CallInv
<1> SUFFICES ASSUME Init PROVE CallInv
  OBVIOUS
<1>1. TypeOK
  BY BlankType, ConstantsAssumption
  DEF ConstantsAssumption, Init, TypeOK, Status, ApprovalState, ProviderState, PC, Run
<1>2. \A s \in Session : Fits(pc[s], local[s])
  BY DEF Init, Fits, Blank
<1> QED BY <1>1, <1>2 DEF CallInv, Init, SucceededIsReal

\* A step that writes no column of the row and touches no handler.
LEMMA SameRow ==
  ASSUME CallInv, UNCHANGED <<row, handler>>
  PROVE  /\ Evolves
         /\ status' \in Status /\ (status' = "absent" <=> fp' = None)
         /\ opId' \in Started' \cup {None}
         /\ SucceededIsReal'
<1>1. Started' = Started /\ Applied' = Applied
  BY DEF handler, Started, Applied
<1>2. Evolves
  BY DEF Evolves, CallInv, TypeOK, row, handler
<1> QED BY <1>1, <1>2 DEF CallInv, TypeOK, SucceededIsReal, row

\* A caller that found a row either gives up or asks for authorization of the
\* request it sent.
LEMMA ReplayFits ==
  ASSUME CallInv, NEW s \in Session, NEW q \in Request, status # "absent",
         ReplayOrConflict(s, q), UNCHANGED <<row, handler>>
  PROVE  /\ pc' \in [Session -> PC]
         /\ local' \in [Session -> Local]
         /\ \A t \in Session : Fits(pc[t], local[t])'
<1>1. Evolves
  BY SameRow
<1>2. CASE q # fp
  <2>1. Return(s)
    BY <1>2 DEF ReplayOrConflict
  <2> QED BY <1>1, <2>1, SessionReturns
<1>3. CASE q = fp
  <2>1. PICK l \in Local : /\ l.req = q /\ l.seenOp = None
                           /\ local' = [local EXCEPT ![s] = l]
    BY <1>3, BlankType
    DEF ReplayOrConflict, AskAuthorization, CallInv, TypeOK, Blank, Local, Flow
  <2>2. Goto(s, "policy")
    BY <1>3 DEF ReplayOrConflict, AskAuthorization
  <2>3. Fits("policy", l)' /\ "policy" \in PC
    BY <1>3, <2>1 DEF Fits, PC, row
  <2> QED BY <1>1, <2>1, <2>2, <2>3, SessionMoves
<1> QED BY <1>2, <1>3

LEMMA FindCallInv ==
  ASSUME CallInv, NEW s \in Session, NEW q \in Request, FindCall(s, q)
  PROVE  CallInv'
<1>1. UNCHANGED <<row, grants, fixtures, handler, crashes>>
  BY DEF FindCall
<1>2. CASE status = "absent"
  <2>1. PICK l \in Local : /\ l.req = q /\ l.seenOp = None
                           /\ local' = [local EXCEPT ![s] = l]
    BY <1>2, BlankType DEF FindCall, Blank, Local
  <2>2. Goto(s, "insert")
    BY <1>2 DEF FindCall
  <2>3. Fits("insert", l)' /\ "insert" \in PC
    BY <2>1 DEF Fits, PC
  <2> QED BY <1>1, <2>1, <2>2, <2>3, SameRow, SessionMoves
          DEF CallInv, TypeOK, row, grants, handler
<1>3. CASE status # "absent"
  BY <1>1, <1>3, SameRow, ReplayFits DEF FindCall, CallInv, TypeOK, row, grants, handler
<1> QED BY <1>2, <1>3

\* A step that writes neither the row nor a handler run, and moves a session to
\* a place that asks nothing of it but what it brings along.
LEMMA SameMemory ==
  ASSUME CallInv, NEW s \in Session, NEW p \in PC, NEW l \in Local,
         Evolves, pc[s] \notin {"idle", "insert"}, Goto(s, p),
         local' = [local EXCEPT ![s] = l],
         l.req = local[s].req, l.seenOp = local[s].seenOp,
         p \notin {"insert", "reconcile"},
         p = "consume" => l.pays \in Approval,
         p = "finish" => l.run \in Started'
  PROVE  /\ pc' \in [Session -> PC]
         /\ local' \in [Session -> Local]
         /\ \A t \in Session : Fits(pc[t], local[t])'
<1>1. Fits(pc[s], local[s])
  BY DEF CallInv
<1>2. Fits(p, l)'
  BY <1>1, StartedGrows DEF Fits, Evolves, CallInv
<1> QED BY <1>2, SessionMoves

\* ... and one that keeps the session's memory as it is.
LEMMA SessionContinues ==
  ASSUME CallInv, NEW s \in Session, Evolves, pc[s] \notin {"idle", "insert"},
         NEW p \in {"authorize", "load", "refuse", "executing", "capture", "invoke"},
         Goto(s, p), UNCHANGED local
  PROVE  /\ pc' \in [Session -> PC]
         /\ local' \in [Session -> Local]
         /\ \A t \in Session : Fits(pc[t], local[t])'
<1>1. PICK l \in Local : l = local[s]
  BY DEF CallInv, TypeOK
<1>2. local' = [local EXCEPT ![s] = l]
  BY <1>1 DEF CallInv, TypeOK
<1>3. l.req = local[s].req /\ l.seenOp = local[s].seenOp
  BY <1>1
<1>4. p \in PC /\ p \notin {"insert", "reconcile", "consume", "finish"}
  BY DEF PC
<1> QED BY <1>2, <1>3, <1>4, SameMemory

LEMMA InsertCallInv ==
  ASSUME CallInv, NEW s \in Session, InsertCall(s)
  PROVE  CallInv'
<1>1. /\ pc[s] = "insert" /\ local[s] \in Local /\ local[s].req \in Request
      /\ local[s].seenOp \in Started \cup {None} /\ local[s].req # None
  BY ConstantsAssumption DEF ConstantsAssumption, InsertCall, CallInv, TypeOK, Fits
<1>2. UNCHANGED <<grants, fixtures, handler, crashes>>
  BY DEF InsertCall
<1>3. CASE status = "absent"
  <2>1. /\ status' = "proposed" /\ fp' = local[s].req
        /\ UNCHANGED <<attempts, opId, recon>>
        /\ Goto(s, "policy") /\ local' = [local EXCEPT ![s] = local[s]]
    BY <1>3 DEF InsertCall, AskAuthorization
  <2>2. Evolves /\ Started' = Started
    BY <1>2, <1>3 DEF Evolves, CallInv, TypeOK, handler, Started
  <2>3. PICK l \in Local : /\ local' = [local EXCEPT ![s] = l]
                           /\ l.req = local[s].req /\ l.seenOp = local[s].seenOp
    BY <1>1, <2>1
  <2>4. Fits("policy", l)' /\ "policy" \in PC
    BY <1>1, <2>1, <2>2, <2>3 DEF Fits, PC
  <2>5. /\ pc' \in [Session -> PC] /\ local' \in [Session -> Local]
        /\ \A t \in Session : Fits(pc[t], local[t])'
    BY <2>1, <2>2, <2>3, <2>4, SessionMoves
  <2>6. TypeOK'
    BY <1>1, <1>2, <2>1, <2>5 DEF CallInv, TypeOK, Status, grants, handler
  <2> QED BY <2>1, <2>2, <2>5, <2>6 DEF CallInv, SucceededIsReal
<1>4. CASE status # "absent"
  <2>1. UNCHANGED <<row, handler>>
    BY <1>2, <1>4 DEF InsertCall
  <2>2. /\ pc' \in [Session -> PC] /\ local' \in [Session -> Local]
        /\ \A t \in Session : Fits(pc[t], local[t])'
    BY <1>1, <1>4, <2>1, SameRow, ReplayFits, SessionReturns DEF InsertCall
  <2> QED BY <1>2, <2>1, <2>2, SameRow DEF CallInv, TypeOK, row, grants, handler
<1> QED BY <1>3, <1>4

(***************************************************************************)
(* Authorization                                                            *)
(***************************************************************************)
LEMMA ReadPolicyInv ==
  ASSUME CallInv, NEW s \in Session, ReadPolicy(s)
  PROVE  CallInv'
<1>1. UNCHANGED <<row, grants, fixtures, handler, crashes>> /\ pc[s] = "policy"
  BY DEF ReadPolicy
<1>2. local[s] \in Local
  BY DEF CallInv, TypeOK
<1>3. PICK l \in Local, p \in {"record", "select"} :
        /\ Goto(s, p) /\ local' = [local EXCEPT ![s] = l]
        /\ l.req = local[s].req /\ l.seenOp = local[s].seenOp
  <2>1. CASE allowed /\ NeedsApproval(local[s].flow)
    <3>1. Goto(s, "select") /\ local' = [local EXCEPT ![s] = local[s]]
      BY <2>1 DEF ReadPolicy, Decide, CallInv, TypeOK
    <3> QED BY <1>2, <3>1
  <2>2. CASE ~(allowed /\ NeedsApproval(local[s].flow))
    <3>1. PICK d \in {"allowed", "denied"} : Decide(s, d, None)
      BY <2>2 DEF ReadPolicy
    <3>2. [local[s] EXCEPT !.decision = d, !.pays = None] \in Local
      BY <1>2 DEF Local, Decision
    <3>3. local' = [local EXCEPT ![s] = [local[s] EXCEPT !.decision = d, !.pays = None]]
      BY <1>2, <3>1 DEF Decide, CallInv, TypeOK
    <3> QED BY <1>2, <3>1, <3>2, <3>3 DEF Decide, Local
  <2> QED BY <2>1, <2>2
<1>4. /\ pc' \in [Session -> PC] /\ local' \in [Session -> Local]
      /\ \A t \in Session : Fits(pc[t], local[t])'
  BY <1>1, <1>3, SameRow, SameMemory DEF PC
<1> QED BY <1>1, <1>4, SameRow DEF CallInv, TypeOK, row, grants, handler

LEMMA DecideMemory ==
  ASSUME TypeOK, NEW s \in Session, NEW d \in Decision,
         NEW a \in Approval \cup {None}, Decide(s, d, a)
  PROVE  \E l \in Local : /\ local' = [local EXCEPT ![s] = l]
                          /\ l.req = local[s].req /\ l.seenOp = local[s].seenOp
<1>1. local[s] \in Local
  BY DEF TypeOK
<1>2. [local[s] EXCEPT !.decision = d, !.pays = a] \in Local
  BY <1>1 DEF Local
<1>3. local' = [local EXCEPT ![s] = [local[s] EXCEPT !.decision = d, !.pays = a]]
  BY <1>1 DEF Decide, TypeOK
<1> QED BY <1>1, <1>2, <1>3 DEF Local

LEMMA SelectApprovalInv ==
  ASSUME CallInv, NEW s \in Session, SelectApproval(s)
  PROVE  CallInv'
<1>1. UNCHANGED <<row, grants, fixtures, handler, crashes>> /\ pc[s] = "select"
  BY DEF SelectApproval
<1>2. local[s] \in Local
  BY DEF CallInv, TypeOK
<1>3. PICK l \in Local, p \in {"record", "consume"} :
        /\ Goto(s, p) /\ local' = [local EXCEPT ![s] = l]
        /\ l.req = local[s].req /\ l.seenOp = local[s].seenOp
        /\ p = "consume" => l.pays \in Approval
  <2>1. CASE \E a \in Approval : /\ Goto(s, "consume")
                                 /\ local' = [local EXCEPT ![s].pays = a]
    <3>1. PICK a \in Approval : /\ Goto(s, "consume")
                                /\ local' = [local EXCEPT ![s].pays = a]
      BY <2>1
    <3>2. [local[s] EXCEPT !.pays = a] \in Local
      BY <1>2 DEF Local
    <3>3. local' = [local EXCEPT ![s] = [local[s] EXCEPT !.pays = a]]
      BY <1>2, <3>1 DEF CallInv, TypeOK
    <3> QED BY <1>2, <3>1, <3>2, <3>3 DEF Local
  <2>2. CASE Decide(s, "requires_approval", None)
    <3>1. "requires_approval" \in Decision /\ TypeOK
      BY DEF Decision, CallInv
    <3> QED BY <2>2, <3>1, DecideMemory DEF Decide
  <2> QED BY <2>1, <2>2 DEF SelectApproval
<1>4. /\ pc' \in [Session -> PC] /\ local' \in [Session -> Local]
      /\ \A t \in Session : Fits(pc[t], local[t])'
  BY <1>1, <1>3, SameRow, SameMemory DEF PC
<1> QED BY <1>1, <1>4, SameRow DEF CallInv, TypeOK, row, grants, handler

\* A step that writes the row but starts and settles no handler run.
LEMMA RowWritten ==
  ASSUME CallInv, status # "absent", UNCHANGED <<fp, handler>>,
         status' \in Status \ {"absent"}, opId' \in Started \cup {None},
         status' = "succeeded" =>
           status = "succeeded" \/ Effect = "read" \/ Applied # {}
  PROVE  /\ Evolves
         /\ status' = "absent" <=> fp' = None
         /\ opId' \in Started' \cup {None}
         /\ SucceededIsReal'
<1>1. Started' = Started /\ Applied' = Applied
  BY DEF handler, Started, Applied
<1>2. Evolves
  BY DEF Evolves, CallInv, TypeOK, handler
<1> QED BY <1>1, <1>2 DEF CallInv, TypeOK, SucceededIsReal

LEMMA FlushReconType ==
  ASSUME TypeOK, NEW s \in Session, FlushRecon(s)
  PROVE  recon' \in Answer \cup {None}
  BY DEF FlushRecon, TypeOK, Answer

LEMMA ConsumeApprovalInv ==
  ASSUME CallInv, NEW s \in Session, ConsumeApproval(s)
  PROVE  CallInv'
<1>1. /\ UNCHANGED <<status, attempts, opId, fp, lastAuth, allowed, fixtures,
                     handler, crashes>>
      /\ pc[s] = "consume" /\ FlushRecon(s)
  BY DEF ConsumeApproval
<1>2. local[s].pays \in Approval /\ TypeOK /\ status # "absent"
  BY <1>1 DEF CallInv, Fits
<1>3. PICK d \in {"allowed", "requires_approval"}, a \in Approval \cup {None} :
        Decide(s, d, a)
  BY <1>2 DEF ConsumeApproval
<1>4. PICK l \in Local : /\ local' = [local EXCEPT ![s] = l]
                         /\ l.req = local[s].req /\ l.seenOp = local[s].seenOp
  <2>1. d \in Decision
    BY DEF Decision
  <2> QED BY <1>2, <1>3, <2>1, DecideMemory
<1>5. /\ Evolves /\ opId' \in Started' \cup {None} /\ SucceededIsReal'
  BY <1>1, <1>2, RowWritten DEF CallInv, TypeOK
<1>6. /\ pc' \in [Session -> PC] /\ local' \in [Session -> Local]
      /\ \A t \in Session : Fits(pc[t], local[t])'
  BY <1>1, <1>3, <1>4, <1>5, SameMemory DEF PC, Decide
<1>7. approvals' \in [Approval -> ApprovalState]
  BY <1>2 DEF ConsumeApproval, TypeOK, ApprovalState
<1>8. TypeOK'
  BY <1>1, <1>2, <1>6, <1>7, FlushReconType DEF TypeOK, handler
<1> QED BY <1>5, <1>6, <1>8 DEF CallInv

LEMMA RecordAuthorizationInv ==
  ASSUME CallInv, NEW s \in Session, RecordAuthorization(s)
  PROVE  CallInv'
<1>1. /\ UNCHANGED <<status, attempts, opId, fp, allowed, approvals, fixtures,
                     handler, crashes>>
      /\ pc[s] = "record" /\ FlushRecon(s) /\ lastAuth' = local[s].decision
  BY DEF RecordAuthorization
<1>2. TypeOK /\ status # "absent" /\ local[s] \in Local
  BY <1>1 DEF CallInv, TypeOK, Fits
<1>3. /\ Evolves /\ opId' \in Started' \cup {None} /\ SucceededIsReal'
  BY <1>1, <1>2, RowWritten DEF CallInv, TypeOK
<1>4. /\ pc' \in [Session -> PC] /\ local' \in [Session -> Local]
      /\ \A t \in Session : Fits(pc[t], local[t])'
  <2>1. CASE Return(s)
    BY <1>3, <2>1, SessionReturns
  <2>2. CASE \E p \in {"authorize", "load", "refuse"} : Goto(s, p) /\ UNCHANGED local
    <3>1. PICK p \in {"authorize", "load", "refuse"} : Goto(s, p) /\ UNCHANGED local
      BY <2>2
    <3> QED BY <1>1, <1>3, <3>1, SessionContinues
  <2> QED BY <2>1, <2>2 DEF RecordAuthorization, AfterAllowed, AfterRefused
<1>5. TypeOK'
  BY <1>1, <1>2, <1>4, FlushReconType DEF TypeOK, handler, Local
<1> QED BY <1>3, <1>4, <1>5 DEF CallInv

LEMMA CommitRefusalInv ==
  ASSUME CallInv, NEW s \in Session, CommitRefusal(s)
  PROVE  CallInv'
<1>1. /\ UNCHANGED <<attempts, opId, recon, fp, grants, fixtures, handler, crashes>>
      /\ pc[s] = "refuse" /\ Return(s)
      /\ status' \in {"awaiting_approval", "denied", "needs_review"}
  BY DEF CommitRefusal, RefusedStatus
<1>2. TypeOK /\ status # "absent"
  BY <1>1 DEF CallInv, Fits
<1>3. /\ Evolves /\ opId' \in Started' \cup {None} /\ SucceededIsReal'
      /\ status' = "absent" <=> fp' = None
  BY <1>1, <1>2, RowWritten DEF CallInv, TypeOK, Status
<1>4. /\ pc' \in [Session -> PC] /\ local' \in [Session -> Local]
      /\ \A t \in Session : Fits(pc[t], local[t])'
  BY <1>1, <1>3, SessionReturns
<1> QED BY <1>1, <1>2, <1>3, <1>4 DEF CallInv, TypeOK, Status, grants, handler

(***************************************************************************)
(* Execution                                                                *)
(***************************************************************************)
LEMMA CommitAuthorizedInv ==
  ASSUME CallInv, NEW s \in Session, CommitAuthorized(s)
  PROVE  CallInv'
<1>1. /\ UNCHANGED <<attempts, opId, recon, fp, grants, fixtures, handler, local, crashes>>
      /\ pc[s] = "authorize" /\ Goto(s, "load") /\ status' = "authorized"
  BY DEF CommitAuthorized
<1>2. TypeOK /\ status # "absent"
  BY <1>1 DEF CallInv, Fits
<1>3. /\ Evolves /\ opId' \in Started' \cup {None} /\ SucceededIsReal'
      /\ status' = "absent" <=> fp' = None
  BY <1>1, <1>2, RowWritten DEF CallInv, TypeOK, Status
<1>4. /\ pc' \in [Session -> PC] /\ local' \in [Session -> Local]
      /\ \A t \in Session : Fits(pc[t], local[t])'
  BY <1>1, <1>3, SessionContinues
<1> QED BY <1>1, <1>2, <1>3, <1>4 DEF CallInv, TypeOK, Status, grants, handler

LEMMA LoadAttemptsInv ==
  ASSUME CallInv, NEW s \in Session, LoadAttempts(s)
  PROVE  CallInv'
<1>1. /\ UNCHANGED <<row, grants, fixtures, handler, crashes>>
      /\ pc[s] = "load" /\ Goto(s, "executing")
      /\ local' = [local EXCEPT ![s].att = attempts]
  BY DEF LoadAttempts
<1>2. local[s] \in Local /\ TypeOK
  BY DEF CallInv, TypeOK
<1>3. PICK l \in Local : /\ local' = [local EXCEPT ![s] = l]
                         /\ l.req = local[s].req /\ l.seenOp = local[s].seenOp
  <2>1. [local[s] EXCEPT !.att = attempts] \in Local
    BY <1>2 DEF TypeOK, Local
  <2>2. local' = [local EXCEPT ![s] = [local[s] EXCEPT !.att = attempts]]
    BY <1>1, <1>2 DEF TypeOK
  <2> QED BY <1>2, <2>1, <2>2 DEF Local
<1>4. /\ pc' \in [Session -> PC] /\ local' \in [Session -> Local]
      /\ \A t \in Session : Fits(pc[t], local[t])'
  BY <1>1, <1>3, SameRow, SameMemory DEF PC
<1> QED BY <1>1, <1>4, SameRow DEF CallInv, TypeOK, row, grants, handler

LEMMA CommitExecutingInv ==
  ASSUME CallInv, NEW s \in Session, CommitExecuting(s)
  PROVE  CallInv'
<1>1. /\ UNCHANGED <<opId, recon, fp, grants, fixtures, handler, local, crashes>>
      /\ pc[s] = "executing" /\ status' = "executing"
      /\ attempts' = local[s].att + 1
  BY DEF CommitExecuting
<1>2. TypeOK /\ status # "absent"
  BY <1>1 DEF CallInv, Fits
<1>3. /\ Evolves /\ opId' \in Started' \cup {None} /\ SucceededIsReal'
      /\ status' = "absent" <=> fp' = None
  BY <1>1, <1>2, RowWritten DEF CallInv, TypeOK, Status
<1>4. \E p \in {"capture", "invoke"} : Goto(s, p)
  BY DEF CommitExecuting
<1>5. /\ pc' \in [Session -> PC] /\ local' \in [Session -> Local]
      /\ \A t \in Session : Fits(pc[t], local[t])'
  BY <1>1, <1>3, <1>4, SessionContinues
<1>6. attempts' \in Nat
  BY <1>1, <1>2 DEF TypeOK, Local
<1> QED BY <1>1, <1>2, <1>3, <1>5, <1>6 DEF CallInv, TypeOK, Status, grants, handler

LEMMA CaptureBeforeStateInv ==
  ASSUME CallInv, NEW s \in Session, CaptureBeforeState(s)
  PROVE  CallInv'
<1>1. /\ UNCHANGED <<row, grants, fixtures, handler, crashes>>
      /\ pc[s] = "capture" /\ Goto(s, "fixture")
      /\ local' = [local EXCEPT ![s].snap = attempts]
  BY DEF CaptureBeforeState
<1>2. local[s] \in Local /\ TypeOK
  BY DEF CallInv, TypeOK
<1>3. PICK l \in Local : /\ local' = [local EXCEPT ![s] = l]
                         /\ l.req = local[s].req /\ l.seenOp = local[s].seenOp
  <2>1. [local[s] EXCEPT !.snap = attempts] \in Local
    BY <1>2 DEF TypeOK, Local
  <2>2. local' = [local EXCEPT ![s] = [local[s] EXCEPT !.snap = attempts]]
    BY <1>1, <1>2 DEF TypeOK
  <2> QED BY <1>2, <2>1, <2>2 DEF Local
<1>4. /\ pc' \in [Session -> PC] /\ local' \in [Session -> Local]
      /\ \A t \in Session : Fits(pc[t], local[t])'
  BY <1>1, <1>3, SameRow, SameMemory DEF PC
<1> QED BY <1>1, <1>4, SameRow DEF CallInv, TypeOK, row, grants, handler

LEMMA CommitFixtureInv ==
  ASSUME CallInv, NEW s \in Session, CommitFixture(s)
  PROVE  CallInv'
<1>1. UNCHANGED <<row, grants, handler, crashes>> /\ pc[s] = "fixture"
  BY DEF CommitFixture
<1>2. local[s] \in Local /\ TypeOK
  BY DEF CallInv, TypeOK
<1>3. fixtures' \in SUBSET Nat
  BY <1>2 DEF CommitFixture, TypeOK, Local
<1>4. /\ pc' \in [Session -> PC] /\ local' \in [Session -> Local]
      /\ \A t \in Session : Fits(pc[t], local[t])'
  BY <1>1, SameRow, SessionReturns, SessionContinues DEF CommitFixture
<1> QED BY <1>1, <1>3, <1>4, SameRow DEF CallInv, TypeOK, row, grants, handler

LEMMA InvokeHandlerInv ==
  ASSUME CallInv, NEW s \in Session, InvokeHandler(s)
  PROVE  CallInv'
<1> DEFINE r == runs + 1
<1>1. /\ UNCHANGED <<row, grants, fixtures, crashes>>
      /\ pc[s] = "invoke" /\ Goto(s, "finish") /\ runs' = r
      /\ \E e \in ProviderState : effect' = [effect EXCEPT ![r] = e]
      /\ paidBy' = [paidBy EXCEPT ![r] = local[s].pays]
      /\ snapOf' = [snapOf EXCEPT ![r] = local[s].snap]
      /\ local' = [local EXCEPT ![s].run = r, ![s].seen = status, ![s].seenOp = opId]
  <2>1. Outcomes \subseteq ProviderState
    BY DEF Outcomes, ProviderState
  <2> QED BY <2>1 DEF InvokeHandler
<1>2. local[s] \in Local /\ TypeOK
  BY DEF CallInv, TypeOK
<1>3. r \in Run /\ r \notin Started /\ Started' = Started \cup {r} /\ r \in 1 .. MaxRuns
  BY <1>1, <1>2, RunsAreNat DEF InvokeHandler, Run, Started, TypeOK
<1>4. Evolves
  BY <1>1, <1>2, <1>3, RunsAreNat DEF Evolves, TypeOK, row, Started, Run
<1>5. SucceededIsReal'
  <2>1. Applied \subseteq Applied'
    BY <1>3, <1>4 DEF Applied, Evolves
  <2> QED BY <1>1, <2>1 DEF CallInv, SucceededIsReal, row
<1>6. PICK l \in Local : /\ local' = [local EXCEPT ![s] = l]
                         /\ l.req = local[s].req /\ l.run = r /\ l.seenOp = opId
  <2> DEFINE m == [local[s] EXCEPT !.run = r, !.seen = status, !.seenOp = opId]
  <2>1. m \in Local
    BY <1>2, <1>3 DEF TypeOK, Local
  <2>2. m.req = local[s].req /\ m.run = r /\ m.seenOp = opId
    BY <1>2 DEF Local
  <2>3. local' = [local EXCEPT ![s] = m]
    BY <1>1, <1>2 DEF TypeOK
  <2> QED BY <2>1, <2>2, <2>3
<1>7. Fits("finish", l)' /\ "finish" \in PC
  <2>1. Fits(pc[s], local[s]) /\ opId \in Started \cup {None}
    BY DEF CallInv
  <2> QED BY <1>1, <1>3, <1>6, <2>1 DEF Fits, PC, row
<1>8. /\ pc' \in [Session -> PC] /\ local' \in [Session -> Local]
      /\ \A t \in Session : Fits(pc[t], local[t])'
  BY <1>1, <1>4, <1>6, <1>7, SessionMoves
<1>9. /\ paidBy' \in [Run -> Approval \cup {None}] /\ snapOf' \in [Run -> Nat]
      /\ effect' \in [Run -> ProviderState] /\ runs' \in 0 .. MaxRuns
  BY <1>1, <1>2, <1>3, RunsAreNat DEF TypeOK, Local
<1>10. TypeOK'
  BY <1>1, <1>2, <1>8, <1>9 DEF TypeOK, row, grants
<1> QED BY <1>1, <1>3, <1>5, <1>8, <1>10 DEF CallInv, row

LEMMA ReportsType ==
  ASSUME NEW r \in Run
  PROVE  /\ Reports(r) \subseteq {"succeeded", "failed", "outcome_unknown"}
         /\ Effect # "read" /\ "succeeded" \in Reports(r) => effect[r] = "applied"
  BY DEF Reports

LEMMA CommitResultInv ==
  ASSUME CallInv, NEW s \in Session, CommitResult(s)
  PROVE  CallInv'
<1> DEFINE r == local[s].run
<1>1. PICK res \in Reports(r) :
        /\ pc[s] = "finish" /\ Return(s)
        /\ UNCHANGED <<attempts, recon, fp, grants, fixtures, handler, crashes>>
        /\ status' = Flushed(local[s].seen, res, status)
        /\ opId' = Flushed(local[s].seenOp,
                           IF res = "outcome_unknown" THEN r ELSE None, opId)
  BY DEF CommitResult
<1>2. /\ TypeOK /\ status # "absent" /\ r \in Started /\ r \in Run
      /\ opId \in Started \cup {None} /\ Started' = Started /\ Applied' = Applied
  BY <1>1, RunsAreNat DEF CallInv, Fits, Started, Applied, handler
<1>3. /\ res \in {"succeeded", "failed", "outcome_unknown"}
      /\ Effect # "read" /\ res = "succeeded" => r \in Applied
  BY <1>1, <1>2, ReportsType DEF Applied
<1>4. /\ status' \in Status \ {"absent"}
      /\ status' = "succeeded" => status = "succeeded" \/ res = "succeeded"
      /\ opId' \in Started \cup {None}
  BY <1>1, <1>2, <1>3 DEF Flushed, Status, TypeOK
<1>5. Evolves
  BY <1>1, <1>2, <1>4, RunsAreNat DEF Evolves, TypeOK, handler
<1>6. SucceededIsReal'
  BY <1>2, <1>3, <1>4 DEF CallInv, SucceededIsReal
<1>7. /\ pc' \in [Session -> PC] /\ local' \in [Session -> Local]
      /\ \A t \in Session : Fits(pc[t], local[t])'
  BY <1>1, <1>5, SessionReturns
<1>8. opId' \in Run \cup {None} /\ (status' = "absent" <=> fp' = None)
  BY <1>1, <1>2, <1>4, RunsAreNat DEF TypeOK
<1>9. TypeOK'
  BY <1>1, <1>2, <1>4, <1>7, <1>8 DEF TypeOK, grants, handler
<1> QED BY <1>2, <1>4, <1>6, <1>7, <1>9 DEF CallInv

(***************************************************************************)
(* Recovery and approval                                                    *)
(***************************************************************************)
LEMMA LoadForRecoveryInv ==
  ASSUME CallInv, NEW s \in Session, NEW p \in {"scanned", "decide"},
         status # "absent", LoadForRecovery(s, p)
  PROVE  CallInv'
<1>1. /\ UNCHANGED <<row, grants, fixtures, handler, crashes>> /\ Goto(s, p)
      /\ local' = [local EXCEPT ![s] = [Blank EXCEPT
                     !.flow = "recover", !.seen = status, !.seenOp = opId]]
  BY DEF LoadForRecovery
<1>2. TypeOK /\ opId \in Started \cup {None} /\ opId \in Run \cup {None}
  BY DEF CallInv, TypeOK
<1>3. PICK l \in Local : /\ local' = [local EXCEPT ![s] = l]
                         /\ l.req = None /\ l.seenOp = opId
  <2> DEFINE m == [Blank EXCEPT !.flow = "recover", !.seen = status, !.seenOp = opId]
  <2>1. m \in Local /\ m.req = None /\ m.seenOp = opId
    BY <1>2, BlankType DEF TypeOK, Blank, Local, Flow
  <2> QED BY <1>1, <2>1
<1>4. Evolves
  BY <1>1, SameRow
<1>5. Fits(p, l)' /\ p \in PC
  BY <1>1, <1>2, <1>3, <1>4, StartedGrows DEF Fits, PC, row
<1>6. /\ pc' \in [Session -> PC] /\ local' \in [Session -> Local]
      /\ \A t \in Session : Fits(pc[t], local[t])'
  BY <1>1, <1>3, <1>4, <1>5, SessionMoves
<1> QED BY <1>1, <1>6, SameRow DEF CallInv, TypeOK, row, grants, handler

LEMMA ScanInv ==
  ASSUME CallInv, NEW s \in Session, ScanStaleCall(s) \/ RereadScanned(s) \/ RecoverRunCall(s)
  PROVE  CallInv'
<1>1. PICK p \in {"scanned", "decide"} : LoadForRecovery(s, p)
  BY DEF ScanStaleCall, RereadScanned, RecoverRunCall
<1>2. status # "absent"
  <2>1. pc[s] = "scanned" => status # "absent"
    BY DEF CallInv, Fits
  <2> QED BY <2>1 DEF ScanStaleCall, RereadScanned, RecoverRunCall, Recoverable
<1> QED BY <1>1, <1>2, LoadForRecoveryInv

LEMMA RecoverRecordInv ==
  ASSUME CallInv, NEW s \in Session, RecoverRecord(s)
  PROVE  CallInv'
<1>1. UNCHANGED <<grants, fixtures, handler, crashes>> /\ pc[s] \in {"scanned", "decide"}
  BY DEF RecoverRecord
<1>2. /\ TypeOK /\ status # "absent" /\ local[s] \in Local
      /\ local[s].seenOp \in Started \cup {None} /\ Fits(pc[s], local[s])
  BY <1>1 DEF CallInv, TypeOK, Fits
<1>3. CASE /\ status' \in (Status \ {"absent", "succeeded"}) \cup {status}
           /\ Return(s) /\ UNCHANGED <<attempts, opId, recon, fp>>
  <2>1. /\ Evolves /\ opId' \in Started' \cup {None} /\ SucceededIsReal'
        /\ (status' = "absent" <=> fp' = None) /\ status' \in Status
    BY <1>1, <1>2, <1>3, RowWritten DEF CallInv, TypeOK
  <2>2. /\ pc' \in [Session -> PC] /\ local' \in [Session -> Local]
        /\ \A t \in Session : Fits(pc[t], local[t])'
    BY <1>3, <2>1, SessionReturns
  <2> QED BY <1>1, <1>2, <1>3, <2>1, <2>2 DEF CallInv, TypeOK, grants, handler
<1>4. CASE AskAuthorization(s, local[s]) /\ UNCHANGED row
  <2>1. Evolves
    BY <1>1, <1>4, SameRow
  <2>2. PICK l \in Local : l = local[s]
    BY <1>2
  <2>3. /\ pc' \in [Session -> PC] /\ local' \in [Session -> Local]
        /\ \A t \in Session : Fits(pc[t], local[t])'
    BY <1>1, <1>4, <2>1, <2>2, SameMemory DEF AskAuthorization, PC
  <2> QED BY <1>1, <1>4, <2>3, SameRow DEF CallInv, TypeOK, row, grants, handler
<1>5. CASE QueryProvider(s)
  <2>1. Evolves /\ UNCHANGED row /\ Goto(s, "reconcile") /\ local[s].seenOp \in Started
    BY <1>1, <1>2, <1>5, SameRow DEF QueryProvider
  <2>2. PICK ans \in Answers(local[s].seenOp) :
          local' = [local EXCEPT ![s].answer = ans]
    BY <1>5 DEF QueryProvider
  <2>3. /\ ans \in Answer
        /\ ans = "succeeded" => effect[local[s].seenOp] = "applied"
    BY DEF Answers, Answer
  <2>4. PICK l \in Local : /\ local' = [local EXCEPT ![s] = l]
                           /\ l.req = local[s].req /\ l.seenOp = local[s].seenOp
                           /\ l.answer = ans
    <3> DEFINE m == [local[s] EXCEPT !.answer = ans]
    <3>1. /\ m \in Local
          /\ m.req = local[s].req /\ m.seenOp = local[s].seenOp /\ m.answer = ans
      BY <1>2, <2>3 DEF Local
    <3>2. local' = [local EXCEPT ![s] = m]
      BY <1>2, <2>2 DEF TypeOK
    <3> QED BY <3>1, <3>2
  <2>5. Fits("reconcile", l)' /\ "reconcile" \in PC
    BY <1>1, <1>2, <2>1, <2>3, <2>4, StartedGrows DEF Fits, PC, row, handler
  <2>6. /\ pc' \in [Session -> PC] /\ local' \in [Session -> Local]
        /\ \A t \in Session : Fits(pc[t], local[t])'
    BY <2>1, <2>4, <2>5, SessionMoves
  <2> QED BY <1>1, <2>1, <2>6, SameRow DEF CallInv, TypeOK, row, grants, handler
<1>6. \/ /\ status' \in (Status \ {"absent", "succeeded"}) \cup {status}
         /\ Return(s) /\ UNCHANGED <<attempts, opId, recon, fp>>
      \/ AskAuthorization(s, local[s]) /\ UNCHANGED row
      \/ QueryProvider(s)
  <2>1. CASE MarkForReview(s)
    <3>1. status' \in {status, "needs_review"}
      BY <2>1 DEF MarkForReview, Flushed
    <3>2. "needs_review" \in Status \ {"absent", "succeeded"}
      BY DEF Status
    <3>3. Return(s) /\ UNCHANGED <<attempts, opId, recon, fp>>
      BY <2>1 DEF MarkForReview
    <3> QED BY <3>1, <3>2, <3>3
  <2>2. CASE /\ status' = "outcome_unknown"
             /\ Return(s) /\ UNCHANGED <<attempts, opId, recon, fp>>
    <3>1. "outcome_unknown" \in Status \ {"absent", "succeeded"}
      BY DEF Status
    <3> QED BY <2>2, <3>1
  <2> QED BY <2>1, <2>2, Zenon DEF RecoverRecord
<1> QED BY <1>3, <1>4, <1>5, <1>6

LEMMA ReconcileInv ==
  ASSUME CallInv, NEW s \in Session, Reconcile(s)
  PROVE  CallInv'
<1>1. UNCHANGED <<attempts, opId, fp, grants, fixtures, handler, crashes>> /\ pc[s] = "reconcile"
  BY DEF Reconcile
<1>2. /\ TypeOK /\ status # "absent" /\ local[s] \in Local
      /\ local[s].seenOp \in Started
      /\ local[s].answer = "succeeded" => effect[local[s].seenOp] = "applied"
  BY <1>1 DEF CallInv, TypeOK, Fits
<1>3. CASE local[s].answer = "not_found"
  <2>1. AskAuthorization(s, [local[s] EXCEPT !.flow = "not_found"]) /\ UNCHANGED row
    BY <1>1, <1>3 DEF Reconcile, row
  <2>2. PICK l \in Local : /\ local' = [local EXCEPT ![s] = l]
                           /\ l.req = local[s].req /\ l.seenOp = local[s].seenOp
    <3>1. [local[s] EXCEPT !.flow = "not_found"] \in Local
      BY <1>2 DEF Local, Flow
    <3> QED BY <1>2, <2>1, <3>1 DEF AskAuthorization, Local
  <2>3. Evolves /\ Goto(s, "policy")
    BY <1>1, <2>1, SameRow DEF AskAuthorization
  <2>4. /\ pc' \in [Session -> PC] /\ local' \in [Session -> Local]
        /\ \A t \in Session : Fits(pc[t], local[t])'
    BY <1>1, <2>2, <2>3, SameMemory DEF PC
  <2> QED BY <1>1, <2>1, <2>4, SameRow DEF CallInv, TypeOK, row, grants, handler
<1>4. CASE local[s].answer # "not_found"
  <2>1. /\ Return(s) /\ recon' \in Answer /\ status' \in {status, "succeeded"}
        /\ status' = "succeeded" => status = "succeeded" \/ local[s].answer = "succeeded"
    BY <1>4 DEF Reconcile, Answer
  <2>2. local[s].answer = "succeeded" => Applied # {}
    BY <1>2 DEF Applied
  <2>3. /\ Evolves /\ opId' \in Started' \cup {None} /\ SucceededIsReal'
        /\ (status' = "absent" <=> fp' = None) /\ status' \in Status
    BY <1>1, <1>2, <2>1, <2>2, RowWritten DEF CallInv, TypeOK, Status
  <2>4. /\ pc' \in [Session -> PC] /\ local' \in [Session -> Local]
        /\ \A t \in Session : Fits(pc[t], local[t])'
    BY <2>1, <2>3, SessionReturns
  <2>5. opId' \in Run \cup {None} /\ recon' \in Answer \cup {None}
    BY <1>1, <1>2, <2>1 DEF TypeOK
  <2>6. TypeOK'
    BY <1>1, <1>2, <2>3, <2>4, <2>5 DEF TypeOK, grants, handler
  <2> QED BY <2>3, <2>4, <2>6 DEF CallInv
<1> QED BY <1>3, <1>4

LEMMA LoadForApprovalInv ==
  ASSUME CallInv, NEW s \in Session, LoadForApproval(s)
  PROVE  CallInv'
<1>1. /\ UNCHANGED <<row, grants, fixtures, handler, crashes>> /\ Goto(s, "approve")
      /\ local' = [local EXCEPT ![s] = [Blank EXCEPT !.seen = status]]
      /\ status # "absent"
  BY DEF LoadForApproval
<1>2. PICK l \in Local : /\ local' = [local EXCEPT ![s] = l]
                         /\ l.req = None /\ l.seenOp = None
  <2> DEFINE m == [Blank EXCEPT !.seen = status]
  <2>1. m \in Local /\ m.req = None /\ m.seenOp = None
    BY BlankType DEF CallInv, TypeOK, Blank, Local
  <2> QED BY <1>1, <2>1
<1>3. Evolves
  BY <1>1, SameRow
<1>4. Fits("approve", l)' /\ "approve" \in PC
  BY <1>1, <1>2 DEF Fits, PC, row
<1>5. /\ pc' \in [Session -> PC] /\ local' \in [Session -> Local]
      /\ \A t \in Session : Fits(pc[t], local[t])'
  BY <1>1, <1>2, <1>3, <1>4, SessionMoves
<1> QED BY <1>1, <1>5, SameRow DEF CallInv, TypeOK, row, grants, handler

LEMMA GrantApprovalInv ==
  ASSUME CallInv, NEW s \in Session, GrantApproval(s)
  PROVE  CallInv'
<1>1. /\ UNCHANGED <<attempts, opId, recon, fp, lastAuth, allowed, fixtures,
                     handler, crashes>>
      /\ pc[s] = "approve" /\ Return(s)
  BY DEF GrantApproval
<1>2. TypeOK /\ status # "absent" /\ opId \in Started \cup {None}
  BY <1>1 DEF CallInv, Fits
<1>3. status' \in {status, "awaiting_approval"} /\ approvals' \in [Approval -> ApprovalState]
  BY <1>2 DEF GrantApproval, Flushed, TypeOK, ApprovalState
<1>4. /\ Evolves /\ opId' \in Started' \cup {None} /\ SucceededIsReal'
      /\ (status' = "absent" <=> fp' = None) /\ status' \in Status
  <2>1. status' \in Status \ {"absent"} /\ (status' = "succeeded" => status = "succeeded")
    BY <1>2, <1>3 DEF TypeOK, Status
  <2> QED BY <1>1, <1>2, <2>1, RowWritten
<1>5. /\ pc' \in [Session -> PC] /\ local' \in [Session -> Local]
      /\ \A t \in Session : Fits(pc[t], local[t])'
  BY <1>1, <1>4, SessionReturns
<1> QED BY <1>1, <1>2, <1>3, <1>4, <1>5 DEF CallInv, TypeOK, handler

(***************************************************************************)
(* The environment                                                          *)
(***************************************************************************)
LEMMA ApprovalLapsesInv ==
  ASSUME CallInv, NEW a \in Approval, ApprovalLapses(a)
  PROVE  CallInv'
<1>1. /\ UNCHANGED <<row, lastAuth, allowed, fixtures, handler, pc, local, crashes>>
      /\ approvals' \in [Approval -> ApprovalState]
  BY DEF ApprovalLapses, CallInv, TypeOK, ApprovalState
<1> QED BY <1>1, SameRow, SessionsStay DEF CallInv, TypeOK, row, handler

LEMMA UpdateTaskPolicyInv ==
  ASSUME CallInv, UpdateTaskPolicy
  PROVE  CallInv'
<1>1. /\ UNCHANGED <<row, lastAuth, approvals, fixtures, handler, pc, local, crashes>>
      /\ allowed' \in BOOLEAN
  BY DEF UpdateTaskPolicy, CallInv, TypeOK
<1> QED BY <1>1, SameRow, SessionsStay DEF CallInv, TypeOK, row, handler

LEMMA ProviderSettlesInv ==
  ASSUME CallInv, NEW r \in Run, ProviderSettles(r)
  PROVE  CallInv'
<1>1. /\ UNCHANGED <<row, grants, fixtures, runs, paidBy, snapOf, pc, local, crashes>>
      /\ effect[r] = "pending" /\ effect' \in [Run -> ProviderState]
      /\ \A q \in Run : effect[q] = "applied" => effect'[q] = "applied"
  BY DEF ProviderSettles, CallInv, TypeOK, ProviderState
<1>2. TypeOK /\ Started' = Started /\ Started \subseteq Run
  BY <1>1, RunsAreNat DEF CallInv, Started
<1>3. Evolves
  BY <1>1, <1>2 DEF Evolves, row, TypeOK
<1>4. SucceededIsReal'
  <2>1. Applied \subseteq Applied'
    BY <1>1, <1>2 DEF Applied
  <2> QED BY <1>1, <2>1 DEF CallInv, SucceededIsReal, row
<1> QED BY <1>1, <1>2, <1>3, <1>4, SessionsStay DEF CallInv, TypeOK, row, grants

LEMMA CrashInv ==
  ASSUME CallInv, NEW s \in Session, Crash(s)
  PROVE  CallInv'
<1>1. /\ UNCHANGED <<row, grants, fixtures, handler>> /\ Return(s)
      /\ crashes < MaxCrashes /\ crashes' = crashes + 1
  BY DEF Crash
<1>2. crashes' \in 0 .. MaxCrashes
  BY <1>1, ConstantsAssumption DEF ConstantsAssumption, CallInv, TypeOK
<1> QED BY <1>1, <1>2, SameRow, SessionReturns
        DEF CallInv, TypeOK, row, grants, handler

LEMMA StutterInv ==
  ASSUME CallInv, UNCHANGED vars PROVE CallInv'
  BY SameRow, SessionsStay DEF vars, CallInv, TypeOK, row, grants, handler

LEMMA NextInv == CallInv /\ [Next]_vars => CallInv'
<1> SUFFICES ASSUME CallInv, [Next]_vars PROVE CallInv'
  OBVIOUS
<1>1. CASE \E s \in Session : Start(s)
  BY <1>1, FindCallInv, ScanInv, LoadForApprovalInv DEF Start
<1>2. CASE \E s \in Session : Continue(s)
  BY <1>2, InsertCallInv, ReadPolicyInv, SelectApprovalInv, ConsumeApprovalInv,
     RecordAuthorizationInv, CommitRefusalInv, CommitAuthorizedInv,
     LoadAttemptsInv, CommitExecutingInv, CaptureBeforeStateInv, CommitFixtureInv,
     InvokeHandlerInv,
     CommitResultInv, ScanInv, RecoverRecordInv, ReconcileInv, GrantApprovalInv
  DEF Continue
<1>3. CASE \E s \in Session : Crash(s)
  BY <1>3, CrashInv
<1>4. CASE \/ \E a \in Approval : ApprovalLapses(a)
           \/ UpdateTaskPolicy
           \/ \E r \in Run : ProviderSettles(r)
  BY <1>4, ApprovalLapsesInv, UpdateTaskPolicyInv, ProviderSettlesInv
<1>5. CASE UNCHANGED vars
  BY <1>5, StutterInv
<1> QED BY <1>1, <1>2, <1>3, <1>4, <1>5 DEF Next

\* CallInv is an invariant of the specification.
THEOREM CallInvariant == Spec => []CallInv
  BY InitInv, NextInv, PTL DEF Spec

\* Every variable keeps its type, and a stored row its fingerprint.
THEOREM TypeCorrect == Spec => []TypeOK
<1>1. CallInv => TypeOK
  BY DEF CallInv
<1> QED BY <1>1, CallInvariant, PTL

\* A write recorded as succeeded has taken effect, however its sessions raced,
\* crashed or were recovered.
THEOREM SucceededIsRealHolds == Spec => []SucceededIsReal
<1>1. CallInv => SucceededIsReal
  BY DEF CallInv
<1> QED BY <1>1, CallInvariant, PTL

\* No session ever executes, or is shown, another request than its own.
THEOREM OwnRequestOnlyHolds == Spec => []OwnRequestOnly
<1>1. CallInv => OwnRequestOnly
  BY DEF CallInv, Fits, OwnRequestOnly
<1> QED BY <1>1, CallInvariant, PTL

(***************************************************************************)
(* One run per approval                                                     *)
(*                                                                          *)
(* OneRunPerApproval is not inductive: a session carries the approval it has *)
(* consumed through several commits before it invokes the handler.  Until    *)
(* then the approval belongs to that session alone and has paid for nothing. *)
(***************************************************************************)
ExecutionPath == {"authorize", "load", "executing", "capture", "fixture", "invoke"}

Paying(p, l) ==
  /\ p \in ExecutionPath \cup {"record"}
  /\ l.decision = "allowed"
  /\ NeedsApproval(l.flow)

ApprovalInv ==
  Effect = "external_write" /\ RequireApproval =>
    /\ OneRunPerApproval
    /\ \A s \in Session :
         /\ pc[s] \in ExecutionPath =>
              local[s].decision = "allowed" /\ local[s].flow # "replay"
         /\ Paying(pc[s], local[s]) =>
              /\ local[s].pays \in Approval
              /\ approvals[local[s].pays] = "consumed"
              /\ \A r \in Started : paidBy[r] # local[s].pays
    /\ \A s, t \in Session :
         Paying(pc[s], local[s]) /\ Paying(pc[t], local[t])
           /\ local[s].pays = local[t].pays => s = t

\* A session that spends and consumes nothing: it carries on with the approval
\* it holds, or gives it up.
LEMMA NothingSpent ==
  ASSUME TypeOK, ApprovalInv, NEW s \in Session, NEW p, NEW l,
         pc' = [pc EXCEPT ![s] = p], local' = [local EXCEPT ![s] = l],
         UNCHANGED <<runs, paidBy>>,
         \A a \in Approval : approvals[a] = "consumed" => approvals'[a] = "consumed",
         p \in ExecutionPath => l.decision = "allowed" /\ l.flow # "replay",
         Paying(p, l) => Paying(pc[s], local[s]) /\ l.pays = local[s].pays
  PROVE  ApprovalInv'
<1> SUFFICES ASSUME Effect = "external_write", RequireApproval PROVE ApprovalInv'
  BY DEF ApprovalInv
<1>1. Started' = Started /\ pc'[s] = p /\ local'[s] = l
  BY DEF Started, TypeOK
<1>2. \A t \in Session \ {s} : pc'[t] = pc[t] /\ local'[t] = local[t]
  BY DEF TypeOK
<1>3. OneRunPerApproval'
  BY <1>1 DEF ApprovalInv, OneRunPerApproval
<1>4. ASSUME NEW t \in Session
      PROVE  /\ pc'[t] \in ExecutionPath =>
                  local'[t].decision = "allowed" /\ local'[t].flow # "replay"
             /\ Paying(pc'[t], local'[t]) =>
                  /\ Paying(pc[t], local[t]) /\ local'[t].pays = local[t].pays
                  /\ local'[t].pays \in Approval
                  /\ approvals'[local'[t].pays] = "consumed"
                  /\ \A r \in Started : paidBy'[r] # local'[t].pays
  BY <1>1, <1>2 DEF ApprovalInv
<1>5. \A t, u \in Session :
        Paying(pc'[t], local'[t]) /\ Paying(pc'[u], local'[u])
          /\ local'[t].pays = local'[u].pays => t = u
  BY <1>4 DEF ApprovalInv
<1> QED BY <1>1, <1>3, <1>4, <1>5 DEF ApprovalInv, Paying, NeedsApproval

LEMMA NothingMoves ==
  ASSUME TypeOK, ApprovalInv, UNCHANGED <<pc, local, runs, paidBy>>,
         \A a \in Approval : approvals[a] = "consumed" => approvals'[a] = "consumed"
  PROVE  ApprovalInv'
<1>1. Started' = Started
  BY DEF Started
<1> QED BY <1>1 DEF ApprovalInv, OneRunPerApproval, Paying, NeedsApproval

\* ... off the path to a handler nothing is held, and nothing is asked.
LEMMA OffPath ==
  ASSUME TypeOK, ApprovalInv, NEW s \in Session, NEW p, NEW l,
         p \notin ExecutionPath \cup {"record"},
         Goto(s, p), local' = [local EXCEPT ![s] = l],
         UNCHANGED <<runs, paidBy>>,
         \A a \in Approval : approvals[a] = "consumed" => approvals'[a] = "consumed"
  PROVE  ApprovalInv'
<1>1. ~Paying(p, l) /\ p \notin ExecutionPath
  BY DEF Paying
<1> QED BY <1>1, NothingSpent DEF Goto

LEMMA ReturnPays ==
  ASSUME TypeOK, ApprovalInv, NEW s \in Session, Return(s),
         UNCHANGED <<runs, paidBy>>,
         \A a \in Approval : approvals[a] = "consumed" => approvals'[a] = "consumed"
  PROVE  ApprovalInv'
<1>1. "idle" \notin ExecutionPath \cup {"record"}
  BY DEF ExecutionPath
<1> QED BY <1>1, OffPath DEF Return

LEMMA AskPays ==
  ASSUME TypeOK, ApprovalInv, NEW s \in Session, NEW l, AskAuthorization(s, l),
         UNCHANGED <<runs, paidBy, approvals>>
  PROVE  ApprovalInv'
<1>1. "policy" \notin ExecutionPath \cup {"record"}
  BY DEF ExecutionPath
<1> QED BY <1>1, OffPath DEF AskAuthorization

LEMMA ReplayPays ==
  ASSUME TypeOK, ApprovalInv, NEW s \in Session, NEW q, ReplayOrConflict(s, q),
         UNCHANGED <<runs, paidBy, approvals>>
  PROVE  ApprovalInv'
  BY AskPays, ReturnPays DEF ReplayOrConflict

LEMMA StartPays ==
  ASSUME TypeOK, ApprovalInv, NEW s \in Session, Start(s) \/ RereadScanned(s)
  PROVE  ApprovalInv'
<1>1. UNCHANGED <<runs, paidBy, approvals>>
  BY DEF Start, FindCall, ScanStaleCall, RereadScanned, RecoverRunCall,
         LoadForRecovery, LoadForApproval, grants, handler
<1>2. ASSUME NEW q \in Request, FindCall(s, q) PROVE ApprovalInv'
  <2>1. CASE ReplayOrConflict(s, q)
    BY <1>1, <2>1, ReplayPays
  <2>2. CASE Goto(s, "insert") /\ local' = [local EXCEPT ![s] = [Blank EXCEPT !.req = q]]
    BY <1>1, <2>2, OffPath DEF ExecutionPath
  <2> QED BY <1>2, <2>1, <2>2 DEF FindCall
<1>3. CASE LoadForRecovery(s, "scanned") \/ LoadForRecovery(s, "decide")
  BY <1>1, <1>3, OffPath DEF LoadForRecovery, ExecutionPath
<1>4. CASE LoadForApproval(s)
  BY <1>1, <1>4, OffPath DEF LoadForApproval, ExecutionPath
<1> QED BY <1>2, <1>3, <1>4 DEF Start, ScanStaleCall, RereadScanned, RecoverRunCall

LEMMA ReadPolicyPays ==
  ASSUME TypeOK, ApprovalInv, NEW s \in Session, ReadPolicy(s)
  PROVE  ApprovalInv'
<1>1. UNCHANGED <<runs, paidBy, approvals>> /\ local[s] \in Local
  BY DEF ReadPolicy, grants, handler, TypeOK
<1>2. CASE allowed /\ NeedsApproval(local[s].flow)
  <2>1. Goto(s, "select") /\ local' = [local EXCEPT ![s] = local[s]]
    BY <1>2 DEF ReadPolicy, Decide, TypeOK
  <2> QED BY <1>1, <2>1, OffPath DEF ExecutionPath
<1>3. ASSUME NEW d \in Decision, Decide(s, d, None),
             d = "allowed" => ~NeedsApproval(local[s].flow)
      PROVE  ApprovalInv'
  <2> DEFINE l == [local[s] EXCEPT !.decision = d, !.pays = None]
  <2>1. pc' = [pc EXCEPT ![s] = "record"] /\ local' = [local EXCEPT ![s] = l]
    BY <1>1, <1>3 DEF Decide, Goto, TypeOK
  <2>2. ~Paying("record", l)
    BY <1>1, <1>3 DEF Paying, Local
  <2>3. "record" \notin ExecutionPath
    BY DEF ExecutionPath
  <2> HIDE DEF l
  <2> QED BY <1>1, <2>1, <2>2, <2>3, NothingSpent
<1>4. "allowed" \in Decision /\ "denied" \in Decision
  BY DEF Decision
<1> QED BY <1>2, <1>3, <1>4 DEF ReadPolicy

LEMMA SelectApprovalPays ==
  ASSUME TypeOK, ApprovalInv, NEW s \in Session, SelectApproval(s)
  PROVE  ApprovalInv'
<1>1. UNCHANGED <<runs, paidBy, approvals>> /\ local[s] \in Local
  BY DEF SelectApproval, grants, handler, TypeOK
<1>2. ASSUME NEW a \in Approval, Goto(s, "consume"),
             local' = [local EXCEPT ![s].pays = a]
      PROVE  ApprovalInv'
  <2>1. local' = [local EXCEPT ![s] = [local[s] EXCEPT !.pays = a]]
    BY <1>1, <1>2 DEF TypeOK
  <2> QED BY <1>1, <1>2, <2>1, OffPath DEF ExecutionPath
<1>3. CASE Decide(s, "requires_approval", None)
  <2> DEFINE l == [local[s] EXCEPT !.decision = "requires_approval", !.pays = None]
  <2>1. pc' = [pc EXCEPT ![s] = "record"] /\ local' = [local EXCEPT ![s] = l]
    BY <1>1, <1>3 DEF Decide, Goto, TypeOK
  <2>2. ~Paying("record", l) /\ "record" \notin ExecutionPath
    BY <1>1 DEF Paying, Local, ExecutionPath
  <2> HIDE DEF l
  <2> QED BY <1>1, <2>1, <2>2, NothingSpent
<1> QED BY <1>2, <1>3 DEF SelectApproval

\* The conditional UPDATE gives the approval to the one session it serves.
LEMMA ConsumeApprovalPays ==
  ASSUME CallInv, ApprovalInv, NEW s \in Session, ConsumeApproval(s)
  PROVE  ApprovalInv'
<1> DEFINE a == local[s].pays
<1>1. /\ UNCHANGED <<runs, paidBy>> /\ local[s] \in Local /\ TypeOK
      /\ pc[s] = "consume" /\ a \in Approval /\ Fits(pc[s], local[s])
  BY DEF ConsumeApproval, handler, CallInv, TypeOK, Fits
<1>2. CASE ~HoldsSlot(a)
  <2> DEFINE l == [local[s] EXCEPT !.decision = "requires_approval", !.pays = None]
  <2>1. /\ pc' = [pc EXCEPT ![s] = "record"] /\ local' = [local EXCEPT ![s] = l]
        /\ UNCHANGED approvals
    BY <1>1, <1>2 DEF ConsumeApproval, Decide, Goto, TypeOK
  <2>2. ~Paying("record", l) /\ "record" \notin ExecutionPath
    BY <1>1 DEF Paying, Local, ExecutionPath
  <2> HIDE DEF l
  <2> QED BY <1>1, <2>1, <2>2, NothingSpent
<1>3. CASE HoldsSlot(a)
  <2> SUFFICES ASSUME Effect = "external_write", RequireApproval PROVE ApprovalInv'
    BY DEF ApprovalInv
  <2>1. /\ Goto(s, "record") /\ approvals' = [approvals EXCEPT ![a] = "consumed"]
        /\ local' = [local EXCEPT ![s].decision = "allowed", ![s].pays = a]
    BY <1>3 DEF ConsumeApproval, Decide
  <2>2. /\ pc'[s] = "record" /\ local'[s].pays = a /\ Started' = Started
        /\ approvals'[a] = "consumed" /\ approvals[a] # "consumed"
        /\ \A b \in Approval : approvals[b] = "consumed" => approvals'[b] = "consumed"
    BY <1>1, <1>3, <2>1 DEF Goto, TypeOK, Local, Started, HoldsSlot
  <2>3. \A t \in Session \ {s} : pc'[t] = pc[t] /\ local'[t] = local[t]
    BY <1>1, <2>1 DEF Goto, TypeOK
  <2>4. \A r \in Started : paidBy[r] # a
    BY <2>2 DEF ApprovalInv, OneRunPerApproval
  <2>5. \A t \in Session : Paying(pc[t], local[t]) => local[t].pays # a
    BY <2>2 DEF ApprovalInv
  <2>6. OneRunPerApproval'
    BY <1>1, <2>2 DEF ApprovalInv, OneRunPerApproval
  <2>7. pc'[s] \notin ExecutionPath
    BY <2>2 DEF ExecutionPath
  <2>8. ASSUME NEW t \in Session
        PROVE  /\ pc'[t] \in ExecutionPath =>
                    local'[t].decision = "allowed" /\ local'[t].flow # "replay"
               /\ Paying(pc'[t], local'[t]) =>
                    /\ local'[t].pays \in Approval
                    /\ approvals'[local'[t].pays] = "consumed"
                    /\ \A r \in Started : paidBy'[r] # local'[t].pays
    <3>1. CASE t = s
      BY <1>1, <2>2, <2>4, <2>7, <3>1
    <3>2. CASE t # s
      BY <1>1, <2>2, <2>3, <3>2 DEF ApprovalInv
    <3> QED BY <3>1, <3>2
  <2>9. \A t, u \in Session :
          Paying(pc'[t], local'[t]) /\ Paying(pc'[u], local'[u])
            /\ local'[t].pays = local'[u].pays => t = u
    BY <2>2, <2>3, <2>5 DEF ApprovalInv
  <2> QED BY <2>2, <2>6, <2>8, <2>9 DEF ApprovalInv, Paying, NeedsApproval
<1> QED BY <1>2, <1>3

\* A session that stays on its way, with the approval and the decision it had.
LEMMA SamePays ==
  ASSUME TypeOK, ApprovalInv, NEW s \in Session, NEW p \in ExecutionPath, NEW l,
         pc[s] \in ExecutionPath \cup {"record"}, Goto(s, p),
         local' = [local EXCEPT ![s] = l],
         l.decision = "allowed", l.flow # "replay",
         l.decision = local[s].decision, l.flow = local[s].flow,
         l.pays = local[s].pays, UNCHANGED <<runs, paidBy, approvals>>
  PROVE  ApprovalInv'
<1>1. Paying(p, l) => Paying(pc[s], local[s])
  BY DEF Paying
<1> QED BY <1>1, NothingSpent DEF Goto

LEMMA RecordAuthorizationPays ==
  ASSUME TypeOK, ApprovalInv, NEW s \in Session, RecordAuthorization(s)
  PROVE  ApprovalInv'
<1>1. UNCHANGED <<runs, paidBy, approvals>> /\ local[s] \in Local /\ pc[s] = "record"
  BY DEF RecordAuthorization, handler, TypeOK
<1>2. CASE Return(s)
  BY <1>1, <1>2, ReturnPays
<1>3. ASSUME UNCHANGED local PROVE local' = [local EXCEPT ![s] = local[s]]
  BY <1>3 DEF TypeOK
<1>4. CASE Goto(s, "refuse") /\ UNCHANGED local
  BY <1>1, <1>3, <1>4, OffPath DEF ExecutionPath
<1>5. ASSUME NEW p \in {"authorize", "load"}, Goto(s, p), UNCHANGED local,
             local[s].decision = "allowed", local[s].flow # "replay"
      PROVE  ApprovalInv'
  <2>1. p \in ExecutionPath
    BY DEF ExecutionPath
  <2> QED BY <1>1, <1>3, <1>5, <2>1, SamePays
<1>6. CASE local[s].decision = "allowed"
  BY <1>2, <1>5, <1>6 DEF RecordAuthorization, AfterAllowed
<1>7. CASE local[s].decision # "allowed"
  BY <1>2, <1>4, <1>7 DEF RecordAuthorization, AfterRefused
<1> QED BY <1>6, <1>7

LEMMA OnTheWayPays ==
  ASSUME TypeOK, ApprovalInv, NEW s \in Session,
         \/ CommitAuthorized(s) \/ LoadAttempts(s) \/ CommitExecuting(s)
         \/ CaptureBeforeState(s) \/ CommitFixture(s)
  PROVE  ApprovalInv'
<1>1. /\ UNCHANGED <<runs, paidBy, approvals>> /\ local[s] \in Local
      /\ pc[s] \in ExecutionPath
  BY DEF CommitAuthorized, LoadAttempts, CommitExecuting, CaptureBeforeState,
         CommitFixture, grants, handler, TypeOK, ExecutionPath
<1>2. CASE Return(s)
  BY <1>1, <1>2, ReturnPays
<1> SUFFICES ASSUME ~Return(s) PROVE ApprovalInv'
  BY <1>2
<1>3. PICK p \in ExecutionPath : Goto(s, p)
  BY DEF CommitAuthorized, LoadAttempts, CommitExecuting, CaptureBeforeState,
         CommitFixture, ExecutionPath
<1>4. PICK n \in Nat :
        local' \in {local, [local EXCEPT ![s].att = n], [local EXCEPT ![s].snap = n]}
  BY DEF CommitAuthorized, LoadAttempts, CommitExecuting, CaptureBeforeState,
         CommitFixture, TypeOK
<1>5. PICK l \in {local[s], [local[s] EXCEPT !.att = n], [local[s] EXCEPT !.snap = n]} :
        local' = [local EXCEPT ![s] = l]
  BY <1>1, <1>4 DEF TypeOK
<1>6. /\ l.decision = local[s].decision /\ l.flow = local[s].flow
      /\ l.pays = local[s].pays
  BY <1>1, <1>5 DEF Local
<1>7. CASE Effect = "external_write" /\ RequireApproval
  <2>1. l.decision = "allowed" /\ l.flow # "replay"
    BY <1>1, <1>6, <1>7 DEF ApprovalInv
  <2> QED BY <1>1, <1>3, <1>5, <1>6, <2>1, SamePays
<1>8. CASE ~(Effect = "external_write" /\ RequireApproval)
  BY <1>8 DEF ApprovalInv
<1> QED BY <1>7, <1>8

\* The approval a session holds pays for the run it starts, and is spent.
LEMMA InvokeHandlerPays ==
  ASSUME TypeOK, ApprovalInv, NEW s \in Session, InvokeHandler(s)
  PROVE  ApprovalInv'
<1> SUFFICES ASSUME Effect = "external_write", RequireApproval PROVE ApprovalInv'
  BY DEF ApprovalInv
<1> DEFINE r == runs + 1  a == local[s].pays
<1>1. /\ UNCHANGED approvals /\ runs' = r /\ runs < MaxRuns /\ pc[s] = "invoke"
      /\ paidBy' = [paidBy EXCEPT ![r] = a]
      /\ pc' = [pc EXCEPT ![s] = "finish"]
      /\ local' = [local EXCEPT ![s].run = r, ![s].seen = status, ![s].seenOp = opId]
  BY DEF InvokeHandler, grants, Goto
<1>2. r \in Run /\ r \notin Started /\ Started' = Started \cup {r} /\ Started \subseteq Run
  BY <1>1, RunsAreNat DEF Run, Started
<1>3. Paying(pc[s], local[s])
  BY <1>1 DEF ApprovalInv, Paying, ExecutionPath, NeedsApproval
<1>4. a \in Approval /\ approvals[a] = "consumed" /\ \A q \in Started : paidBy[q] # a
  BY <1>3 DEF ApprovalInv
<1>5. paidBy'[r] = a /\ \A q \in Started : paidBy'[q] = paidBy[q]
  BY <1>1, <1>2 DEF TypeOK
<1>6. OneRunPerApproval'
  BY <1>1, <1>2, <1>4, <1>5 DEF ApprovalInv, OneRunPerApproval
<1>7. \A t \in Session \ {s} : pc'[t] = pc[t] /\ local'[t] = local[t]
  BY <1>1 DEF TypeOK
<1>8. pc'[s] \notin ExecutionPath \cup {"record"}
  BY <1>1 DEF TypeOK, ExecutionPath
<1>9. ASSUME NEW t \in Session
      PROVE  /\ pc'[t] \in ExecutionPath =>
                  local'[t].decision = "allowed" /\ local'[t].flow # "replay"
             /\ Paying(pc'[t], local'[t]) =>
                  /\ t # s /\ Paying(pc[t], local[t]) /\ local'[t].pays = local[t].pays
                  /\ local'[t].pays \in Approval
                  /\ approvals'[local'[t].pays] = "consumed"
                  /\ \A q \in Started' : paidBy'[q] # local'[t].pays
  <2>1. CASE t = s
    BY <1>8, <2>1 DEF Paying
  <2>2. CASE t # s
    <3>1. /\ pc[t] \in ExecutionPath =>
               local[t].decision = "allowed" /\ local[t].flow # "replay"
          /\ Paying(pc[t], local[t]) =>
               /\ local[t].pays \in Approval
               /\ approvals[local[t].pays] = "consumed"
               /\ \A q \in Started : paidBy[q] # local[t].pays
               /\ local[t].pays # a
      BY <1>3, <2>2 DEF ApprovalInv
    <3> QED BY <1>1, <1>2, <1>5, <1>7, <2>2, <3>1
  <2> QED BY <2>1, <2>2
<1>10. \A t, u \in Session :
         Paying(pc'[t], local'[t]) /\ Paying(pc'[u], local'[u])
           /\ local'[t].pays = local'[u].pays => t = u
  BY <1>9 DEF ApprovalInv
<1> QED BY <1>6, <1>9, <1>10 DEF ApprovalInv, Paying, NeedsApproval

LEMMA RecoveryPays ==
  ASSUME TypeOK, ApprovalInv, NEW s \in Session, RecoverRecord(s) \/ Reconcile(s)
  PROVE  ApprovalInv'
<1>1. UNCHANGED <<runs, paidBy, approvals>> /\ local[s] \in Local
  BY DEF RecoverRecord, Reconcile, grants, handler, TypeOK
<1>2. CASE Return(s)
  BY <1>1, <1>2, ReturnPays
<1>3. ASSUME NEW l, AskAuthorization(s, l) PROVE ApprovalInv'
  BY <1>1, <1>3, AskPays
<1>4. CASE QueryProvider(s)
  <2>1. PICK ans : local' = [local EXCEPT ![s].answer = ans]
    BY <1>4 DEF QueryProvider
  <2>2. local' = [local EXCEPT ![s] = [local[s] EXCEPT !.answer = ans]]
    BY <1>1, <2>1 DEF TypeOK
  <2>3. Goto(s, "reconcile") /\ "reconcile" \notin ExecutionPath \cup {"record"}
    BY <1>4 DEF QueryProvider, ExecutionPath
  <2> QED BY <1>1, <2>2, <2>3, OffPath
<1>5. CASE RecoverRecord(s)
  BY <1>2, <1>3, <1>4, <1>5, Zenon DEF RecoverRecord, MarkForReview
<1>6. CASE Reconcile(s)
  BY <1>2, <1>3, <1>6, Zenon DEF Reconcile
<1> QED BY <1>5, <1>6

LEMMA OtherSessionsPay ==
  ASSUME TypeOK, ApprovalInv, NEW s \in Session,
         \/ InsertCall(s) \/ CommitRefusal(s) \/ CommitResult(s)
         \/ GrantApproval(s) \/ Crash(s)
  PROVE  ApprovalInv'
<1>1. UNCHANGED <<runs, paidBy>>
  BY DEF InsertCall, CommitRefusal, CommitResult, GrantApproval, Crash, handler
<1>2. \A a \in Approval : approvals[a] = "consumed" => approvals'[a] = "consumed"
  BY DEF InsertCall, CommitRefusal, CommitResult, GrantApproval, Crash, grants
<1>3. CASE InsertCall(s)
  <2>1. UNCHANGED approvals
    BY <1>3 DEF InsertCall, grants
  <2> QED BY <1>1, <1>3, <2>1, ReplayPays, AskPays, ReturnPays DEF InsertCall
<1>4. CASE CommitRefusal(s) \/ CommitResult(s) \/ GrantApproval(s) \/ Crash(s)
  <2>1. Return(s)
    BY <1>4 DEF CommitRefusal, CommitResult, GrantApproval, Crash
  <2> QED BY <1>1, <1>2, <2>1, ReturnPays
<1> QED BY <1>3, <1>4

LEMMA EnvironmentPays ==
  ASSUME TypeOK, ApprovalInv,
         \/ \E a \in Approval : ApprovalLapses(a)
         \/ UpdateTaskPolicy
         \/ \E r \in Run : ProviderSettles(r)
         \/ UNCHANGED vars
  PROVE  ApprovalInv'
<1>1. UNCHANGED <<pc, local, runs, paidBy>>
  BY DEF ApprovalLapses, UpdateTaskPolicy, ProviderSettles, handler, vars
<1>2. \A a \in Approval : approvals[a] = "consumed" => approvals'[a] = "consumed"
  BY DEF ApprovalLapses, UpdateTaskPolicy, ProviderSettles, grants, vars, TypeOK
<1> QED BY <1>1, <1>2, NothingMoves

LEMMA NextPays == CallInv /\ ApprovalInv /\ [Next]_vars => ApprovalInv'
<1> SUFFICES ASSUME CallInv, ApprovalInv, [Next]_vars PROVE ApprovalInv'
  OBVIOUS
<1>1. TypeOK
  BY DEF CallInv
<1>2. CASE \E s \in Session : Start(s)
  BY <1>1, <1>2, StartPays
<1>3. CASE \E s \in Session : Continue(s)
  BY <1>1, <1>3, StartPays, ReadPolicyPays, SelectApprovalPays,
     ConsumeApprovalPays,
     RecordAuthorizationPays, OnTheWayPays, InvokeHandlerPays, RecoveryPays,
     OtherSessionsPay
  DEF Continue
<1>4. CASE \E s \in Session : Crash(s)
  BY <1>1, <1>4, OtherSessionsPay
<1>5. CASE \/ \E a \in Approval : ApprovalLapses(a)
           \/ UpdateTaskPolicy
           \/ \E r \in Run : ProviderSettles(r)
           \/ UNCHANGED vars
  BY <1>1, <1>5, EnvironmentPays
<1> QED BY <1>2, <1>3, <1>4, <1>5 DEF Next

\* While approvals are required every invocation of an external-write handler
\* consumed an approval of its own, for any number of racing sessions.
THEOREM OneRunPerApprovalHolds == Spec => []OneRunPerApproval
<1>1. Init => ApprovalInv
  BY DEF Init, ApprovalInv, OneRunPerApproval, Started, Paying, ExecutionPath
<1>2. ApprovalInv => OneRunPerApproval
  BY DEF ApprovalInv, OneRunPerApproval
<1> QED BY <1>1, <1>2, CallInvariant, NextPays, PTL DEF Spec

(***************************************************************************)
(* One fixture per run                                                      *)
(*                                                                          *)
(* Again a session holds what it will spend: between its commit of a fixture *)
(* and its handler, the attempt number it captured is stored, belongs to no  *)
(* run that has started, and to no other session in the same place.          *)
(***************************************************************************)
FixtureInv ==
  Effect = "internal_write" =>
    /\ FixturePerRun
    /\ \A r \in Started : snapOf[r] \in fixtures
    /\ \A s \in Session : pc[s] = "invoke" =>
         /\ local[s].snap \in fixtures
         /\ \A r \in Started : snapOf[r] # local[s].snap
    /\ \A s, t \in Session :
         pc[s] = "invoke" /\ pc[t] = "invoke" /\ local[s].snap = local[t].snap => s = t

\* Whoever stands before its handler stood there before, with the same fixture.
LEMMA NobodyArrives ==
  ASSUME TypeOK, FixtureInv, UNCHANGED <<runs, snapOf, fixtures>>,
         \A t \in Session : pc'[t] = "invoke" =>
           pc[t] = "invoke" /\ local'[t].snap = local[t].snap
  PROVE  FixtureInv'
<1>1. Started' = Started
  BY DEF Started
<1> QED BY <1>1 DEF FixtureInv, FixturePerRun

LEMMA MovesElsewhere ==
  ASSUME TypeOK, FixtureInv, NEW s \in Session, NEW p, NEW l, p # "invoke",
         Goto(s, p), local' = [local EXCEPT ![s] = l],
         UNCHANGED <<runs, snapOf, fixtures>>
  PROVE  FixtureInv'
<1>1. \A t \in Session : pc'[t] = "invoke" => pc[t] = "invoke" /\ local'[t] = local[t]
  BY DEF Goto, TypeOK
<1> QED BY <1>1, NobodyArrives

LEMMA ReturnKeepsFixtures ==
  ASSUME TypeOK, FixtureInv, NEW s \in Session, Return(s),
         UNCHANGED <<runs, snapOf, fixtures>>
  PROVE  FixtureInv'
  BY MovesElsewhere DEF Return

LEMMA AskKeepsFixtures ==
  ASSUME TypeOK, FixtureInv, NEW s \in Session, NEW l, AskAuthorization(s, l),
         UNCHANGED <<runs, snapOf, fixtures>>
  PROVE  FixtureInv'
  BY MovesElsewhere DEF AskAuthorization

LEMMA StartFixtures ==
  ASSUME TypeOK, FixtureInv, NEW s \in Session,
         Start(s) \/ RereadScanned(s) \/ InsertCall(s)
  PROVE  FixtureInv'
<1>1. UNCHANGED <<runs, snapOf, fixtures>>
  BY DEF Start, FindCall, ScanStaleCall, RereadScanned, RecoverRunCall,
         LoadForRecovery, LoadForApproval, InsertCall, handler
<1>2. ASSUME NEW q, ReplayOrConflict(s, q) PROVE FixtureInv'
  BY <1>1, <1>2, AskKeepsFixtures, ReturnKeepsFixtures DEF ReplayOrConflict
<1>3. ASSUME NEW q \in Request, FindCall(s, q) PROVE FixtureInv'
  <2>1. CASE Goto(s, "insert") /\ local' = [local EXCEPT ![s] = [Blank EXCEPT !.req = q]]
    BY <1>1, <2>1, MovesElsewhere
  <2> QED BY <1>2, <1>3, <2>1 DEF FindCall
<1>4. CASE LoadForRecovery(s, "scanned") \/ LoadForRecovery(s, "decide")
  BY <1>1, <1>4, MovesElsewhere DEF LoadForRecovery
<1>5. CASE LoadForApproval(s)
  BY <1>1, <1>5, MovesElsewhere DEF LoadForApproval
<1>6. CASE InsertCall(s)
  BY <1>1, <1>2, <1>6, AskKeepsFixtures, ReturnKeepsFixtures DEF InsertCall
<1> QED BY <1>3, <1>4, <1>5, <1>6 DEF Start, ScanStaleCall, RereadScanned, RecoverRunCall

LEMMA AuthorizationFixtures ==
  ASSUME TypeOK, FixtureInv, NEW s \in Session,
         \/ ReadPolicy(s) \/ SelectApproval(s) \/ ConsumeApproval(s)
         \/ RecordAuthorization(s) \/ CommitRefusal(s)
         \/ CommitAuthorized(s) \/ LoadAttempts(s)
  PROVE  FixtureInv'
<1>1. UNCHANGED <<runs, snapOf, fixtures>>
  BY DEF ReadPolicy, SelectApproval, ConsumeApproval, RecordAuthorization,
         CommitRefusal, CommitAuthorized, LoadAttempts, handler
<1>2. CASE Return(s)
  BY <1>1, <1>2, ReturnKeepsFixtures
<1>3. ASSUME ~Return(s)
      PROVE  \E p \in PC \ {"invoke"} : Goto(s, p)
  BY <1>3 DEF ReadPolicy, SelectApproval, ConsumeApproval, RecordAuthorization,
     AfterAllowed, AfterRefused, CommitRefusal, CommitAuthorized, LoadAttempts,
     Decide, PC
<1>4. ASSUME ~Return(s), NEW t \in Session \ {s} PROVE local'[t] = local[t]
  BY <1>4 DEF ReadPolicy, SelectApproval, ConsumeApproval, RecordAuthorization,
     AfterAllowed, AfterRefused, CommitRefusal, CommitAuthorized, LoadAttempts,
     Decide, TypeOK
<1>5. CASE ~Return(s)
  <2>1. \A t \in Session : pc'[t] = "invoke" => pc[t] = "invoke" /\ local'[t] = local[t]
    BY <1>3, <1>4, <1>5 DEF Goto, TypeOK
  <2> QED BY <1>1, <2>1, NobodyArrives
<1> QED BY <1>2, <1>5

LEMMA CommitExecutingFixtures ==
  ASSUME TypeOK, FixtureInv, NEW s \in Session,
         CommitExecuting(s) \/ CaptureBeforeState(s)
  PROVE  FixtureInv'
<1> SUFFICES ASSUME Effect = "internal_write" PROVE FixtureInv'
  BY DEF FixtureInv
<1>1. /\ UNCHANGED <<runs, snapOf, fixtures>>
      /\ Goto(s, "capture") \/ Goto(s, "fixture")
      /\ \A t \in Session \ {s} : local'[t] = local[t]
  BY DEF CommitExecuting, CaptureBeforeState, handler, TypeOK
<1>2. \A t \in Session : pc'[t] = "invoke" => pc[t] = "invoke" /\ local'[t] = local[t]
  BY <1>1 DEF Goto, TypeOK
<1> QED BY <1>1, <1>2, NobodyArrives

\* The unique constraint: a new fixture is nobody else's.
LEMMA CommitFixtureFixtures ==
  ASSUME TypeOK, FixtureInv, NEW s \in Session, CommitFixture(s)
  PROVE  FixtureInv'
<1> SUFFICES ASSUME Effect = "internal_write" PROVE FixtureInv'
  BY DEF FixtureInv
<1> DEFINE n == local[s].snap
<1>1. UNCHANGED <<runs, snapOf>> /\ Started' = Started
  BY DEF CommitFixture, handler, Started
<1>2. CASE n \in fixtures
  BY <1>1, <1>2, ReturnKeepsFixtures DEF CommitFixture
<1>3. CASE n \notin fixtures
  <2>1. /\ fixtures' = fixtures \cup {n} /\ UNCHANGED local
        /\ pc' = [pc EXCEPT ![s] = "invoke"]
    BY <1>3 DEF CommitFixture, Goto
  <2>2. \A t \in Session \ {s} : pc'[t] = pc[t]
    BY <2>1 DEF TypeOK
  <2>3. \A t \in Session \ {s} : pc'[t] = "invoke" => local[t].snap \in fixtures
    BY <2>2 DEF FixtureInv
  <2>4. FixturePerRun'
    BY <1>1 DEF FixtureInv, FixturePerRun
  <2>5. \A r \in Started : snapOf[r] \in fixtures
    BY DEF FixtureInv
  <2>6. ASSUME NEW t \in Session, pc'[t] = "invoke"
        PROVE  /\ local'[t].snap \in fixtures'
               /\ \A r \in Started' : snapOf'[r] # local'[t].snap
    <3>1. CASE t = s
      BY <1>1, <1>3, <2>1, <2>5, <3>1
    <3>2. CASE t # s
      BY <1>1, <2>1, <2>2, <2>6, <3>2 DEF FixtureInv
    <3> QED BY <3>1, <3>2
  <2>7. \A t, u \in Session :
          pc'[t] = "invoke" /\ pc'[u] = "invoke" /\ local'[t].snap = local'[u].snap => t = u
    BY <1>3, <2>1, <2>2, <2>3 DEF FixtureInv
  <2> QED BY <1>1, <2>1, <2>4, <2>5, <2>6, <2>7 DEF FixtureInv
<1> QED BY <1>2, <1>3

LEMMA InvokeHandlerFixtures ==
  ASSUME TypeOK, FixtureInv, NEW s \in Session, InvokeHandler(s)
  PROVE  FixtureInv'
<1> SUFFICES ASSUME Effect = "internal_write" PROVE FixtureInv'
  BY DEF FixtureInv
<1> DEFINE r == runs + 1  n == local[s].snap
<1>1. /\ UNCHANGED fixtures /\ runs' = r /\ runs < MaxRuns /\ pc[s] = "invoke"
      /\ snapOf' = [snapOf EXCEPT ![r] = n] /\ pc' = [pc EXCEPT ![s] = "finish"]
      /\ local' = [local EXCEPT ![s].run = r, ![s].seen = status, ![s].seenOp = opId]
  BY DEF InvokeHandler, Goto
<1>2. r \in Run /\ r \notin Started /\ Started' = Started \cup {r} /\ Started \subseteq Run
  BY <1>1, RunsAreNat DEF Run, Started
<1>3. n \in fixtures /\ \A q \in Started : snapOf[q] # n
  BY <1>1 DEF FixtureInv
<1>4. snapOf'[r] = n /\ \A q \in Started : snapOf'[q] = snapOf[q]
  BY <1>1, <1>2 DEF TypeOK
<1>5. FixturePerRun'
  BY <1>2, <1>3, <1>4 DEF FixtureInv, FixturePerRun
<1>6. \A q \in Started' : snapOf'[q] \in fixtures'
  BY <1>1, <1>2, <1>3, <1>4 DEF FixtureInv
<1>7. ASSUME NEW t \in Session, pc'[t] = "invoke"
      PROVE  /\ pc[t] = "invoke" /\ local'[t] = local[t]
             /\ local[t].snap \in fixtures /\ local[t].snap # n
             /\ \A q \in Started : snapOf[q] # local[t].snap
  <2>1. t # s /\ pc[t] = "invoke" /\ local'[t] = local[t]
    BY <1>1, <1>7 DEF TypeOK
  <2> QED BY <1>1, <2>1 DEF FixtureInv
<1>8. \A t, u \in Session :
        pc'[t] = "invoke" /\ pc'[u] = "invoke" /\ local'[t].snap = local'[u].snap => t = u
  BY <1>7 DEF FixtureInv
<1>9. \A t \in Session : pc'[t] = "invoke" =>
        /\ local'[t].snap \in fixtures'
        /\ \A q \in Started' : snapOf'[q] # local'[t].snap
  <2> SUFFICES ASSUME NEW t \in Session, pc'[t] = "invoke"
               PROVE  /\ local'[t].snap \in fixtures'
                      /\ \A q \in Started' : snapOf'[q] # local'[t].snap
    OBVIOUS
  <2>1. /\ local'[t] = local[t] /\ local[t].snap \in fixtures /\ local[t].snap # n
        /\ \A q \in Started : snapOf[q] # local[t].snap
    BY <1>7
  <2>2. fixtures' = fixtures /\ Started' = Started \cup {r}
    BY <1>1, <1>2
  <2>3. snapOf'[r] # local'[t].snap
    BY <1>4, <2>1
  <2>4. \A q \in Started : snapOf'[q] # local'[t].snap
    BY <1>4, <2>1
  <2> HIDE DEF r, n
  <2> QED BY <2>1, <2>2, <2>3, <2>4
<1> HIDE DEF r, n
<1> QED BY <1>5, <1>6, <1>8, <1>9 DEF FixtureInv

LEMMA RecoveryFixtures ==
  ASSUME TypeOK, FixtureInv, NEW s \in Session,
         \/ CommitResult(s) \/ RecoverRecord(s) \/ Reconcile(s)
         \/ GrantApproval(s) \/ Crash(s)
  PROVE  FixtureInv'
<1>1. UNCHANGED <<runs, snapOf, fixtures>>
  BY DEF CommitResult, RecoverRecord, Reconcile, GrantApproval, Crash, handler
<1>2. CASE Return(s)
  BY <1>1, <1>2, ReturnKeepsFixtures
<1>3. ASSUME NEW l, AskAuthorization(s, l) PROVE FixtureInv'
  BY <1>1, <1>3, AskKeepsFixtures
<1>4. CASE QueryProvider(s)
  <2>1. PICK ans : local' = [local EXCEPT ![s].answer = ans]
    BY <1>4 DEF QueryProvider
  <2>2. local' = [local EXCEPT ![s] = [local[s] EXCEPT !.answer = ans]]
    BY <2>1 DEF TypeOK
  <2> QED BY <1>1, <1>4, <2>2, MovesElsewhere DEF QueryProvider
<1>5. CASE RecoverRecord(s)
  BY <1>2, <1>3, <1>4, <1>5, Zenon DEF RecoverRecord, MarkForReview
<1>6. CASE Reconcile(s)
  BY <1>2, <1>3, <1>6, Zenon DEF Reconcile
<1>7. CASE CommitResult(s) \/ GrantApproval(s) \/ Crash(s)
  BY <1>2, <1>7 DEF CommitResult, GrantApproval, Crash
<1> QED BY <1>5, <1>6, <1>7

LEMMA NextFixtures == TypeOK /\ FixtureInv /\ [Next]_vars => FixtureInv'
<1> SUFFICES ASSUME TypeOK, FixtureInv, [Next]_vars PROVE FixtureInv'
  OBVIOUS
<1>1. CASE \E s \in Session : Start(s) \/ Continue(s) \/ Crash(s)
  BY <1>1, StartFixtures, AuthorizationFixtures, CommitExecutingFixtures,
     CommitFixtureFixtures, InvokeHandlerFixtures, RecoveryFixtures
  DEF Continue
<1>2. CASE \/ \E a \in Approval : ApprovalLapses(a)
           \/ UpdateTaskPolicy
           \/ \E r \in Run : ProviderSettles(r)
           \/ UNCHANGED vars
  <2>1. UNCHANGED <<pc, local, runs, snapOf, fixtures>>
    BY <1>2 DEF ApprovalLapses, UpdateTaskPolicy, ProviderSettles, handler, vars
  <2> QED BY <2>1, NobodyArrives
<1> QED BY <1>1, <1>2 DEF Next

\* Every run of an internal write started from a before-state of its own,
\* although racing retries may compute the same attempt number.
THEOREM FixturePerRunHolds == Spec => []FixturePerRun
<1>1. Init => FixtureInv
  BY DEF Init, FixtureInv, FixturePerRun, Started
<1>2. FixtureInv => FixturePerRun
  BY DEF FixtureInv, FixturePerRun
<1> QED BY <1>1, <1>2, TypeCorrect, NextFixtures, PTL DEF Spec
=============================================================================
