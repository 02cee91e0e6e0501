-------------------------- MODULE AgentRunsProofs --------------------------
(***************************************************************************)
(* Theorems about AgentRuns for every number of executions, steps and       *)
(* faults.  TypeInv holds always.  With heartbeats and a database that do   *)
(* not fail (Healthy), SoleInv gives the lease its meaning, and StageInv    *)
(* says what the execution that holds it knows about the run; from these    *)
(* two follow mutual exclusion, the implementation of AgentLoop and, with   *)
(* CallInv, one call per step.  DecidedInv needs no lease at all.           *)
(***************************************************************************)
EXTENDS AgentRuns, TLAPS

Healthy == ~DatabaseMayFail

\* Where an execution works on the step local[w].seq.
Holding == {"pending", "call", "recover", "restore", "record", "tool",
            "waiting", "observe"}

SeqOK(w) == pc[w] \in Holding => local[w].seq > 0

TypeInv == TypeOK /\ \A w \in Exec : SeqOK(w)

(***************************************************************************)
(* Records and moves                                                        *)
(***************************************************************************)
\* A session's record keeps its type when one field is given a legal value.
LEMMA LocalSet ==
  ASSUME NEW l \in Local
  PROVE  /\ l.flow \in Creating \cup Recovering \cup {"none"}
         /\ l.pend \in BOOLEAN /\ l.resumed \in BOOLEAN /\ l.seen \in Status
         /\ l.seq \in 0..MaxRows /\ l.obs \in {"none", "ok", "other"}
         /\ \A s \in Status : [l EXCEPT !.seen = s] \in Local
         /\ \A i \in 0..MaxRows : [l EXCEPT !.seq = i] \in Local
         /\ \A o \in {"none", "ok", "other"} : [l EXCEPT !.obs = o] \in Local
         /\ [l EXCEPT !.pend = TRUE] \in Local
         /\ [l EXCEPT !.resumed = TRUE] \in Local
         /\ [l EXCEPT !.pend = FALSE, !.obs = "none"] \in Local
BY DEF Local

LEMMA FreshSet ==
  ASSUME NEW f \in Creating \cup Recovering \cup {"none"}
  PROVE  Fresh(f) \in Local
BY ConstantsAssumption DEF Fresh, Local, Status

\* A step keeps its type, and its kind and observation, when only the call it
\* links to changes.
LEMMA StepSet ==
  ASSUME NEW s \in Step
  PROVE  /\ s.kind \in {"none", "tool", "final"}
         /\ s.call \in {"none", "open", "ok", "other"}
         /\ s.obs \in {"none", "ok", "other"}
         /\ s.records \in 0..2
         /\ \A o \in {"none", "ok", "other"} : [s EXCEPT !.obs = o] \in Step
         /\ \A c \in {"none", "open", "ok", "other"} :
              [s EXCEPT !.call = c] \in Step
         /\ OneMore(s.records) \in 0..2
         /\ \A n \in 0..2 : [s EXCEPT !.records = n, !.call = "open"] \in Step
<1>1. s.records \in 0..2
  BY DEF Step
<1>2. OneMore(s.records) \in 0..2
  BY <1>1 DEF OneMore
<1>3. \A o \in {"none", "ok", "other"} : [s EXCEPT !.obs = o] \in Step
  BY DEF Step
<1>4. \A c \in {"none", "open", "ok", "other"} : [s EXCEPT !.call = c] \in Step
  BY DEF Step
<1>5. \A n \in 0..2 : [s EXCEPT !.records = n, !.call = "open"] \in Step
  BY DEF Step
<1> QED BY <1>1, <1>2, <1>3, <1>4, <1>5 DEF Step

LEMMA NewStep ==
  /\ NoStep \in Step
  /\ \A k \in {"tool", "final"} :
       /\ [NoStep EXCEPT !.kind = k] \in Step
       /\ [NoStep EXCEPT !.kind = k].kind = k
       /\ [NoStep EXCEPT !.kind = k].obs = "none"
       /\ [NoStep EXCEPT !.kind = k].call = "none"
BY DEF NoStep, Step

\* The common part of every step of one execution: it goes to p and leaves l.
LEMMA Moves ==
  ASSUME TypeInv, NEW w \in Exec, NEW p \in Pc, NEW l \in Local,
         Goto(w, p), Keep(w, l), p \in Holding => l.seq > 0
  PROVE  /\ pc' \in [Exec -> Pc]
         /\ local' \in [Exec -> Local]
         /\ \A v \in Exec : SeqOK(v)'
BY DEF TypeInv, TypeOK, SeqOK, Goto, Keep

LEMMA MovesOnly ==
  ASSUME TypeInv, NEW w \in Exec, NEW p \in Pc,
         Goto(w, p), UNCHANGED local, p \in Holding => local[w].seq > 0
  PROVE  /\ pc' \in [Exec -> Pc]
         /\ local' \in [Exec -> Local]
         /\ \A v \in Exec : SeqOK(v)'
BY DEF TypeInv, TypeOK, SeqOK, Goto

LEMMA SetStepType ==
  ASSUME TypeInv, NEW i \in 0..MaxRows, NEW s,
         i > 0 => s \in Step, SetStep(i, s)
  PROVE  steps' \in [1..MaxRows -> Step]
<1>1. steps \in [1..MaxRows -> Step] /\ steps' = [steps EXCEPT ![i] = s]
  BY DEF TypeInv, TypeOK, SetStep
<1>2. CASE i > 0
  BY <1>1, <1>2
<1>3. CASE i = 0
  <2>1. i \notin 1..MaxRows
    BY <1>3
  <2> QED BY <1>1, <2>1, Zenon
<1> QED BY <1>2, <1>3, ConstantsAssumption

(***************************************************************************)
(* Types                                                                    *)
(***************************************************************************)
LEMMA InitTypeInv == Init => TypeInv
<1> SUFFICES ASSUME Init PROVE TypeInv
  OBVIOUS
<1>1. PICK w \in Exec, f \in Creating :
        /\ pc = [v \in Exec |-> IF v = w THEN "claim" ELSE "idle"]
        /\ local = [v \in Exec |-> Fresh(IF v = w THEN f ELSE "none")]
  BY DEF Init
<1>2. local \in [Exec -> Local]
  <2>1. \A v \in Exec : (IF v = w THEN f ELSE "none")
                          \in Creating \cup Recovering \cup {"none"}
    BY DEF Creating
  <2>2. \A v \in Exec : Fresh(IF v = w THEN f ELSE "none") \in Local
    BY <2>1, FreshSet
  <2> QED BY <1>1, <2>2
<1>3. pc \in [Exec -> Pc] /\ \A v \in Exec : pc[v] \notin Holding
  BY <1>1 DEF Pc, Holding
<1>4. steps \in [1..MaxRows -> Step]
  BY NewStep DEF Init
<1>5. count \in 0..MaxRows /\ faults \in 0..MaxFaults
  BY ConstantsAssumption DEF Init
<1>6. beat \in [Exec -> {"off", "on", "lost"}]
  BY DEF Init
<1>7. /\ status \in Status /\ owner \in Exec \cup {Nobody, Dead}
      /\ fresh \in BOOLEAN /\ promoted \in BOOLEAN
      /\ working \in {"none", "active", "retired"}
  BY DEF Init, Status
<1>8. TypeOK
  BY <1>2, <1>3, <1>4, <1>5, <1>6, <1>7 DEF TypeOK
<1> QED
  BY <1>3, <1>8 DEF TypeInv, SeqOK

\* The lease, its heartbeat and the clock.
LEMMA LeaseTypeInv ==
  ASSUME TypeInv, NEW w \in Exec,
         \/ Acquire(w) \/ ClaimRefused(w) \/ Release(w) \/ RenewRefused(w)
         \/ HeartbeatFails(w) \/ LeaseExpires \/ ScanStale(w)
  PROVE  TypeInv'
<1>1. Fresh("none") \in Local /\ \A f \in Recovering : Fresh(f) \in Local
  BY FreshSet
<1>2. CASE Acquire(w)
  <2>1. /\ pc' \in [Exec -> Pc] /\ local' \in [Exec -> Local]
        /\ \A v \in Exec : SeqOK(v)'
    BY <1>2, MovesOnly DEF Acquire, Pc, Inside, Holding
  <2> QED BY <1>2, <2>1 DEF Acquire, TypeInv, TypeOK, run, memory
<1>3. CASE ClaimRefused(w)
  <2>1. /\ pc' \in [Exec -> Pc] /\ local' \in [Exec -> Local]
        /\ \A v \in Exec : SeqOK(v)'
    BY <1>1, <1>3, Moves DEF ClaimRefused, Pc, Holding
  <2> QED BY <1>3, <2>1 DEF ClaimRefused, TypeInv, TypeOK, run, memory, lease
<1>4. CASE Release(w)
  <2>1. /\ pc' \in [Exec -> Pc] /\ local' \in [Exec -> Local]
        /\ \A v \in Exec : SeqOK(v)'
    BY <1>1, <1>4, Moves DEF Release, Pc, Holding
  <2>2. fresh' \in BOOLEAN /\ owner' \in Exec \cup {Nobody, Dead}
    BY <1>4 DEF Release, TypeInv, TypeOK
  <2> QED BY <1>4, <2>1, <2>2 DEF Release, TypeInv, TypeOK, run, memory
<1>5. CASE RenewRefused(w)
  BY <1>5 DEF RenewRefused, TypeInv, TypeOK, SeqOK, run, memory, lease
<1>6. CASE HeartbeatFails(w)
  BY <1>6, ConstantsAssumption
  DEF HeartbeatFails, TypeInv, TypeOK, SeqOK, run, memory, lease
<1>7. CASE LeaseExpires
  BY <1>7 DEF LeaseExpires, TypeInv, TypeOK, SeqOK, run, memory
<1>8. CASE ScanStale(w)
  <2>1. /\ pc' \in [Exec -> Pc] /\ local' \in [Exec -> Local]
        /\ \A v \in Exec : SeqOK(v)'
    BY <1>1, <1>8, Moves DEF ScanStale, Pc, Holding
  <2> QED BY <1>8, <2>1 DEF ScanStale, TypeInv, TypeOK, run, memory, lease
<1> QED BY <1>2, <1>3, <1>4, <1>5, <1>6, <1>7, <1>8
\* Recovery, and what surrounds the engine.
LEMMA RecoveryTypeInv ==
  ASSUME TypeInv, NEW w \in Exec, Recovery(w)
  PROVE  TypeInv'
<1> DEFINE Moved == /\ pc' \in [Exec -> Pc] /\ local' \in [Exec -> Local]
                    /\ \A v \in Exec : SeqOK(v)'
<1>1. /\ local[w] \in Local /\ count \in 0..MaxRows /\ status \in Status
      /\ local[w].seq \in 0..MaxRows
      /\ local[w].seq > 0 => steps[local[w].seq] \in Step
  <2>1. /\ local[w] \in Local /\ count \in 0..MaxRows /\ status \in Status
        /\ steps \in [1..MaxRows -> Step]
    BY DEF TypeInv, TypeOK
  <2>2. local[w].seq \in 0..MaxRows
    BY <2>1, LocalSet
  <2> QED BY <2>1, <2>2, ConstantsAssumption
<1>2. CASE EnterRecovery(w)
  <2>1. [local[w] EXCEPT !.seen = status] \in Local
    BY <1>1, LocalSet
  <2>2. Moved
    BY <1>2, <2>1, Moves DEF EnterRecovery, Pc, Inside, RecoveryPc, Holding
  <2> QED BY <1>2, <2>2 DEF EnterRecovery, TypeInv, TypeOK, run, memory, lease
<1>3. CASE PlanRecovery(w)
  <2>1. [local[w] EXCEPT !.seq = count] \in Local
    BY <1>1, LocalSet
  <2>2. [local[w] EXCEPT !.seq = count].seq = count
    BY <1>1 DEF Local
  <2>3. CASE Outstanding
    <3>1. count > 0
      BY <2>3 DEF Outstanding
    <3> QED BY <1>3, <2>1, <2>2, <3>1, Moves
            DEF PlanRecovery, Pc, Inside, RecoveryPc, EnginePc, Holding,
                TypeInv, TypeOK, run, memory, lease
  <2>4. CASE ~Outstanding
    BY <1>3, <2>1, <2>2, <2>4, Moves
    DEF PlanRecovery, Pc, Inside, RecoveryPc, EnginePc, Holding,
        TypeInv, TypeOK, run, memory, lease
  <2> QED BY <2>3, <2>4
<1>4. CASE LoadPendingStep(w)
  <2>1. /\ [local[w] EXCEPT !.pend = TRUE] \in Local
        /\ [local[w] EXCEPT !.pend = TRUE].seq = local[w].seq
    <3>1. [local[w] EXCEPT !.pend = TRUE] \in Local
      BY <1>1, LocalSet
    <3>2. [local[w] EXCEPT !.pend = TRUE].seq = local[w].seq
      BY <1>1 DEF Local
    <3> QED BY <3>1, <3>2
  <2>2. local[w].seq > 0
    BY <1>4 DEF LoadPendingStep, TypeInv, SeqOK, Holding
  <2>3. Moved
    <3>1. CASE Goto(w, "tool") /\ Keep(w, [local[w] EXCEPT !.pend = TRUE])
      BY <2>1, <2>2, <3>1, Moves DEF Pc, Inside, EnginePc
    <3>2. CASE Goto(w, "raised") /\ UNCHANGED local
      BY <3>2, MovesOnly DEF Pc, Inside, Holding
    <3> QED BY <1>4, <3>1, <3>2 DEF LoadPendingStep
  <2> QED BY <1>4, <2>3 DEF LoadPendingStep, TypeInv, TypeOK, run, memory, lease
<1>5. CASE ReadCall(w)
  <2>1. local[w].seq > 0
    BY <1>5 DEF ReadCall, TypeInv, SeqOK, Holding
  <2>2. steps[local[w].seq].call \in {"none", "open", "ok", "other"}
    BY <1>1, <2>1, StepSet
  <2>3. Moved
    <3>1. CASE Goto(w, "recover") /\ UNCHANGED local
      BY <2>1, <3>1, MovesOnly DEF Pc, Inside, RecoveryPc
    <3>2. CASE /\ steps[local[w].seq].call # "open"
               /\ Goto(w, "restore")
               /\ Keep(w, [local[w] EXCEPT !.obs = steps[local[w].seq].call])
      <4> DEFINE l == [local[w] EXCEPT !.obs = steps[local[w].seq].call]
      <4>1. l \in Local /\ l.seq = local[w].seq
        <5>1. steps[local[w].seq].call \in {"none", "ok", "other"}
          BY <2>2, <3>2
        <5>2. l \in Local
          BY <1>1, <5>1, LocalSet
        <5>3. l.seq = local[w].seq
          BY <1>1 DEF Local
        <5> QED BY <5>2, <5>3
      <4> HIDE DEF l
      <4> QED BY <2>1, <3>2, <4>1, Moves DEF Pc, Inside, RecoveryPc, l
    <3> QED BY <1>5, <3>1, <3>2 DEF ReadCall
  <2> QED BY <1>5, <2>3 DEF ReadCall, TypeInv, TypeOK, run, memory, lease
<1>6. CASE RecoverCall(w)
  <2>1. local[w].seq > 0
    BY <1>6 DEF RecoverCall, TypeInv, SeqOK, Holding
  <2>2. PICK c \in {"open", "ok", "other"} :
          /\ SetStep(local[w].seq, [steps[local[w].seq] EXCEPT !.call = c])
          /\ \/ /\ Goto(w, "review")
                /\ Keep(w, [local[w] EXCEPT !.seen = status])
             \/ /\ c # "open"
                /\ Goto(w, "restore")
                /\ Keep(w, [local[w] EXCEPT !.obs = c])
    BY <1>6 DEF RecoverCall
  <2>3. steps' \in [1..MaxRows -> Step]
    <3>1. [steps[local[w].seq] EXCEPT !.call = c] \in Step
      BY <1>1, <2>1, StepSet
    <3> QED BY <1>1, <2>2, <3>1, SetStepType
  <2>4. Moved
    <3>1. CASE Goto(w, "review") /\ Keep(w, [local[w] EXCEPT !.seen = status])
      <4>1. [local[w] EXCEPT !.seen = status] \in Local
        BY <1>1, LocalSet
      <4> QED BY <3>1, <4>1, Moves DEF Pc, Inside, RecoveryPc, Holding
    <3>2. CASE /\ c # "open" /\ Goto(w, "restore")
               /\ Keep(w, [local[w] EXCEPT !.obs = c])
      <4> DEFINE l == [local[w] EXCEPT !.obs = c]
      <4>1. l \in Local /\ l.seq = local[w].seq
        <5>1. c \in {"none", "ok", "other"}
          BY <3>2
        <5>2. l \in Local
          BY <1>1, <5>1, LocalSet
        <5>3. l.seq = local[w].seq
          BY <1>1 DEF Local
        <5> QED BY <5>2, <5>3
      <4> HIDE DEF l
      <4> QED BY <2>1, <3>2, <4>1, Moves DEF Pc, Inside, RecoveryPc, l
    <3> QED BY <2>2, <3>1, <3>2
  <2> QED BY <1>6, <2>3, <2>4 DEF RecoverCall, TypeInv, TypeOK, memory, lease
<1>7. CASE RestoreObservation(w)
  <2>1. local[w].seq > 0
    BY <1>7 DEF RestoreObservation, TypeInv, SeqOK, Holding
  <2>2. local[w].obs \in {"none", "ok", "other"}
        /\ [local[w] EXCEPT !.obs = "none"] \in Local
    BY <1>1, LocalSet
  <2>3. steps' \in [1..MaxRows -> Step]
    <3>1. [steps[local[w].seq] EXCEPT !.obs = local[w].obs] \in Step
      BY <1>1, <2>1, <2>2, StepSet
    <3> QED BY <1>1, <1>7, <3>1, SetStepType DEF RestoreObservation
  <2>4. Moved
    BY <1>7, <2>2, Moves DEF RestoreObservation, Pc, Inside, EnginePc, Holding
  <2> QED BY <1>7, <2>3, <2>4 DEF RestoreObservation, TypeInv, TypeOK, memory, lease
<1>8. CASE MarkForReview(w)
  <2>1. Moved
    BY <1>8, MovesOnly DEF MarkForReview, Pc, Inside, Holding
  <2>2. status' \in Status
    BY <1>1, <1>8 DEF MarkForReview, Flushed, Status
  <2> QED BY <1>8, <2>1, <2>2 DEF MarkForReview, TypeInv, TypeOK, memory, lease
<1> QED BY <1>2, <1>3, <1>4, <1>5, <1>6, <1>7, <1>8 DEF Recovery

LEMMA OuterTypeInv ==
  ASSUME TypeInv, NEW w \in Exec,
         \/ EnterWorkflow(w) \/ LeaveEngine(w) \/ ReadForFailure(w)
         \/ RecordFailure(w) \/ Raise(w) \/ Crash(w)
  PROVE  TypeInv'
<1> DEFINE Moved == /\ pc' \in [Exec -> Pc] /\ local' \in [Exec -> Local]
                    /\ \A v \in Exec : SeqOK(v)'
<1>1. local[w] \in Local
  BY DEF TypeInv, TypeOK
<1>2. CASE EnterWorkflow(w)
  <2>1. Moved
    BY <1>2, MovesOnly DEF EnterWorkflow, Pc, Inside, EnginePc, Holding
  <2> QED BY <1>2, <2>1 DEF EnterWorkflow, TypeInv, TypeOK, run, memory, lease
<1>3. CASE LeaveEngine(w)
  <2>1. [local[w] EXCEPT !.resumed = TRUE] \in Local
    BY <1>1, LocalSet
  <2>2. Moved
    BY <1>3, <2>1, Moves, MovesOnly DEF LeaveEngine, Pc, Inside, EnginePc, Holding
  <2> QED BY <1>3, <2>2 DEF LeaveEngine, TypeInv, TypeOK, run, memory, lease
<1>4. CASE ReadForFailure(w)
  <2>1. Moved
    BY <1>4, MovesOnly DEF ReadForFailure, Pc, Inside, Holding
  <2> QED BY <1>4, <2>1 DEF ReadForFailure, TypeInv, TypeOK, run, memory, lease
<1>5. CASE RecordFailure(w)
  <2>1. Moved
    BY <1>5, MovesOnly DEF RecordFailure, Pc, Inside, Holding
  <2> QED BY <1>5, <2>1
          DEF RecordFailure, TypeInv, TypeOK, memory, lease, Status
<1>6. CASE Raise(w)
  <2>1. [local[w] EXCEPT !.pend = FALSE, !.obs = "none"] \in Local
    BY <1>1, LocalSet
  <2>2. Handler(w) \in {"leave", "fail", "raised"}
    BY DEF Handler
  <2>3. Moved
    BY <1>6, <2>1, <2>2, Moves DEF Raise, Pc, Inside, EnginePc, Holding
  <2>4. faults' \in 0..MaxFaults
    BY <1>6, ConstantsAssumption DEF Raise, TypeInv, TypeOK
  <2> QED BY <1>6, <2>3, <2>4 DEF Raise, TypeInv, TypeOK, run, memory, lease
<1>7. CASE Crash(w)
  <2>1. Fresh("none") \in Local
    BY FreshSet
  <2>2. Moved
    BY <1>7, <2>1, Moves DEF Crash, Pc, Holding
  <2>3. faults' \in 0..MaxFaults
    BY <1>7, ConstantsAssumption DEF Crash, TypeInv, TypeOK
  <2> QED BY <1>7, <2>2, <2>3 DEF Crash, TypeInv, TypeOK, run, memory
<1> QED BY <1>2, <1>3, <1>4, <1>5, <1>6, <1>7
LEMMA EngineTypeInv ==
  ASSUME TypeInv, NEW w \in Exec, Engine(w)
  PROVE  TypeInv'
<1> DEFINE Moved == /\ pc' \in [Exec -> Pc] /\ local' \in [Exec -> Local]
                    /\ \A v \in Exec : SeqOK(v)'
           i == local[w].seq
<1>1. /\ local[w] \in Local /\ count \in 0..MaxRows /\ status \in Status
      /\ i \in 0..MaxRows
      /\ local[w].obs \in {"none", "ok", "other"} /\ local[w].seen \in Status
      /\ i > 0 => steps[i] \in Step
  <2>1. /\ local[w] \in Local /\ count \in 0..MaxRows /\ status \in Status
        /\ steps \in [1..MaxRows -> Step]
    BY DEF TypeInv, TypeOK
  <2>2. /\ i \in 0..MaxRows /\ local[w].seen \in Status
        /\ local[w].obs \in {"none", "ok", "other"}
    BY <2>1, LocalSet
  <2> QED BY <2>1, <2>2, ConstantsAssumption
<1>2. pc[w] \in Holding => i > 0
  BY DEF TypeInv, SeqOK
<1>3. CASE FinishCommittedBoundary(w)
  <2>1. \E p \in {"outer", "limit", "complete", "fail"} : Goto(w, p)
    BY <1>3 DEF FinishCommittedBoundary
  <2>2. Moved
    BY <1>3, <2>1, MovesOnly
    DEF FinishCommittedBoundary, Pc, Inside, EnginePc, Holding
  <2> QED BY <1>3, <2>2
          DEF FinishCommittedBoundary, TypeInv, TypeOK, run, memory, lease
<1>4. CASE CheckStepLimit(w)
  <2>1. Moved
    BY <1>4, MovesOnly DEF CheckStepLimit, Pc, Inside, EnginePc, Holding
  <2> QED BY <1>4, <2>1 DEF CheckStepLimit, TypeInv, TypeOK, run, memory, lease
<1>5. CASE BuildRequest(w)
  <2>1. Moved
    BY <1>5, MovesOnly DEF BuildRequest, Pc, Inside, EnginePc, Holding
  <2> QED BY <1>5, <2>1 DEF BuildRequest, TypeInv, TypeOK, run, memory, lease
<1>6. CASE LoadForDecision(w)
  <2>1. Moved
    <3>1. CASE Goto(w, "fail") /\ UNCHANGED local
      BY <3>1, MovesOnly DEF Pc, Inside, EnginePc, Holding
    <3>2. CASE /\ count < MaxRows
               /\ Keep(w, [local[w] EXCEPT !.seq = count + 1])
               /\ Goto(w, "record")
      <4> DEFINE l == [local[w] EXCEPT !.seq = count + 1]
      <4>1. count + 1 \in 0..MaxRows /\ count + 1 > 0
        BY <1>1, <3>2, ConstantsAssumption
      <4>2. l \in Local
        BY <1>1, <4>1, LocalSet
      <4>3. l.seq > 0
        BY <1>1, <4>1 DEF Local
      <4> HIDE DEF l
      <4> QED BY <3>2, <4>2, <4>3, Moves DEF Pc, Inside, EnginePc, l
    <3> QED BY <1>6, <3>1, <3>2 DEF LoadForDecision
  <2> QED BY <1>6, <2>1 DEF LoadForDecision, TypeInv, TypeOK, run, memory, lease
<1>7. CASE CommitDecision(w)
  <2>1. i > 0
    BY <1>2, <1>7 DEF CommitDecision, Holding
  <2>2. Moved
    <3>1. \E p \in {"tool", "complete", "fail"} : Goto(w, p)
      BY <1>7 DEF CommitDecision
    <3> QED BY <1>7, <2>1, <3>1, MovesOnly
            DEF CommitDecision, Pc, Inside, EnginePc
  <2>3. count' \in 0..MaxRows /\ steps' \in [1..MaxRows -> Step]
    <3>1. CASE UNCHANGED <<count, steps>>
      BY <3>1 DEF TypeInv, TypeOK
    <3>2. CASE \E k \in {"tool", "final"} :
                 count' = i /\ SetStep(i, [NoStep EXCEPT !.kind = k])
      BY <1>1, <3>2, NewStep, SetStepType
    <3> QED BY <1>7, <3>1, <3>2 DEF CommitDecision
  <2> QED BY <1>7, <2>2, <2>3 DEF CommitDecision, TypeInv, TypeOK, memory, lease
<1>8. CASE InvokeTool(w)
  <2>1. i > 0
    BY <1>2, <1>8 DEF InvokeTool, Holding
  <2>2. [local[w] EXCEPT !.obs = "other"] \in Local
        /\ [local[w] EXCEPT !.obs = "other"].seq = i
    <3>1. [local[w] EXCEPT !.obs = "other"] \in Local
      BY <1>1, LocalSet
    <3>2. [local[w] EXCEPT !.obs = "other"].seq = i
      BY <1>1 DEF Local
    <3> QED BY <3>1, <3>2
  <2>3. Moved
    <3>1. CASE Goto(w, "waiting") /\ UNCHANGED local
      BY <2>1, <3>1, MovesOnly DEF Pc, Inside, EnginePc
    <3>2. CASE /\ Goto(w, "observe")
               /\ Keep(w, [local[w] EXCEPT !.obs = "other"])
      BY <2>1, <2>2, <3>2, Moves DEF Pc, Inside, EnginePc
    <3> QED BY <1>8, <3>1, <3>2 DEF InvokeTool
  <2>4. steps' \in [1..MaxRows -> Step]
    <3> DEFINE s == [steps[i] EXCEPT !.records = OneMore(@), !.call = "open"]
    <3>1. s \in Step
      BY <1>1, <2>1, StepSet
    <3>2. CASE SetStep(i, s)
      BY <1>1, <3>1, <3>2, SetStepType
    <3>3. CASE UNCHANGED steps
      BY <3>3 DEF TypeInv, TypeOK
    <3> QED BY <1>8, <3>2, <3>3 DEF InvokeTool
  <2> QED BY <1>8, <2>3, <2>4 DEF InvokeTool, TypeInv, TypeOK, memory, lease
<1>9. CASE ToolReturns(w)
  <2>1. i > 0
    BY <1>2, <1>9 DEF ToolReturns, Holding
  <2>2. PICK c \in {"open", "ok", "other"}, o \in {"ok", "other"} :
          /\ SetStep(i, [steps[i] EXCEPT !.call = c])
          /\ Keep(w, [local[w] EXCEPT !.obs = o])
    BY <1>9 DEF ToolReturns
  <2>3. steps' \in [1..MaxRows -> Step]
    <3>1. [steps[i] EXCEPT !.call = c] \in Step
      BY <1>1, <2>1, StepSet
    <3> QED BY <1>1, <2>2, <3>1, SetStepType
  <2>4. Moved
    <3> DEFINE l == [local[w] EXCEPT !.obs = o]
    <3>1. l \in Local
      BY <1>1, LocalSet
    <3>2. l.seq = i
      BY <1>1 DEF Local
    <3> HIDE DEF l
    <3>3. Goto(w, "observe") /\ Keep(w, l)
      BY <1>9, <2>2 DEF ToolReturns, l
    <3> QED BY <2>1, <3>1, <3>2, <3>3, Moves DEF Pc, Inside, EnginePc
  <2> QED BY <1>9, <2>3, <2>4 DEF ToolReturns, TypeInv, TypeOK, memory, lease
<1>10. CASE CommitObservation(w)
  <2>1. i > 0
    BY <1>2, <1>10 DEF CommitObservation, Holding
  <2>2. steps' \in [1..MaxRows -> Step]
    <3>1. [steps[i] EXCEPT !.obs = local[w].obs] \in Step
      BY <1>1, <2>1, StepSet
    <3> QED BY <1>1, <1>10, <3>1, SetStepType DEF CommitObservation
  <2>3. Moved
    <3>1. [local[w] EXCEPT !.pend = FALSE, !.obs = "none"] \in Local
      BY <1>1, LocalSet
    <3>2. \E p \in {"boundary", "limit"} : Goto(w, p)
      BY <1>10 DEF CommitObservation
    <3> QED BY <1>10, <3>1, <3>2, Moves
            DEF CommitObservation, Pc, Inside, EnginePc, Holding
  <2>4. working' \in {"none", "active", "retired"}
    BY <1>10 DEF CommitObservation, TypeInv, TypeOK
  <2> QED BY <1>10, <2>2, <2>3, <2>4 DEF CommitObservation, TypeInv, TypeOK, lease
<1>11. CASE LoadToEnd(w)
  <2>1. [local[w] EXCEPT !.seen = status] \in Local
    BY <1>1, LocalSet
  <2>2. Moved
    BY <1>11, <2>1, Moves DEF LoadToEnd, Pc, Inside, EnginePc, Holding
  <2> QED BY <1>11, <2>2 DEF LoadToEnd, TypeInv, TypeOK, run, memory, lease
<1>12. CASE CompleteRun(w) \/ StopAtLimit(w) \/ MarkFailed(w)
  <2>1. UNCHANGED local /\ Goto(w, "outer") /\ Retire
    BY <1>12 DEF CompleteRun, StopAtLimit, MarkFailed
  <2>2. Moved
    BY <2>1, MovesOnly DEF Pc, Inside, Holding
  <2>3. status' \in Status
    BY <1>1, <1>12 DEF CompleteRun, StopAtLimit, MarkFailed, Flushed, Status
  <2>4. working' \in {"none", "active", "retired"}
    BY <2>1 DEF Retire, TypeInv, TypeOK
  <2>5. promoted' \in BOOLEAN
    BY <1>12 DEF CompleteRun, StopAtLimit, MarkFailed, TypeInv, TypeOK
  <2>6. UNCHANGED <<count, steps, lease, beat, faults>>
    BY <1>12 DEF CompleteRun, StopAtLimit, MarkFailed
  <2> QED BY <2>2, <2>3, <2>4, <2>5, <2>6 DEF TypeInv, TypeOK, lease
<1> QED BY <1>3, <1>4, <1>5, <1>6, <1>7, <1>8, <1>9, <1>10, <1>11, <1>12
        DEF Engine

\* Types hold in every run, also when the database fails.
LEMMA NextTypeInv == TypeInv /\ [Next]_vars => TypeInv'
<1> SUFFICES ASSUME TypeInv, [Next]_vars PROVE TypeInv'
  OBVIOUS
<1>1. CASE UNCHANGED vars
  BY <1>1 DEF vars, run, lease, memory, TypeInv, TypeOK, SeqOK
<1>2. CASE LeaseExpires
  <2>1. TypeOK'
    BY <1>2 DEF LeaseExpires, TypeInv, TypeOK, run, memory
  <2> QED BY <1>2, <2>1 DEF LeaseExpires, TypeInv, SeqOK
<1>3. ASSUME NEW w \in Exec, Advance(w) PROVE TypeInv'
  BY <1>3, LeaseTypeInv, RecoveryTypeInv, EngineTypeInv, OuterTypeInv DEF Advance
<1>4. ASSUME NEW w \in Exec,
             \/ ScanStale(w) \/ RenewRefused(w) \/ HeartbeatFails(w)
             \/ Raise(w) \/ Crash(w)
      PROVE  TypeInv'
  BY <1>4, LeaseTypeInv, OuterTypeInv
<1> QED BY <1>1, <1>2, <1>3, <1>4 DEF Next

\* Every variable keeps its type, with failing heartbeats and commits too.
THEOREM TypesHold == Spec => []TypeOK
<1>1. TypeInv => TypeOK
  BY DEF TypeInv
<1> QED BY <1>1, InitTypeInv, NextTypeInv, PTL DEF Spec
(***************************************************************************)
(* The lease                                                                *)
(***************************************************************************)
\* Whoever is inside owns the lease, and keeps it for as long as the run is
\* running: nothing but a dead heartbeat lets it expire.
LeaseOf(w) ==
  pc[w] \in Inside =>
    /\ owner = w
    /\ status = "running" => beat[w] = "on" /\ fresh

SoleInv == \A w \in Exec : LeaseOf(w)

\* Every step of an execution that is inside, and stays there.
StaysInside(w) ==
  /\ pc[w] \in Inside
  /\ \E p \in Inside : Goto(w, p)
  /\ UNCHANGED <<owner, fresh, beat>>
  /\ status' = "running" => status = "running"

LEMMA StaysKeepsLease ==
  ASSUME TypeInv, SoleInv, NEW w \in Exec, StaysInside(w)
  PROVE  SoleInv'
BY DEF SoleInv, LeaseOf, StaysInside, Goto, TypeInv, TypeOK

LEMMA EngineStays ==
  ASSUME NEW w \in Exec, Engine(w)
  PROVE  StaysInside(w)
<1> USE DEF Inside, EnginePc
<1>1. CASE FinishCommittedBoundary(w)
  BY <1>1 DEF FinishCommittedBoundary, StaysInside, run, lease
<1>2. CASE CheckStepLimit(w)
  BY <1>2 DEF CheckStepLimit, StaysInside, run, lease
<1>3. CASE BuildRequest(w)
  BY <1>3 DEF BuildRequest, StaysInside, run, lease
<1>4. CASE LoadForDecision(w)
  BY <1>4 DEF LoadForDecision, StaysInside, run, lease
<1>5. CASE CommitDecision(w)
  BY <1>5 DEF CommitDecision, StaysInside, lease
<1>6. CASE InvokeTool(w)
  BY <1>6 DEF InvokeTool, StaysInside, lease
<1>7. CASE ToolReturns(w)
  BY <1>7 DEF ToolReturns, StaysInside, lease
<1>8. CASE CommitObservation(w)
  BY <1>8 DEF CommitObservation, StaysInside, lease
<1>9. CASE LoadToEnd(w)
  BY <1>9 DEF LoadToEnd, StaysInside, run, lease
<1>10. CASE CompleteRun(w)
  BY <1>10 DEF CompleteRun, Flushed, StaysInside, lease
<1>11. CASE StopAtLimit(w)
  BY <1>11 DEF StopAtLimit, Flushed, StaysInside, lease
<1>12. CASE MarkFailed(w)
  BY <1>12 DEF MarkFailed, Flushed, StaysInside, lease
<1> QED BY <1>1, <1>2, <1>3, <1>4, <1>5, <1>6, <1>7, <1>8, <1>9, <1>10, <1>11,
           <1>12 DEF Engine

LEMMA RecoveryStays ==
  ASSUME NEW w \in Exec, Recovery(w)
  PROVE  StaysInside(w)
<1> USE DEF Inside, EnginePc, RecoveryPc
<1>1. CASE EnterRecovery(w)
  BY <1>1 DEF EnterRecovery, StaysInside, run, lease
<1>2. CASE PlanRecovery(w)
  BY <1>2 DEF PlanRecovery, StaysInside, run, lease
<1>3. CASE LoadPendingStep(w)
  BY <1>3 DEF LoadPendingStep, StaysInside, run, lease
<1>4. CASE ReadCall(w)
  BY <1>4 DEF ReadCall, StaysInside, run, lease
<1>5. CASE RecoverCall(w)
  BY <1>5 DEF RecoverCall, StaysInside, lease
<1>6. CASE RestoreObservation(w)
  BY <1>6 DEF RestoreObservation, StaysInside, lease
<1>7. CASE MarkForReview(w)
  BY <1>7 DEF MarkForReview, Flushed, StaysInside, lease
<1> QED BY <1>1, <1>2, <1>3, <1>4, <1>5, <1>6, <1>7 DEF Recovery

LEMMA OuterStays ==
  ASSUME NEW w \in Exec,
         \/ EnterWorkflow(w) \/ LeaveEngine(w) \/ ReadForFailure(w)
         \/ RecordFailure(w) \/ Raise(w)
  PROVE  StaysInside(w)
<1> USE DEF Inside, EnginePc
<1>1. CASE EnterWorkflow(w)
  BY <1>1 DEF EnterWorkflow, StaysInside, run, lease
<1>2. CASE LeaveEngine(w)
  BY <1>2 DEF LeaveEngine, StaysInside, run, lease
<1>3. CASE ReadForFailure(w)
  BY <1>3 DEF ReadForFailure, StaysInside, run, lease
<1>4. CASE RecordFailure(w)
  BY <1>4 DEF RecordFailure, StaysInside, lease
<1>5. CASE Raise(w)
  <2>1. Handler(w) \in {"leave", "fail", "raised"}
    BY DEF Handler
  <2>2. pc[w] \in Inside
    BY <1>5 DEF Raise, MayRaise, RecoveryPc
  <2> QED BY <1>5, <2>1, <2>2 DEF Raise, StaysInside, run, lease
<1> QED BY <1>1, <1>2, <1>3, <1>4, <1>5

LEMMA NextSoleInv ==
  ASSUME TypeInv, SoleInv, Healthy, [Next]_vars
  PROVE  SoleInv'
<1> USE DEF TypeInv, TypeOK, SoleInv, LeaseOf, Goto
<1>1. CASE UNCHANGED vars
  BY <1>1 DEF vars, run, lease
<1>2. CASE LeaseExpires
  BY <1>2 DEF LeaseExpires, run
<1>3. ASSUME NEW w \in Exec, Advance(w) PROVE SoleInv'
  <2>1. CASE Acquire(w)
    <3>1. \A v \in Exec : pc[v] \in Inside => v = w
      BY <2>1, ConstantsAssumption DEF Acquire, Claimable
    <3>2. LeaseOf(w)'
      BY <2>1 DEF Acquire
    <3>3. \A v \in Exec : v # w => LeaseOf(v)'
      BY <2>1, <3>1 DEF Acquire
    <3> QED BY <3>2, <3>3
  <2>2. CASE ClaimRefused(w)
    BY <2>2 DEF ClaimRefused, run, lease, Inside, EnginePc, RecoveryPc
  <2>3. CASE Release(w)
    <3>1. pc[w] \in Inside
      BY <2>3 DEF Release, Inside
    <3>2. \A v \in Exec : pc[v] \in Inside => v = w
      BY <3>1
    <3> QED BY <2>3, <3>2 DEF Release, Inside, EnginePc, RecoveryPc
  <2>4. CASE \/ Engine(w) \/ Recovery(w) \/ EnterWorkflow(w) \/ LeaveEngine(w)
             \/ ReadForFailure(w) \/ RecordFailure(w)
    BY <2>4, EngineStays, RecoveryStays, OuterStays, StaysKeepsLease
  <2> QED BY <1>3, <2>1, <2>2, <2>3, <2>4 DEF Advance
<1>4. ASSUME NEW w \in Exec, ScanStale(w) PROVE SoleInv'
  BY <1>4 DEF ScanStale, run, lease, Inside, EnginePc, RecoveryPc
<1>5. ASSUME NEW w \in Exec, RenewRefused(w) PROVE SoleInv'
  BY <1>5 DEF RenewRefused, run, lease
<1>6. ASSUME NEW w \in Exec, HeartbeatFails(w) PROVE SoleInv'
  BY <1>6 DEF HeartbeatFails, Healthy
<1>7. ASSUME NEW w \in Exec, Raise(w) PROVE SoleInv'
  BY <1>7, OuterStays, StaysKeepsLease
<1>8. ASSUME NEW w \in Exec, Crash(w) PROVE SoleInv'
  <2>1. \A v \in Exec : v # w => pc'[v] = pc[v] /\ beat'[v] = beat[v]
    BY <1>8 DEF Crash
  <2>2. pc'[w] \notin Inside
    BY <1>8 DEF Crash, Inside, EnginePc, RecoveryPc
  <2>3. ASSUME NEW v \in Exec, pc'[v] \in Inside PROVE LeaseOf(v)'
    <3>1. v # w /\ owner = v
      BY <2>1, <2>2, <2>3
    <3>2. owner' = v
      BY <1>8, <3>1 DEF Crash
    <3>3. status' = status /\ fresh' = fresh
      BY <1>8 DEF Crash, run
    <3> QED BY <2>1, <2>3, <3>1, <3>2, <3>3
  <2> QED BY <2>3
<1> QED BY <1>1, <1>2, <1>3, <1>4, <1>5, <1>6, <1>7, <1>8 DEF Next

LEMMA InitSoleInv == Init => SoleInv
BY DEF Init, SoleInv, LeaseOf, Inside, EnginePc, RecoveryPc

\* With healthy heartbeats the lease excludes: whatever crashes, expires, is
\* delivered twice or taken over, one execution at a time is inside the run.
THEOREM OneExecutionHolds == ASSUME Healthy PROVE Spec => []OneExecution
<1>1. SoleInv => OneExecution
  BY DEF SoleInv, LeaseOf, OneExecution
<1>2. TypeInv /\ SoleInv /\ [Next]_vars => (TypeInv /\ SoleInv)'
  BY NextTypeInv, NextSoleInv
<1> QED BY <1>1, <1>2, InitTypeInv, InitSoleInv, PTL DEF Spec

(***************************************************************************)
(* The engine                                                               *)
(***************************************************************************)
\* What an execution knows about the run at each of its program points.
At(w) ==
  /\ pc[w] \in {"enter", "record_failure"} \cup RecoveryPc
              \cup (EnginePc \ {"boundary"}) => status = "running"
  /\ pc[w] \in {"limit", "build", "model", "record", "stop", "stopping"} => Settled
  /\ pc[w] \in {"build", "model", "record"} => count < MaxSteps
  /\ pc[w] = "record" => local[w].seq = count + 1
  /\ pc[w] \in {"stop", "stopping"} => count >= MaxSteps
  /\ pc[w] \in {"complete", "completing"} => count > 0 /\ steps[count].kind = "final"
  /\ pc[w] \in Holding \ {"record"} => Outstanding /\ local[w].seq = count
  /\ pc[w] = "call" => steps[count].call # "none"
  /\ pc[w] \in {"restore", "observe"} => local[w].obs \in {"ok", "other"}
  /\ pc[w] \in (RecoveryPc \ {"restore"}) \cup {"completing", "stopping", "failing"}
       => local[w].seen = "running"

StageInv == count <= MaxSteps /\ \A w \in Exec : At(w)

LEMMA InitStageInv == Init => StageInv
BY ConstantsAssumption
DEF Init, StageInv, At, EnginePc, RecoveryPc, Holding

\* The program points of At are all inside, where there is nobody else.
LEMMA OthersAt ==
  ASSUME TypeInv, SoleInv, NEW w \in Exec, StaysInside(w),
         NEW v \in Exec, v # w
  PROVE  At(v)'
<1>1. pc[v] \notin Inside
  BY DEF SoleInv, LeaseOf, StaysInside
<1>2. pc'[v] = pc[v]
  BY DEF StaysInside, Goto, TypeInv, TypeOK
<1>3. pc'[v] \notin Inside
  BY <1>1, <1>2
<1> QED BY <1>3 DEF At, Inside, EnginePc, RecoveryPc, Holding

\* What At needs to know of the state the execution leaves behind.
LEMMA Types ==
  ASSUME TypeInv, NEW w \in Exec
  PROVE  /\ local[w] \in Local /\ local[w].seq \in 0..MaxRows
         /\ local[w].obs \in {"none", "ok", "other"}
         /\ count \in 0..MaxRows
         /\ \A i \in 1..MaxRows : steps[i] \in Step
         /\ pc \in [Exec -> Pc] /\ local \in [Exec -> Local]
         /\ steps \in [1..MaxRows -> Step]
BY LocalSet DEF TypeInv, TypeOK

LEMMA RecoveryAt ==
  ASSUME TypeInv, StageInv, NEW w \in Exec, Recovery(w)
  PROVE  At(w)' /\ count' <= MaxSteps
<1>1. At(w) /\ count <= MaxSteps
  BY DEF StageInv
<1>2. /\ local[w] \in Local /\ count \in 0..MaxRows
      /\ pc \in [Exec -> Pc] /\ local \in [Exec -> Local]
      /\ steps \in [1..MaxRows -> Step]
  BY Types
<1> USE <1>1, <1>2, ConstantsAssumption
    DEF At, Goto, Keep, EnginePc, RecoveryPc, Holding
<1>3. CASE EnterRecovery(w)
  BY <1>3 DEF EnterRecovery, run, Local
<1>4. CASE PlanRecovery(w)
  BY <1>4 DEF PlanRecovery, run, Local, Outstanding
<1>5. CASE LoadPendingStep(w)
  BY <1>5 DEF LoadPendingStep, run, Local, Outstanding
<1>6. CASE ReadCall(w)
  BY <1>6 DEF ReadCall, run, Local, Outstanding, Step
<1>7. CASE RecoverCall(w)
  BY <1>7 DEF RecoverCall, run, Local, Outstanding, Step, SetStep
<1>8. CASE RestoreObservation(w)
  BY <1>8 DEF RestoreObservation, run, Local, Outstanding, Step, SetStep
<1>9. CASE MarkForReview(w)
  BY <1>9 DEF MarkForReview, run, Local
<1> QED BY <1>3, <1>4, <1>5, <1>6, <1>7, <1>8, <1>9 DEF Recovery

LEMMA OuterAt ==
  ASSUME TypeInv, SoleInv, StageInv, Healthy, NEW w \in Exec,
         \/ EnterWorkflow(w) \/ LeaveEngine(w) \/ ReadForFailure(w)
         \/ RecordFailure(w) \/ Raise(w)
  PROVE  At(w)' /\ count' <= MaxSteps
<1>1. At(w) /\ count <= MaxSteps
  BY DEF StageInv
<1>2. /\ local[w] \in Local /\ count \in 0..MaxRows
      /\ pc \in [Exec -> Pc] /\ local \in [Exec -> Local]
  BY Types
<1> USE <1>1, <1>2, ConstantsAssumption
    DEF At, Goto, Keep, EnginePc, RecoveryPc, Holding
<1>3. CASE EnterWorkflow(w)
  BY <1>3 DEF EnterWorkflow, run
<1>4. CASE LeaveEngine(w)
  BY <1>4 DEF LeaveEngine, run
<1>5. CASE ReadForFailure(w)
  BY <1>5 DEF ReadForFailure, run
<1>6. CASE RecordFailure(w)
  BY <1>6 DEF RecordFailure
<1>7. CASE Raise(w)
  <2>1. pc[w] \in {"enter", "plan", "recover", "build", "model", "observe",
                   "completing", "outer"}
    BY <1>7 DEF Raise, MayRaise, Healthy
  <2>2. CASE Handler(w) = "fail"
    <3>1. pc[w] \in EnginePc \ {"boundary"}
      BY <2>1, <2>2 DEF Handler
    <3> QED BY <1>7, <2>2, <3>1 DEF Raise, run
  <2>3. CASE Handler(w) \in {"leave", "raised"}
    BY <1>7, <2>3 DEF Raise, run
  <2> QED BY <2>2, <2>3 DEF Handler
<1> QED BY <1>3, <1>4, <1>5, <1>6, <1>7

LEMMA EngineAt ==
  ASSUME TypeInv, StageInv, NEW w \in Exec, Engine(w)
  PROVE  At(w)' /\ count' <= MaxSteps
<1>1. At(w) /\ count <= MaxSteps
  BY DEF StageInv
<1>2. /\ local[w] \in Local /\ count \in 0..MaxRows
      /\ pc \in [Exec -> Pc] /\ local \in [Exec -> Local]
      /\ steps \in [1..MaxRows -> Step]
  BY Types
<1> USE <1>1, <1>2, ConstantsAssumption
    DEF At, Goto, Keep, EnginePc, RecoveryPc, Holding
<1>3. CASE FinishCommittedBoundary(w)
  BY <1>3 DEF FinishCommittedBoundary, run, Settled
<1>4. CASE CheckStepLimit(w)
  BY <1>4 DEF CheckStepLimit, run, Settled
<1>5. CASE BuildRequest(w)
  BY <1>5 DEF BuildRequest, run, Settled
<1>6. CASE LoadForDecision(w)
  BY <1>6 DEF LoadForDecision, run, Settled, Local
<1>7. CASE CommitDecision(w)
  <2>1. /\ status = "running" /\ status' = status /\ local' = local
        /\ local[w].seq = count + 1 /\ count < MaxSteps
    BY <1>7 DEF CommitDecision
  <2>2. CASE UNCHANGED <<count, steps>> /\ Goto(w, "fail")
    BY <2>1, <2>2
  <2>3. ASSUME NEW k \in {"tool", "final"}, count' = local[w].seq,
               SetStep(local[w].seq, [NoStep EXCEPT !.kind = k]),
               Goto(w, IF k = "tool" THEN "tool" ELSE "complete")
        PROVE  At(w)' /\ count' <= MaxSteps
    <3>1. count' \in 1..MaxRows /\ count' <= MaxSteps
      BY <2>1, <2>3
    <3>2. steps'[count'] = [NoStep EXCEPT !.kind = k]
      BY <2>3, <3>1 DEF SetStep
    <3>3. steps'[count'].kind = k /\ steps'[count'].obs = "none"
      BY <3>2, NewStep
    <3>4. CASE k = "tool"
      BY <2>1, <2>3, <3>1, <3>3, <3>4 DEF Outstanding
    <3>5. CASE k = "final"
      BY <2>1, <2>3, <3>1, <3>3, <3>5
    <3> QED BY <3>4, <3>5
  <2> QED BY <1>7, <2>2, <2>3 DEF CommitDecision
<1>8. CASE InvokeTool(w)
  <2>1. /\ status = "running" /\ status' = status /\ count' = count
        /\ local[w].seq = count /\ Outstanding /\ count \in 1..MaxRows
    BY <1>8 DEF InvokeTool, Outstanding
  <2>2. CASE UNCHANGED <<steps, local>> /\ Goto(w, "waiting")
    BY <2>1, <2>2 DEF Outstanding
  <2>3. CASE /\ UNCHANGED steps /\ Goto(w, "observe")
             /\ Keep(w, [local[w] EXCEPT !.obs = "other"])
    BY <2>1, <2>3 DEF Outstanding, Local
  <2>4. CASE /\ SetStep(count, [steps[count] EXCEPT !.records = OneMore(@),
                                                   !.call = "open"])
             /\ UNCHANGED local /\ Goto(w, "waiting")
    <3>1. steps'[count].kind = "tool" /\ steps'[count].obs = "none"
      BY <2>1, <2>4 DEF SetStep, Outstanding, Step
    <3> QED BY <2>1, <2>4, <3>1 DEF Outstanding
  <2> QED BY <1>8, <2>1, <2>2, <2>3, <2>4 DEF InvokeTool
<1>9. CASE ToolReturns(w)
  BY <1>9 DEF ToolReturns, SetStep, Outstanding, Local, Step
<1>10. CASE CommitObservation(w)
  BY <1>10 DEF CommitObservation, SetStep, Outstanding, Settled, Local, Step
<1>11. CASE LoadToEnd(w)
  BY <1>11 DEF LoadToEnd, run, Settled, Local
<1>12. CASE CompleteRun(w) \/ StopAtLimit(w) \/ MarkFailed(w)
  BY <1>12 DEF CompleteRun, StopAtLimit, MarkFailed
<1> QED BY <1>3, <1>4, <1>5, <1>6, <1>7, <1>8, <1>9, <1>10, <1>11, <1>12
        DEF Engine
LEMMA OutsideAt ==
  ASSUME NEW v \in Exec, pc[v] \notin Inside
  PROVE  At(v)
BY DEF At, Inside, EnginePc, RecoveryPc, Holding

\* A step that leaves the run and this execution alone.
LEMMA SameAt ==
  ASSUME NEW v \in Exec, At(v), UNCHANGED run,
         pc'[v] = pc[v], local'[v] = local[v]
  PROVE  At(v)'
BY DEF At, run, Settled, Outstanding

LEMMA NextStageInv ==
  ASSUME TypeInv, SoleInv, StageInv, Healthy, [Next]_vars
  PROVE  StageInv'
<1>1. count <= MaxSteps /\ \A v \in Exec : At(v)
  BY DEF StageInv
<1>2. pc \in [Exec -> Pc] /\ local \in [Exec -> Local]
  BY DEF TypeInv, TypeOK
<1>3. CASE UNCHANGED vars \/ LeaseExpires
  <2>1. UNCHANGED <<run, pc, local>>
    BY <1>3 DEF vars, LeaseExpires
  <2>2. \A v \in Exec : At(v)'
    BY <1>1, <2>1, SameAt
  <2> QED BY <1>1, <2>1, <2>2 DEF StageInv, run
<1>4. ASSUME NEW w \in Exec,
             \/ Engine(w) \/ Recovery(w) \/ EnterWorkflow(w) \/ LeaveEngine(w)
             \/ ReadForFailure(w) \/ RecordFailure(w) \/ Raise(w)
      PROVE  StageInv'
  <2>1. At(w)' /\ count' <= MaxSteps
    BY <1>4, EngineAt, RecoveryAt, OuterAt
  <2>2. StaysInside(w)
    BY <1>4, EngineStays, RecoveryStays, OuterStays
  <2>3. \A v \in Exec : v # w => At(v)'
    BY <2>2, OthersAt
  <2> QED BY <2>1, <2>3 DEF StageInv
<1>5. ASSUME NEW w \in Exec, Acquire(w) PROVE StageInv'
  <2>1. \A v \in Exec : v # w => At(v)'
    BY <1>1, <1>2, <1>5, SameAt DEF Acquire, Goto
  <2>2. status = "running" /\ pc'[w] = "enter" /\ UNCHANGED run
    BY <1>2, <1>5 DEF Acquire, Goto, Claimable
  <2>3. At(w)'
    BY <2>2 DEF At, run, EnginePc, RecoveryPc, Holding
  <2> QED BY <1>1, <2>1, <2>2, <2>3 DEF StageInv, run
<1>6. ASSUME NEW w \in Exec,
             ClaimRefused(w) \/ Release(w) \/ ScanStale(w) \/ Crash(w)
      PROVE  StageInv'
  <2>1. UNCHANGED run
    BY <1>6 DEF ClaimRefused, Release, ScanStale, Crash
  <2>2. pc'[w] \in {"idle", "claim"}
    BY <1>2, <1>6 DEF ClaimRefused, Release, ScanStale, Crash, Goto
  <2>3. \A v \in Exec : v # w => pc'[v] = pc[v] /\ local'[v] = local[v]
    BY <1>2, <1>6 DEF ClaimRefused, Release, ScanStale, Crash, Goto, Keep
  <2>4. At(w)'
    BY <2>2 DEF At, EnginePc, RecoveryPc, Holding
  <2>5. \A v \in Exec : At(v)'
    BY <1>1, <2>1, <2>3, <2>4, SameAt
  <2> QED BY <1>1, <2>1, <2>5 DEF StageInv, run
<1>7. ASSUME NEW w \in Exec, RenewRefused(w) PROVE StageInv'
  <2>1. \A v \in Exec : At(v)'
    BY <1>1, <1>7, SameAt DEF RenewRefused
  <2> QED BY <1>1, <1>7, <2>1 DEF RenewRefused, StageInv, run
<1>8. ASSUME NEW w \in Exec, HeartbeatFails(w) PROVE StageInv'
  BY <1>8 DEF HeartbeatFails, Healthy
<1> QED BY <1>3, <1>4, <1>5, <1>6, <1>7, <1>8 DEF Next, Advance

(***************************************************************************)
(* AgentRuns implements AgentLoop                                           *)
(***************************************************************************)
LEMMA InitLoop == Init => Loop!LoopInit
<1>1. 1..MaxSteps \subseteq 1..MaxRows
  BY ConstantsAssumption
<1>2. ASSUME Init PROVE Log = [i \in 1..MaxSteps |-> [kind |-> "none", obs |-> "none"]]
  BY <1>1, <1>2 DEF Init, Log, NoStep
<1> QED BY <1>2 DEF Init, Loop!LoopInit

\* The last entry of the log, and what it says about the run.
LEMMA LastEntry ==
  ASSUME TypeInv, StageInv, count > 0
  PROVE  /\ count \in 1..MaxSteps
         /\ Log[count].kind = steps[count].kind
         /\ Log[count].obs = steps[count].obs
         /\ Log[count] = [kind |-> steps[count].kind, obs |-> steps[count].obs]
<1>1. count \in 1..MaxSteps
  BY ConstantsAssumption DEF TypeInv, TypeOK, StageInv
<1> QED BY <1>1 DEF Log

LEMMA SameSettled ==
  ASSUME TypeInv, StageInv
  PROVE  Loop!Settled <=> Settled
BY LastEntry DEF Loop!Settled, Settled

\* A step that changes no kind and no observation is invisible.
LEMMA LogSame ==
  ASSUME \A i \in 1..MaxSteps : /\ steps'[i].kind = steps[i].kind
                                /\ steps'[i].obs = steps[i].obs
  PROVE  Log' = Log
BY DEF Log

LEMMA LogSet ==
  ASSUME TypeInv, NEW i \in 1..MaxSteps, NEW s, SetStep(i, s)
  PROVE  Log' = [Log EXCEPT ![i] = [kind |-> s.kind, obs |-> s.obs]]
<1>1. \A j \in 1..MaxSteps : steps'[j] = IF j = i THEN s ELSE steps[j]
  BY ConstantsAssumption DEF SetStep, TypeInv, TypeOK
<1> QED BY <1>1 DEF Log

LEMMA RunSame == UNCHANGED run => UNCHANGED Loop!loopVars
BY DEF run, Loop!loopVars, Log

LEMMA DecisionRefines ==
  ASSUME TypeInv, StageInv, NEW w \in Exec, CommitDecision(w)
  PROVE  Loop!Decide \/ UNCHANGED Loop!loopVars
<1>1. At(w) /\ pc[w] = "record" /\ status' = status
  BY DEF StageInv, CommitDecision
<1>2. /\ status = "running" /\ Settled
      /\ count < MaxSteps /\ local[w].seq = count + 1
  BY <1>1 DEF At, EnginePc
<1>3. CASE UNCHANGED <<count, steps>>
  BY <1>1, <1>3, RunSame DEF run
<1>4. ASSUME NEW k \in {"tool", "final"}, count' = local[w].seq,
             SetStep(local[w].seq, [NoStep EXCEPT !.kind = k])
      PROVE  Loop!Decide
  <2>1. count + 1 \in 1..MaxSteps
    BY <1>2, ConstantsAssumption DEF TypeInv, TypeOK
  <2>2. SetStep(count + 1, [NoStep EXCEPT !.kind = k])
    BY <1>2, <1>4
  <2>3. /\ [NoStep EXCEPT !.kind = k].kind = k
        /\ [NoStep EXCEPT !.kind = k].obs = "none"
    BY NewStep
  <2>4. Log' = [Log EXCEPT ![count + 1] =
                  [kind |-> [NoStep EXCEPT !.kind = k].kind,
                   obs |-> [NoStep EXCEPT !.kind = k].obs]]
    BY <2>1, <2>2, LogSet
  <2>5. Log' = [Log EXCEPT ![count + 1] = [kind |-> k, obs |-> "none"]]
    BY <2>3, <2>4
  <2>6. k \in Loop!Kind \ {"none"}
    BY DEF Loop!Kind
  <2>7. Loop!Settled
    BY <1>2, SameSettled
  <2> QED BY <1>1, <1>2, <1>4, <2>5, <2>6, <2>7 DEF Loop!Decide
<1> QED BY <1>3, <1>4 DEF CommitDecision

\* Both ways an observation is committed.
LEMMA ObservationRefines ==
  ASSUME TypeInv, StageInv, NEW w \in Exec,
         CommitObservation(w) \/ RestoreObservation(w)
  PROVE  Loop!Observe
<1>1. /\ At(w) /\ pc[w] \in {"observe", "restore"}
      /\ status' = status /\ count' = count
      /\ SetStep(local[w].seq, [steps[local[w].seq] EXCEPT !.obs = local[w].obs])
  BY DEF StageInv, CommitObservation, RestoreObservation
<1>2. /\ status = "running" /\ Outstanding /\ local[w].seq = count
      /\ local[w].obs \in {"ok", "other"}
  BY <1>1 DEF At, EnginePc, RecoveryPc, Holding
<1>3. count > 0 /\ steps[count].kind = "tool" /\ steps[count].obs = "none"
  BY <1>2 DEF Outstanding
<1>4. count \in 1..MaxSteps /\ Log[count] = [kind |-> "tool", obs |-> "none"]
  BY <1>3, LastEntry
<1> DEFINE s == [steps[count] EXCEPT !.obs = local[w].obs]
<1>5. SetStep(count, s)
  BY <1>1, <1>2
<1>6. steps[count] \in Step
  BY <1>4, ConstantsAssumption DEF TypeInv, TypeOK
<1>7. s.kind = "tool" /\ s.obs = local[w].obs
  BY <1>3, <1>6 DEF Step
<1> HIDE DEF s
<1>8. Log' = [Log EXCEPT ![count] = [kind |-> s.kind, obs |-> s.obs]]
  BY <1>4, <1>5, LogSet
<1>9. Log' = [Log EXCEPT ![count] = [kind |-> "tool", obs |-> local[w].obs]]
  BY <1>7, <1>8
<1> QED BY <1>1, <1>2, <1>3, <1>4, <1>9 DEF Loop!Observe, Loop!Result
LEMMA CallInvisible ==
  ASSUME TypeInv, StageInv, status' = status, count' = count,
         count \in 1..MaxRows, NEW s, SetStep(count, s),
         s.kind = steps[count].kind, s.obs = steps[count].obs
  PROVE  UNCHANGED Loop!loopVars
<1>1. \A i \in 1..MaxSteps : /\ steps'[i].kind = steps[i].kind
                             /\ steps'[i].obs = steps[i].obs
  BY ConstantsAssumption DEF SetStep, TypeInv, TypeOK
<1> QED BY <1>1, LogSame DEF Loop!loopVars

\* Creating, finishing and recovering a tool call.
LEMMA CallRefines ==
  ASSUME TypeInv, StageInv, NEW w \in Exec,
         InvokeTool(w) \/ ToolReturns(w) \/ RecoverCall(w)
  PROVE  UNCHANGED Loop!loopVars
<1>1. /\ At(w) /\ pc[w] \in {"tool", "waiting", "recover"}
      /\ status' = status /\ count' = count
  BY DEF StageInv, InvokeTool, ToolReturns, RecoverCall
<1>2. Outstanding /\ local[w].seq = count
  BY <1>1 DEF At, Holding
<1>3. count \in 1..MaxRows /\ steps[count] \in Step
  BY <1>2 DEF Outstanding, TypeInv, TypeOK
<1>4. CASE UNCHANGED steps
  BY <1>1, <1>4, RunSame DEF run
<1>5. ASSUME NEW c, SetStep(count, [steps[count] EXCEPT !.call = c])
      PROVE  UNCHANGED Loop!loopVars
  <2> DEFINE s == [steps[count] EXCEPT !.call = c]
  <2>1. s.kind = steps[count].kind /\ s.obs = steps[count].obs
    BY <1>3 DEF Step
  <2>2. SetStep(count, s)
    BY <1>5
  <2> HIDE DEF s
  <2> QED BY <1>1, <1>3, <2>1, <2>2, CallInvisible
<1>6. CASE SetStep(count, [steps[count] EXCEPT !.records = OneMore(@),
                                                !.call = "open"])
  <2> DEFINE s == [steps[count] EXCEPT !.records = OneMore(@), !.call = "open"]
  <2>1. s.kind = steps[count].kind /\ s.obs = steps[count].obs
    BY <1>3 DEF Step
  <2>2. SetStep(count, s)
    BY <1>6
  <2> HIDE DEF s
  <2> QED BY <1>1, <1>3, <2>1, <2>2, CallInvisible
<1>7. CASE InvokeTool(w)
  BY <1>2, <1>4, <1>6, <1>7 DEF InvokeTool
<1>8. CASE ToolReturns(w)
  BY <1>2, <1>5, <1>8 DEF ToolReturns
<1>9. CASE RecoverCall(w)
  BY <1>2, <1>5, <1>9 DEF RecoverCall
<1> QED BY <1>7, <1>8, <1>9

\* The five ways a run ends.
LEMMA EndRefines ==
  ASSUME TypeInv, StageInv, NEW w \in Exec,
         \/ CompleteRun(w) \/ StopAtLimit(w) \/ MarkFailed(w)
         \/ MarkForReview(w) \/ RecordFailure(w)
  PROVE  Loop!Complete \/ Loop!StopAtMax \/ Loop!GiveUp
<1>1. At(w) /\ UNCHANGED <<count, steps>>
  BY DEF StageInv, CompleteRun, StopAtLimit, MarkFailed, MarkForReview, RecordFailure
<1>2. UNCHANGED <<count, Log>>
  BY <1>1 DEF Log
<1>3. status = "running"
  BY <1>1 DEF At, EnginePc, RecoveryPc, CompleteRun, StopAtLimit, MarkFailed,
              MarkForReview, RecordFailure
<1>4. CASE CompleteRun(w)
  <2>1. pc[w] = "completing" /\ local[w].seen = "running"
    BY <1>1, <1>4 DEF CompleteRun, At
  <2>2. status' = "completed"
    BY <1>4, <2>1 DEF CompleteRun, Flushed
  <2>3. count > 0 /\ Log[count].kind = "final"
    BY <1>1, <2>1, LastEntry DEF At
  <2> QED BY <1>2, <1>3, <2>2, <2>3 DEF Loop!Complete
<1>5. CASE StopAtLimit(w)
  <2>1. pc[w] = "stopping" /\ local[w].seen = "running"
    BY <1>1, <1>5 DEF StopAtLimit, At
  <2>2. status' = "max_steps"
    BY <1>5, <2>1 DEF StopAtLimit, Flushed
  <2>3. count >= MaxSteps /\ Loop!Settled
    BY <1>1, <2>1, SameSettled DEF At
  <2> QED BY <1>2, <1>3, <2>2, <2>3 DEF Loop!StopAtMax
<1>6. CASE MarkFailed(w)
  <2>1. pc[w] = "failing" /\ local[w].seen = "running"
    BY <1>1, <1>6 DEF MarkFailed, At
  <2> QED BY <1>2, <1>3, <1>6, <2>1 DEF MarkFailed, Flushed, Loop!GiveUp
<1>7. CASE MarkForReview(w)
  <2>1. pc[w] = "review" /\ local[w].seen = "running"
    BY <1>1, <1>7 DEF MarkForReview, At, RecoveryPc
  <2> QED BY <1>2, <1>3, <1>7, <2>1 DEF MarkForReview, Flushed, Loop!GiveUp
<1>8. CASE RecordFailure(w)
  BY <1>2, <1>3, <1>8 DEF RecordFailure, Loop!GiveUp
<1> QED BY <1>4, <1>5, <1>6, <1>7, <1>8

LEMMA NextLoop ==
  ASSUME TypeInv, StageInv, [Next]_vars
  PROVE  [Loop!LoopNext]_(Loop!loopVars)
<1>1. CASE UNCHANGED run
  BY <1>1, RunSame
<1>2. ASSUME NEW w \in Exec, Engine(w) PROVE [Loop!LoopNext]_(Loop!loopVars)
  <2>1. CASE \/ FinishCommittedBoundary(w) \/ CheckStepLimit(w)
             \/ BuildRequest(w) \/ LoadForDecision(w) \/ LoadToEnd(w)
    BY <1>1, <2>1 DEF FinishCommittedBoundary, CheckStepLimit, BuildRequest,
                      LoadForDecision, LoadToEnd
  <2>2. CASE CommitDecision(w)
    BY <2>2, DecisionRefines DEF Loop!LoopNext
  <2>3. CASE InvokeTool(w) \/ ToolReturns(w)
    BY <2>3, CallRefines
  <2>4. CASE CommitObservation(w)
    BY <2>4, ObservationRefines DEF Loop!LoopNext
  <2>5. CASE CompleteRun(w) \/ StopAtLimit(w) \/ MarkFailed(w)
    BY <2>5, EndRefines DEF Loop!LoopNext
  <2> QED BY <1>2, <2>1, <2>2, <2>3, <2>4, <2>5 DEF Engine
<1>3. ASSUME NEW w \in Exec, Recovery(w) PROVE [Loop!LoopNext]_(Loop!loopVars)
  <2>1. CASE \/ EnterRecovery(w) \/ PlanRecovery(w) \/ LoadPendingStep(w)
             \/ ReadCall(w)
    BY <1>1, <2>1 DEF EnterRecovery, PlanRecovery, LoadPendingStep, ReadCall
  <2>2. CASE RecoverCall(w)
    BY <2>2, CallRefines
  <2>3. CASE RestoreObservation(w)
    BY <2>3, ObservationRefines DEF Loop!LoopNext
  <2>4. CASE MarkForReview(w)
    BY <2>4, EndRefines DEF Loop!LoopNext
  <2> QED BY <1>3, <2>1, <2>2, <2>3, <2>4 DEF Recovery
<1>4. ASSUME NEW w \in Exec, RecordFailure(w) PROVE [Loop!LoopNext]_(Loop!loopVars)
  BY <1>4, EndRefines DEF Loop!LoopNext
<1>5. ASSUME NEW w \in Exec,
             \/ Acquire(w) \/ ClaimRefused(w) \/ Release(w) \/ EnterWorkflow(w)
             \/ LeaveEngine(w) \/ ReadForFailure(w) \/ ScanStale(w)
             \/ RenewRefused(w) \/ HeartbeatFails(w) \/ Raise(w) \/ Crash(w)
      PROVE  UNCHANGED run
  BY <1>5 DEF Acquire, ClaimRefused, Release, EnterWorkflow, LeaveEngine,
              ReadForFailure, ScanStale, RenewRefused, HeartbeatFails, Raise, Crash
<1>6. CASE LeaseExpires \/ UNCHANGED vars
  <2>1. UNCHANGED run
    BY <1>6 DEF LeaseExpires, vars
  <2> QED BY <2>1, <1>1
<1> QED BY <1>1, <1>2, <1>3, <1>4, <1>5, <1>6 DEF Next, Advance

\* With healthy heartbeats a run is one sequential agent to its readers, for
\* every number of executions and steps: leases, crashes, expiry, takeover,
\* duplicate delivery and recovery of a half-done step do not show.
THEOREM RunIsSequentialHolds == ASSUME Healthy PROVE Spec => RunIsSequential
<1> DEFINE IInv == TypeInv /\ SoleInv /\ StageInv
<1>1. Init => IInv
  BY InitTypeInv, InitSoleInv, InitStageInv
<1>2. IInv /\ [Next]_vars => IInv'
  BY NextTypeInv, NextSoleInv, NextStageInv
<1>3. IInv /\ [Next]_vars => [Loop!LoopNext]_(Loop!loopVars)
  BY NextLoop
<1> HIDE DEF IInv
<1> QED BY <1>1, <1>2, <1>3, InitLoop, PTL DEF Spec, RunIsSequential, Loop!LoopSpec

(***************************************************************************)
(* Committed decisions                                                      *)
(***************************************************************************)
\* The decided steps are the first count ones, and an execution that is about
\* to commit a decision aims at most one step behind them.  Nothing here
\* needs the lease.
DecidedInv ==
  /\ \A i \in 1..MaxRows : steps[i].kind # "none" <=> i <= count
  /\ \A w \in Exec : pc[w] = "record" => local[w].seq <= count + 1

KindsKept == count' = count /\ \A i \in 1..MaxRows : steps'[i].kind = steps[i].kind

NobodyStartsRecording ==
  \A v \in Exec : pc'[v] = "record" => pc[v] = "record" /\ local'[v] = local[v]

LEMMA InitDecidedInv == Init => DecidedInv
BY DEF Init, DecidedInv, NoStep

LEMMA KeptDecidedInv ==
  ASSUME DecidedInv, KindsKept, NobodyStartsRecording
  PROVE  DecidedInv'
BY DEF DecidedInv, KindsKept, NobodyStartsRecording

\* A write to a step that leaves its kind alone.
LEMMA KindKept ==
  ASSUME TypeInv, NEW i \in 1..MaxRows, NEW s, SetStep(i, s),
         s.kind = steps[i].kind, count' = count
  PROVE  KindsKept
BY DEF SetStep, KindsKept, TypeInv, TypeOK

LEMMA StepWritesKeepKinds ==
  ASSUME TypeInv, NEW w \in Exec,
         \/ InvokeTool(w) \/ ToolReturns(w) \/ CommitObservation(w)
         \/ RecoverCall(w) \/ RestoreObservation(w)
  PROVE  KindsKept
<1>1. pc[w] \in Holding /\ count' = count
  BY DEF InvokeTool, ToolReturns, CommitObservation, RecoverCall,
         RestoreObservation, Holding
<1>2. local[w].seq \in 1..MaxRows
  BY <1>1, Types DEF TypeInv, SeqOK
<1>3. steps[local[w].seq] \in Step
  BY <1>2, Types
<1>4. CASE UNCHANGED steps
  BY <1>1, <1>4 DEF KindsKept
<1>5. ASSUME NEW c, SetStep(local[w].seq, [steps[local[w].seq] EXCEPT !.call = c])
      PROVE  KindsKept
  <2> DEFINE s == [steps[local[w].seq] EXCEPT !.call = c]
  <2>1. s.kind = steps[local[w].seq].kind
    BY <1>3 DEF Step
  <2>2. SetStep(local[w].seq, s)
    BY <1>5
  <2> HIDE DEF s
  <2> QED BY <1>1, <1>2, <2>1, <2>2, KindKept
<1>6. CASE SetStep(local[w].seq, [steps[local[w].seq] EXCEPT
                                    !.records = OneMore(@), !.call = "open"])
  <2> DEFINE s == [steps[local[w].seq] EXCEPT !.records = OneMore(@), !.call = "open"]
  <2>1. s.kind = steps[local[w].seq].kind
    BY <1>3 DEF Step
  <2>2. SetStep(local[w].seq, s)
    BY <1>6
  <2> HIDE DEF s
  <2> QED BY <1>1, <1>2, <2>1, <2>2, KindKept
<1>7. CASE SetStep(local[w].seq, [steps[local[w].seq] EXCEPT !.obs = local[w].obs])
  <2> DEFINE s == [steps[local[w].seq] EXCEPT !.obs = local[w].obs]
  <2>1. s.kind = steps[local[w].seq].kind
    BY <1>3 DEF Step
  <2>2. SetStep(local[w].seq, s)
    BY <1>7
  <2> HIDE DEF s
  <2> QED BY <1>1, <1>2, <2>1, <2>2, KindKept
<1>8. CASE InvokeTool(w)
  BY <1>4, <1>6, <1>8 DEF InvokeTool
<1>9. CASE ToolReturns(w)
  BY <1>5, <1>9 DEF ToolReturns
<1>10. CASE RecoverCall(w)
  BY <1>5, <1>10 DEF RecoverCall
<1>11. CASE CommitObservation(w) \/ RestoreObservation(w)
  BY <1>7, <1>11 DEF CommitObservation, RestoreObservation
<1> QED BY <1>8, <1>9, <1>10, <1>11

\* Whatever an execution does but decide.
OtherThanDeciding(w) ==
  \/ Acquire(w) \/ ClaimRefused(w) \/ Release(w) \/ EnterWorkflow(w)
  \/ Recovery(w) \/ LeaveEngine(w) \/ ReadForFailure(w) \/ RecordFailure(w)
  \/ FinishCommittedBoundary(w) \/ CheckStepLimit(w) \/ BuildRequest(w)
  \/ InvokeTool(w) \/ ToolReturns(w) \/ CommitObservation(w) \/ LoadToEnd(w)
  \/ CompleteRun(w) \/ StopAtLimit(w) \/ MarkFailed(w)
  \/ ScanStale(w) \/ RenewRefused(w) \/ HeartbeatFails(w) \/ Raise(w) \/ Crash(w)

LEMMA NextCases ==
  ASSUME Next
  PROVE  \/ LeaseExpires
         \/ \E w \in Exec : \/ OtherThanDeciding(w)
                            \/ LoadForDecision(w) \/ CommitDecision(w)
<1>1. ASSUME NEW w \in Exec, Advance(w)
      PROVE  OtherThanDeciding(w) \/ LoadForDecision(w) \/ CommitDecision(w)
  BY <1>1 DEF Advance, Engine, OtherThanDeciding
<1>2. ASSUME NEW w \in Exec,
             \/ ScanStale(w) \/ RenewRefused(w) \/ HeartbeatFails(w)
             \/ Raise(w) \/ Crash(w)
      PROVE  OtherThanDeciding(w)
  BY <1>2 DEF OtherThanDeciding
<1> QED BY <1>1, <1>2 DEF Next

LEMMA OthersKeepKinds ==
  ASSUME TypeInv, NEW w \in Exec, OtherThanDeciding(w)
  PROVE  KindsKept
<1>1. ASSUME UNCHANGED run PROVE KindsKept
  BY <1>1 DEF run, KindsKept
<1>2. CASE \/ Acquire(w) \/ ClaimRefused(w) \/ Release(w) \/ EnterWorkflow(w)
           \/ LeaveEngine(w) \/ ReadForFailure(w) \/ FinishCommittedBoundary(w)
           \/ CheckStepLimit(w) \/ BuildRequest(w) \/ LoadToEnd(w)
           \/ ScanStale(w) \/ RenewRefused(w) \/ HeartbeatFails(w)
           \/ Raise(w) \/ Crash(w)
  BY <1>1, <1>2 DEF Acquire, ClaimRefused, Release, EnterWorkflow, LeaveEngine,
     ReadForFailure, FinishCommittedBoundary, CheckStepLimit, BuildRequest,
     LoadToEnd, ScanStale, RenewRefused, HeartbeatFails, Raise, Crash
<1>3. CASE \/ RecordFailure(w) \/ CompleteRun(w) \/ StopAtLimit(w)
           \/ MarkFailed(w) \/ MarkForReview(w)
  BY <1>3 DEF RecordFailure, CompleteRun, StopAtLimit, MarkFailed,
     MarkForReview, KindsKept
<1>4. CASE \/ EnterRecovery(w) \/ PlanRecovery(w) \/ LoadPendingStep(w)
           \/ ReadCall(w)
  BY <1>1, <1>4 DEF EnterRecovery, PlanRecovery, LoadPendingStep, ReadCall
<1>5. CASE \/ InvokeTool(w) \/ ToolReturns(w) \/ CommitObservation(w)
           \/ RecoverCall(w) \/ RestoreObservation(w)
  BY <1>5, StepWritesKeepKinds
<1> QED BY <1>2, <1>3, <1>4, <1>5 DEF OtherThanDeciding, Recovery

LEMMA OthersDoNotRecord ==
  ASSUME TypeInv, NEW w \in Exec, OtherThanDeciding(w)
  PROVE  NobodyStartsRecording
<1> USE DEF Goto, Keep, NobodyStartsRecording, TypeInv, TypeOK
<1>1. CASE \/ Acquire(w) \/ ClaimRefused(w) \/ Release(w) \/ EnterWorkflow(w)
           \/ LeaveEngine(w) \/ ReadForFailure(w) \/ RecordFailure(w)
           \/ ScanStale(w) \/ RenewRefused(w) \/ HeartbeatFails(w) \/ Crash(w)
  BY <1>1 DEF Acquire, ClaimRefused, Release, EnterWorkflow, LeaveEngine,
     ReadForFailure, RecordFailure, ScanStale, RenewRefused, HeartbeatFails, Crash
<1>2. CASE Raise(w)
  BY <1>2 DEF Raise, Handler
<1>3. CASE Recovery(w)
  BY <1>3 DEF Recovery, EnterRecovery, PlanRecovery, LoadPendingStep, ReadCall,
     RecoverCall, RestoreObservation, MarkForReview
<1>4. CASE \/ FinishCommittedBoundary(w) \/ CheckStepLimit(w) \/ BuildRequest(w)
           \/ InvokeTool(w) \/ ToolReturns(w) \/ CommitObservation(w)
           \/ LoadToEnd(w) \/ CompleteRun(w) \/ StopAtLimit(w) \/ MarkFailed(w)
  BY <1>4 DEF FinishCommittedBoundary, CheckStepLimit, BuildRequest, InvokeTool,
     ToolReturns, CommitObservation, LoadToEnd, CompleteRun, StopAtLimit, MarkFailed
<1> QED BY <1>1, <1>2, <1>3, <1>4 DEF OtherThanDeciding
LEMMA LoadingAims ==
  ASSUME TypeInv, DecidedInv, NEW w \in Exec, LoadForDecision(w)
  PROVE  KindsKept /\ DecidedInv'
<1>1. KindsKept /\ steps' = steps /\ count' = count
  BY DEF LoadForDecision, KindsKept, run
<1>2. \A v \in Exec : v # w => pc'[v] = pc[v] /\ local'[v] = local[v]
  BY DEF LoadForDecision, Goto, Keep, TypeInv, TypeOK
<1>3. pc'[w] = "record" => local'[w].seq = count + 1
  BY Types DEF LoadForDecision, Goto, Keep, Local
<1>4. \A v \in Exec : pc'[v] = "record" => local'[v].seq <= count + 1
  BY <1>2, <1>3, Types DEF DecidedInv
<1> QED BY <1>1, <1>4 DEF DecidedInv

\* The unique (run_id, sequence) leaves only the next step to decide.
LEMMA DecisionAppends ==
  ASSUME TypeInv, DecidedInv, NEW w \in Exec, CommitDecision(w)
  PROVE  /\ DecidedInv'
         /\ count' >= count
         /\ \A i \in 1..count : steps'[i].kind = steps[i].kind
<1>1. /\ pc[w] = "record" /\ local' = local
      /\ pc'[w] # "record"
      /\ \A v \in Exec : v # w => pc'[v] = pc[v]
  BY DEF CommitDecision, Goto, TypeInv, TypeOK
<1>2. local[w].seq \in 1..MaxRows /\ local[w].seq <= count + 1 /\ count \in 0..MaxRows
  BY <1>1, Types DEF TypeInv, SeqOK, DecidedInv, Holding
<1>3. CASE UNCHANGED <<count, steps>>
  BY <1>1, <1>2, <1>3 DEF DecidedInv
<1>4. ASSUME steps[local[w].seq].kind = "none", NEW k \in {"tool", "final"},
             count' = local[w].seq,
             SetStep(local[w].seq, [NoStep EXCEPT !.kind = k])
      PROVE  /\ DecidedInv'
             /\ count' >= count
             /\ \A i \in 1..count : steps'[i].kind = steps[i].kind
  <2>1. count' = count + 1 /\ count + 1 \in 1..MaxRows
    BY <1>2, <1>4 DEF DecidedInv
  <2>2. [NoStep EXCEPT !.kind = k].kind = k
    BY NewStep
  <2>3. /\ steps'[count + 1].kind = k
        /\ \A i \in 1..MaxRows : i # count + 1 => steps'[i] = steps[i]
    BY <1>4, <2>1, <2>2, Types DEF SetStep
  <2>4. \A i \in 1..MaxRows : steps'[i].kind # "none" <=> i <= count'
    BY <1>2, <2>1, <2>3 DEF DecidedInv
  <2>5. \A v \in Exec : pc'[v] = "record" => local'[v].seq <= count' + 1
    BY <1>1, <1>2, <2>1, Types DEF DecidedInv
  <2>6. \A i \in 1..count : steps'[i].kind = steps[i].kind
    BY <1>2, <2>1, <2>3, ConstantsAssumption
  <2> QED BY <1>2, <2>1, <2>4, <2>5, <2>6 DEF DecidedInv
<1> QED BY <1>2, <1>3, <1>4 DEF CommitDecision

LEMMA NextDecidedInv ==
  ASSUME TypeInv, DecidedInv, [Next]_vars
  PROVE  /\ DecidedInv'
         /\ count' >= count
         /\ \A i \in 1..count : steps'[i].kind = steps[i].kind
<1>1. count \in 0..MaxRows
  BY DEF TypeInv, TypeOK
<1>2. CASE LeaseExpires \/ UNCHANGED vars
  BY <1>1, <1>2 DEF LeaseExpires, vars, run, DecidedInv
<1>3. ASSUME NEW w \in Exec, OtherThanDeciding(w)
      PROVE  DecidedInv' /\ KindsKept
  BY <1>3, OthersKeepKinds, OthersDoNotRecord, KeptDecidedInv
<1>4. ASSUME NEW w \in Exec, LoadForDecision(w)
      PROVE  DecidedInv' /\ KindsKept
  BY <1>4, LoadingAims
<1>5. ASSUME DecidedInv' /\ KindsKept
      PROVE  /\ DecidedInv'
             /\ count' >= count
             /\ \A i \in 1..count : steps'[i].kind = steps[i].kind
  BY <1>1, <1>5, ConstantsAssumption DEF KindsKept
<1> QED BY <1>2, <1>3, <1>4, <1>5, NextCases, DecisionAppends

\* No committed decision is replaced or removed.  This needs no lease: it
\* holds with failing heartbeats and executions that go on without one.
THEOREM DecisionsDurableHolds == Spec => DecisionsDurable
<1>1. TypeInv /\ DecidedInv /\ [Next]_vars
      => [/\ count' >= count
          /\ \A i \in 1..count : steps'[i].kind = steps[i].kind]_vars
  BY NextDecidedInv
<1>2. TypeInv /\ DecidedInv /\ [Next]_vars => (TypeInv /\ DecidedInv)'
  BY NextTypeInv, NextDecidedInv
<1> QED BY <1>1, <1>2, InitTypeInv, InitDecidedInv, PTL DEF Spec, DecisionsDurable

(***************************************************************************)
(* Memories and calls                                                       *)
(***************************************************************************)
\* Every end of a run starts from a running one, so a promotion is never
\* followed by another end.
LEMMA NextPromoted ==
  ASSUME TypeInv, SoleInv, StageInv, Healthy, PromotedOnlyIfCompleted, [Next]_vars
  PROVE  PromotedOnlyIfCompleted'
<1> USE DEF PromotedOnlyIfCompleted
<1>1. ASSUME UNCHANGED <<status, promoted>> PROVE PromotedOnlyIfCompleted'
  BY <1>1
<1>2. CASE LeaseExpires \/ UNCHANGED vars
  BY <1>1, <1>2 DEF LeaseExpires, vars, run, memory
<1>3. ASSUME NEW w \in Exec, Engine(w) PROVE PromotedOnlyIfCompleted'
  <2>1. CASE \/ FinishCommittedBoundary(w) \/ CheckStepLimit(w)
             \/ BuildRequest(w) \/ LoadForDecision(w) \/ CommitDecision(w)
             \/ InvokeTool(w) \/ ToolReturns(w) \/ CommitObservation(w)
             \/ LoadToEnd(w)
    BY <1>1, <2>1 DEF FinishCommittedBoundary, CheckStepLimit, BuildRequest,
       LoadForDecision, CommitDecision, InvokeTool, ToolReturns,
       CommitObservation, LoadToEnd, run, memory
  <2>2. CASE CompleteRun(w)
    <3>1. local[w].seen = "running"
      BY <2>2 DEF CompleteRun, StageInv, At
    <3> QED BY <2>2, <3>1 DEF CompleteRun, Flushed
  <2>3. CASE StopAtLimit(w) \/ MarkFailed(w)
    <3>1. status = "running"
      BY <2>3 DEF StopAtLimit, MarkFailed, StageInv, At, EnginePc
    <3>2. promoted' = promoted /\ ~promoted
      BY <2>3, <3>1 DEF StopAtLimit, MarkFailed
    <3> QED BY <3>2
  <2> QED BY <1>3, <2>1, <2>2, <2>3 DEF Engine
<1>4. ASSUME NEW w \in Exec, MarkForReview(w) \/ RecordFailure(w)
      PROVE  PromotedOnlyIfCompleted'
  <2>1. status = "running"
    BY <1>4 DEF MarkForReview, RecordFailure, StageInv, At, RecoveryPc
  <2>2. promoted' = promoted /\ ~promoted
    BY <1>4, <2>1 DEF MarkForReview, RecordFailure, memory
  <2> QED BY <2>2
<1>5. ASSUME NEW w \in Exec,
             \/ EnterRecovery(w) \/ PlanRecovery(w) \/ LoadPendingStep(w)
             \/ ReadCall(w) \/ RecoverCall(w) \/ RestoreObservation(w)
             \/ Acquire(w) \/ ClaimRefused(w) \/ Release(w) \/ EnterWorkflow(w)
             \/ LeaveEngine(w) \/ ReadForFailure(w) \/ ScanStale(w)
             \/ RenewRefused(w) \/ HeartbeatFails(w) \/ Raise(w) \/ Crash(w)
      PROVE  PromotedOnlyIfCompleted'
  BY <1>1, <1>5 DEF EnterRecovery, PlanRecovery, LoadPendingStep, ReadCall,
     RecoverCall, RestoreObservation, Acquire, ClaimRefused, Release,
     EnterWorkflow, LeaveEngine, ReadForFailure, ScanStale, RenewRefused,
     HeartbeatFails, Raise, Crash, run, memory
<1> QED BY <1>2, <1>3, <1>4, <1>5 DEF Next, Advance, Recovery

\* With healthy heartbeats only a completed run has promoted a memory.
THEOREM PromotionHolds == ASSUME Healthy PROVE Spec => []PromotedOnlyIfCompleted
<1> DEFINE IInv == /\ TypeInv /\ SoleInv /\ StageInv
                   /\ PromotedOnlyIfCompleted
<1>1. Init => IInv
  BY InitTypeInv, InitSoleInv, InitStageInv DEF Init, PromotedOnlyIfCompleted
<1>2. IInv /\ [Next]_vars => IInv'
  BY NextTypeInv, NextSoleInv, NextStageInv, NextPromoted
<1>3. IInv => PromotedOnlyIfCompleted
  OBVIOUS
<1> HIDE DEF IInv
<1> QED BY <1>1, <1>2, <1>3, PTL DEF Spec

\* A step is linked to the only call that was created for it, and a handler
\* is started only for a step without one.
LinksOne == \A i \in 1..MaxRows :
              steps[i].records = (IF steps[i].call = "none" THEN 0 ELSE 1)

CallAt(w) ==
  /\ pc[w] = "tool" => steps[local[w].seq].call = "none"
  /\ pc[w] \in {"recover", "waiting"} => steps[local[w].seq].call # "none"

CallInv == LinksOne /\ \A w \in Exec : CallAt(w)

LEMMA InitCallInv == Init => CallInv
BY DEF Init, CallInv, LinksOne, CallAt, NoStep

\* A write to one step that links it at most once.
LEMMA WriteLinksOne ==
  ASSUME TypeInv, LinksOne, NEW i \in 1..MaxRows, NEW s, SetStep(i, s),
         s.records = (IF s.call = "none" THEN 0 ELSE 1)
  PROVE  LinksOne'
BY DEF LinksOne, SetStep, TypeInv, TypeOK

\* Where a step keeps its calls.
LEMMA Linked ==
  ASSUME TypeInv, LinksOne, NEW i \in 1..MaxRows
  PROVE  /\ \A o : LET s == [steps[i] EXCEPT !.obs = o] IN
                   /\ s.records = (IF s.call = "none" THEN 0 ELSE 1)
                   /\ s.call = steps[i].call
         /\ \A c : steps[i].call # "none" /\ c # "none" =>
                   LET s == [steps[i] EXCEPT !.call = c] IN
                   /\ s.records = (IF s.call = "none" THEN 0 ELSE 1)
                   /\ s.call = c
         /\ steps[i].call = "none" =>
                   LET s == [steps[i] EXCEPT !.records = OneMore(@), !.call = "open"] IN
                   /\ s.records = (IF s.call = "none" THEN 0 ELSE 1)
                   /\ s.call = "open"
<1>1. steps[i] \in Step /\ steps[i].records = (IF steps[i].call = "none" THEN 0 ELSE 1)
  BY DEF LinksOne, TypeInv, TypeOK
<1> QED BY <1>1 DEF Step, OneMore

LEMMA Written ==
  ASSUME TypeInv, NEW i \in 1..MaxRows, NEW s, SetStep(i, s)
  PROVE  steps'[i] = s
BY DEF SetStep, TypeInv, TypeOK

LEMMA EngineCalls ==
  ASSUME TypeInv, CallInv, NEW w \in Exec, Engine(w)
  PROVE  LinksOne' /\ CallAt(w)'
<1>1. LinksOne /\ CallAt(w)
  BY DEF CallInv
<1>2. pc \in [Exec -> Pc] /\ local \in [Exec -> Local] /\ local[w] \in Local
  BY Types
<1>3. CASE \/ FinishCommittedBoundary(w) \/ CheckStepLimit(w) \/ BuildRequest(w)
           \/ LoadForDecision(w) \/ LoadToEnd(w) \/ CompleteRun(w)
           \/ StopAtLimit(w) \/ MarkFailed(w)
  <2>1. UNCHANGED steps /\ pc'[w] \notin {"tool", "recover", "waiting"}
    BY <1>2, <1>3 DEF FinishCommittedBoundary, CheckStepLimit, BuildRequest,
       LoadForDecision, LoadToEnd, CompleteRun, StopAtLimit, MarkFailed, run, Goto
  <2> QED BY <1>1, <2>1 DEF LinksOne, CallAt
<1>4. ASSUME CommitDecision(w) \/ InvokeTool(w) \/ ToolReturns(w) \/ CommitObservation(w)
      PROVE  local[w].seq \in 1..MaxRows
  <2>1. pc[w] \in Holding
    BY <1>4 DEF CommitDecision, InvokeTool, ToolReturns, CommitObservation, Holding
  <2> QED BY <2>1, Types DEF TypeInv, SeqOK
<1>5. CASE CommitDecision(w)
  <2>1. local' = local
    BY <1>5 DEF CommitDecision
  <2>2. CASE UNCHANGED steps /\ Goto(w, "fail")
    BY <1>1, <1>2, <2>2 DEF LinksOne, CallAt, Goto
  <2>3. ASSUME NEW k \in {"tool", "final"},
               SetStep(local[w].seq, [NoStep EXCEPT !.kind = k]),
               Goto(w, IF k = "tool" THEN "tool" ELSE "complete")
        PROVE  LinksOne' /\ CallAt(w)'
    <3> DEFINE s == [NoStep EXCEPT !.kind = k]
    <3>1. s.records = 0 /\ s.call = "none"
      BY DEF NoStep
    <3>2. SetStep(local[w].seq, s)
      BY <2>3
    <3>3. pc'[w] \in {"tool", "complete"}
      BY <1>2, <2>3 DEF Goto
    <3> HIDE DEF s
    <3>4. LinksOne' /\ steps'[local[w].seq] = s
      BY <1>1, <1>4, <1>5, <3>1, <3>2, WriteLinksOne, Written
    <3> QED BY <2>1, <3>1, <3>3, <3>4 DEF CallAt
  <2> QED BY <1>5, <2>2, <2>3 DEF CommitDecision
<1>6. CASE InvokeTool(w)
  <2>1. pc[w] = "tool" /\ steps[local[w].seq].call = "none"
    BY <1>1, <1>6 DEF InvokeTool, CallAt
  <2>2. steps[local[w].seq].records = 0
    BY <1>1, <1>4, <1>6, <2>1 DEF LinksOne
  <2>3. ~SameKey(steps[local[w].seq])
    BY <2>2 DEF SameKey
  <2>4. CASE UNCHANGED steps /\ Goto(w, "observe")
    BY <1>1, <1>2, <2>4 DEF LinksOne, CallAt, Goto
  <2>5. CASE /\ SetStep(local[w].seq, [steps[local[w].seq] EXCEPT
                          !.records = OneMore(@), !.call = "open"])
             /\ Goto(w, "waiting") /\ UNCHANGED local
    <3> DEFINE s == [steps[local[w].seq] EXCEPT !.records = OneMore(@), !.call = "open"]
    <3>1. s.records = (IF s.call = "none" THEN 0 ELSE 1) /\ s.call = "open"
      BY <1>1, <1>4, <1>6, <2>1, Linked
    <3>2. SetStep(local[w].seq, s)
      BY <2>5
    <3>3. pc'[w] = "waiting"
      BY <1>2, <2>5 DEF Goto
    <3> HIDE DEF s
    <3>4. LinksOne' /\ steps'[local[w].seq] = s
      BY <1>1, <1>4, <1>6, <3>1, <3>2, WriteLinksOne, Written
    <3> QED BY <2>5, <3>1, <3>3, <3>4 DEF CallAt
  <2> QED BY <1>6, <2>3, <2>4, <2>5 DEF InvokeTool
<1>7. CASE ToolReturns(w)
  <2>1. steps[local[w].seq].call # "none" /\ pc'[w] = "observe"
    BY <1>1, <1>2, <1>7 DEF ToolReturns, CallAt, Goto
  <2>2. PICK c \in {"open", "ok", "other"} :
          SetStep(local[w].seq, [steps[local[w].seq] EXCEPT !.call = c])
    BY <1>7 DEF ToolReturns
  <2> DEFINE s == [steps[local[w].seq] EXCEPT !.call = c]
  <2>3. s.records = (IF s.call = "none" THEN 0 ELSE 1)
    BY <1>1, <1>4, <1>7, <2>1, Linked
  <2>4. SetStep(local[w].seq, s)
    BY <2>2
  <2> HIDE DEF s
  <2>5. LinksOne'
    BY <1>1, <1>4, <1>7, <2>3, <2>4, WriteLinksOne
  <2> QED BY <2>1, <2>5 DEF CallAt
<1>8. CASE CommitObservation(w)
  <2>1. pc'[w] \in {"boundary", "limit"}
    BY <1>2, <1>8 DEF CommitObservation, Goto
  <2> DEFINE s == [steps[local[w].seq] EXCEPT !.obs = local[w].obs]
  <2>2. s.records = (IF s.call = "none" THEN 0 ELSE 1)
    BY <1>1, <1>4, <1>8, Linked
  <2>3. SetStep(local[w].seq, s)
    BY <1>8 DEF CommitObservation
  <2> HIDE DEF s
  <2>4. LinksOne'
    BY <1>1, <1>4, <1>8, <2>2, <2>3, WriteLinksOne
  <2> QED BY <2>1, <2>4 DEF CallAt
<1> QED BY <1>3, <1>5, <1>6, <1>7, <1>8 DEF Engine

LEMMA RecoveryCalls ==
  ASSUME TypeInv, CallInv, NEW w \in Exec, Recovery(w)
  PROVE  LinksOne' /\ CallAt(w)'
<1>1. LinksOne /\ CallAt(w)
  BY DEF CallInv
<1>2. pc \in [Exec -> Pc] /\ local \in [Exec -> Local] /\ local[w] \in Local
  BY Types
<1>3. CASE EnterRecovery(w) \/ PlanRecovery(w) \/ MarkForReview(w)
  <2>1. UNCHANGED steps /\ pc'[w] \notin {"tool", "recover", "waiting"}
    BY <1>2, <1>3 DEF EnterRecovery, PlanRecovery, MarkForReview, run, Goto
  <2> QED BY <1>1, <2>1 DEF LinksOne, CallAt
<1>4. CASE LoadPendingStep(w)
  <2>1. UNCHANGED steps /\ local'[w].seq = local[w].seq
    BY <1>2, <1>4 DEF LoadPendingStep, Keep, run, Local
  <2>2. pc'[w] = "raised" \/ (pc'[w] = "tool" /\ steps[local[w].seq].call = "none")
    BY <1>2, <1>4 DEF LoadPendingStep, Goto
  <2> QED BY <1>1, <2>1, <2>2 DEF LinksOne, CallAt
<1>5. CASE ReadCall(w)
  <2>1. UNCHANGED steps
    BY <1>5 DEF ReadCall, run
  <2>2. pc'[w] = "restore" \/ (/\ pc'[w] = "recover" /\ local' = local
                               /\ steps[local[w].seq].call = "open")
    BY <1>2, <1>5 DEF ReadCall, Goto
  <2> QED BY <1>1, <2>1, <2>2 DEF LinksOne, CallAt
<1>6. ASSUME RecoverCall(w) \/ RestoreObservation(w)
      PROVE  local[w].seq \in 1..MaxRows
  <2>1. pc[w] \in Holding
    BY <1>6 DEF RecoverCall, RestoreObservation, Holding
  <2> QED BY <2>1, Types DEF TypeInv, SeqOK
<1>7. CASE RecoverCall(w)
  <2>1. steps[local[w].seq].call # "none" /\ pc'[w] \in {"review", "restore"}
    BY <1>1, <1>2, <1>7 DEF RecoverCall, CallAt, Goto
  <2>2. PICK c \in {"open", "ok", "other"} :
          SetStep(local[w].seq, [steps[local[w].seq] EXCEPT !.call = c])
    BY <1>7 DEF RecoverCall
  <2> DEFINE s == [steps[local[w].seq] EXCEPT !.call = c]
  <2>3. s.records = (IF s.call = "none" THEN 0 ELSE 1)
    BY <1>1, <1>6, <1>7, <2>1, Linked
  <2>4. SetStep(local[w].seq, s)
    BY <2>2
  <2> HIDE DEF s
  <2>5. LinksOne'
    BY <1>1, <1>6, <1>7, <2>3, <2>4, WriteLinksOne
  <2> QED BY <2>1, <2>5 DEF CallAt
<1>8. CASE RestoreObservation(w)
  <2>1. pc'[w] = "boundary"
    BY <1>2, <1>8 DEF RestoreObservation, Goto
  <2> DEFINE s == [steps[local[w].seq] EXCEPT !.obs = local[w].obs]
  <2>2. s.records = (IF s.call = "none" THEN 0 ELSE 1)
    BY <1>1, <1>6, <1>8, Linked
  <2>3. SetStep(local[w].seq, s)
    BY <1>8 DEF RestoreObservation
  <2> HIDE DEF s
  <2>4. LinksOne'
    BY <1>1, <1>6, <1>8, <2>2, <2>3, WriteLinksOne
  <2> QED BY <2>1, <2>4 DEF CallAt
<1> QED BY <1>3, <1>4, <1>5, <1>7, <1>8 DEF Recovery
LEMMA OuterCalls ==
  ASSUME TypeInv, CallInv, NEW w \in Exec,
         \/ EnterWorkflow(w) \/ LeaveEngine(w) \/ ReadForFailure(w)
         \/ RecordFailure(w) \/ Raise(w)
  PROVE  LinksOne' /\ CallAt(w)'
<1>1. UNCHANGED steps
  BY DEF EnterWorkflow, LeaveEngine, ReadForFailure, RecordFailure, Raise, run
<1>2. Handler(w) \in {"leave", "fail", "raised"}
  BY DEF Handler
<1>3. pc'[w] \notin {"tool", "recover", "waiting"}
  BY <1>2, Types DEF EnterWorkflow, LeaveEngine, ReadForFailure, RecordFailure,
     Raise, Goto
<1> QED BY <1>1, <1>3 DEF LinksOne, CallAt, CallInv

LEMMA NextCallInv ==
  ASSUME TypeInv, SoleInv, CallInv, Healthy, [Next]_vars
  PROVE  CallInv'
<1>1. pc \in [Exec -> Pc] /\ local \in [Exec -> Local]
  BY DEF TypeInv, TypeOK
<1>2. ASSUME NEW w \in Exec,
             \/ Engine(w) \/ Recovery(w) \/ EnterWorkflow(w) \/ LeaveEngine(w)
             \/ ReadForFailure(w) \/ RecordFailure(w) \/ Raise(w)
      PROVE  CallInv'
  <2>1. LinksOne' /\ CallAt(w)'
    BY <1>2, EngineCalls, RecoveryCalls, OuterCalls
  <2>2. StaysInside(w)
    BY <1>2, EngineStays, RecoveryStays, OuterStays
  <2>3. \A v \in Exec : v # w => pc'[v] \notin Inside
    BY <1>1, <2>2 DEF SoleInv, LeaseOf, StaysInside, Goto
  <2>4. \A v \in Exec : v # w => CallAt(v)'
    BY <2>3 DEF CallAt, Inside, EnginePc, RecoveryPc
  <2> QED BY <2>1, <2>4 DEF CallInv
<1>3. ASSUME UNCHANGED steps,
             \A v \in Exec : \/ pc'[v] \in {"idle", "claim", "enter"}
                             \/ pc'[v] = pc[v] /\ local'[v] = local[v]
      PROVE  CallInv'
  BY <1>3 DEF CallInv, LinksOne, CallAt
<1>4. CASE LeaseExpires \/ UNCHANGED vars
  BY <1>3, <1>4 DEF LeaseExpires, vars, run
<1>5. ASSUME NEW w \in Exec,
             \/ Acquire(w) \/ ClaimRefused(w) \/ Release(w) \/ ScanStale(w)
             \/ RenewRefused(w) \/ HeartbeatFails(w) \/ Crash(w)
      PROVE  CallInv'
  <2>1. UNCHANGED steps
    BY <1>5 DEF Acquire, ClaimRefused, Release, ScanStale, RenewRefused,
       HeartbeatFails, Crash, run
  <2>2. \A v \in Exec : \/ pc'[v] \in {"idle", "claim", "enter"}
                        \/ pc'[v] = pc[v] /\ local'[v] = local[v]
    BY <1>1, <1>5 DEF Acquire, ClaimRefused, Release, ScanStale, RenewRefused,
       HeartbeatFails, Crash, Goto, Keep
  <2> QED BY <1>3, <2>1, <2>2
<1> QED BY <1>2, <1>4, <1>5 DEF Next, Advance

\* With healthy heartbeats no step of the run ever has a second call, with or
\* without the call ids that would let a repeated call be recognised.
THEOREM OneCallPerStepHolds == ASSUME Healthy PROVE Spec => []OneCallPerStep
<1> DEFINE IInv == TypeInv /\ SoleInv /\ CallInv
<1>1. Init => IInv
  BY InitTypeInv, InitSoleInv, InitCallInv
<1>2. IInv /\ [Next]_vars => IInv'
  BY NextTypeInv, NextSoleInv, NextCallInv
<1>3. IInv => OneCallPerStep
  BY DEF CallInv, LinksOne, OneCallPerStep
<1> HIDE DEF IInv
<1> QED BY <1>1, <1>2, <1>3, PTL DEF Spec

(***************************************************************************)
(* What a reader may conclude from the sequential agent                     *)
(***************************************************************************)
StepsWithinLimit == count \in 0..MaxSteps

RunEndsOnce == [][status # "running" => UNCHANGED <<status, count, Log>>]_<<status, count, Log>>

\* With healthy heartbeats the executions of a run together ask the model at most
\* max_steps times, however many of them take the run over.
THEOREM StepsWithinLimitHolds == ASSUME Healthy PROVE Spec => []StepsWithinLimit
<1>1. Loop!LoopInit => StepsWithinLimit
  BY ConstantsAssumption DEF ConstantsAssumption, Loop!LoopInit, StepsWithinLimit
<1>2. StepsWithinLimit /\ [Loop!LoopNext]_(Loop!loopVars) => StepsWithinLimit'
  BY ConstantsAssumption
  DEF ConstantsAssumption, StepsWithinLimit, Loop!loopVars, Loop!LoopNext, Loop!Decide,
      Loop!Observe, Loop!Complete, Loop!StopAtMax, Loop!GiveUp
<1> QED BY <1>1, <1>2, RunIsSequentialHolds, PTL DEF RunIsSequential, Loop!LoopSpec

\* With healthy heartbeats a run ends once: whoever is still on its way to an end, a
\* review or a decision finds the end of another execution and leaves it as it is.
THEOREM RunEndsOnceHolds == ASSUME Healthy PROVE Spec => RunEndsOnce
<1>1. [Loop!LoopNext]_(Loop!loopVars)
        => [status # "running" => UNCHANGED <<status, count, Log>>]_<<status, count, Log>>
  BY DEF Loop!loopVars, Loop!LoopNext, Loop!Decide, Loop!Observe, Loop!Complete,
         Loop!StopAtMax, Loop!GiveUp
<1> QED BY <1>1, RunIsSequentialHolds, PTL DEF RunIsSequential, RunEndsOnce, Loop!LoopSpec
=============================================================================
