----------------------------- MODULE AgentLoop -----------------------------
(***************************************************************************)
(* What an AgentRun promises to whoever reads it: ONE sequential agent.     *)
(* It decides, uses at most one tool at a time, sees each result before it  *)
(* decides again, stops at its limit and stays stopped.  Executions, leases,*)
(* crashes and recovery are invisible here; AgentRuns implements this.      *)
(***************************************************************************)
EXTENDS Naturals

CONSTANT MaxSteps          \* AgentRun.max_steps

VARIABLES
  status,                  \* AgentRun.status
  count,                   \* AgentRun.step_count
  log                      \* [kind, obs] of every step

loopVars == <<status, count, log>>

Kind   == {"none", "tool", "final"}
Result == {"ok", "other"}

Settled == count > 0 => log[count].kind = "tool" /\ log[count].obs # "none"

LoopInit ==
  /\ status = "running"
  /\ count = 0
  /\ log = [i \in 1..MaxSteps |-> [kind |-> "none", obs |-> "none"]]

\* The model is asked only when nothing is outstanding and a step is left.
Decide ==
  /\ status = "running"
  /\ Settled
  /\ count < MaxSteps
  /\ count' = count + 1
  /\ \E k \in Kind \ {"none"} :
       log' = [log EXCEPT ![count + 1] = [kind |-> k, obs |-> "none"]]
  /\ UNCHANGED status

Observe ==
  /\ status = "running"
  /\ count > 0
  /\ log[count] = [kind |-> "tool", obs |-> "none"]
  /\ \E r \in Result : log' = [log EXCEPT ![count] = [kind |-> "tool", obs |-> r]]
  /\ UNCHANGED <<status, count>>

Complete ==
  /\ status = "running"
  /\ count > 0
  /\ log[count].kind = "final"
  /\ status' = "completed"
  /\ UNCHANGED <<count, log>>

StopAtMax ==
  /\ status = "running"
  /\ Settled
  /\ count >= MaxSteps
  /\ status' = "max_steps"
  /\ UNCHANGED <<count, log>>

GiveUp ==
  /\ status = "running"
  /\ status' \in {"failed", "needs_review"}
  /\ UNCHANGED <<count, log>>

LoopNext == Decide \/ Observe \/ Complete \/ StopAtMax \/ GiveUp

LoopSpec == LoopInit /\ [][LoopNext]_loopVars
=============================================================================
