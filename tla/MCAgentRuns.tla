---------------------------- MODULE MCAgentRuns ----------------------------
(* AgentRuns on small sets, for TLC. *)
EXTENDS AgentRuns, TLC

\* Sound for the safety runs only.
Symmetry == Permutations(Exec)
=============================================================================
