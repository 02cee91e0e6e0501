--------------------------- MODULE MCToolRuntime ---------------------------
(* ToolRuntime on small sets, for TLC. *)
EXTENDS ToolRuntime, TLC

Symmetry == Permutations(Session) \cup Permutations(Approval)
=============================================================================
