--------------------------- MODULE MCMemoryLifecycle ---------------------------
(* The instance of MemoryLifecycle for TLC.  Sessions, runs and texts are only *)
(* compared, so each of the three sets is symmetric.                            *)
EXTENDS MemoryLifecycle, TLC

Symmetry == Permutations(Sessions) \cup Permutations(Runs) \cup Permutations(Contents)
=============================================================================
