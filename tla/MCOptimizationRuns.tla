-------------------------- MODULE MCOptimizationRuns --------------------------
(* Small instances of OptimizationRuns for TLC: two requests, of which one or *)
(* both take the tenant lock.                                                 *)
EXTENDS OptimizationRunsProofs

CONSTANTS r1, r2

TwoRequests == {r1, r2}
OneLocked == {r1}
=============================================================================
