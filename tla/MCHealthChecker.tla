-------------------------- MODULE MCHealthChecker --------------------------
(* An instance of HealthChecker for TLC: three goroutines, the threshold of  *)
(* three, one forced change.                                                 *)
EXTENDS HealthChecker

CONSTANTS c1, c2, c3
=============================================================================
