--------------------------- MODULE MCProvisioning ---------------------------
(* Instances of Provisioning for TLC. *)
EXTENDS Provisioning, TLC

CONSTANTS p1, p2

(* Goroutines are interchangeable: sound without temporal properties. *)
Symmetric == Permutations(Procs)
=============================================================================
