--------------------------- MODULE MCUserSettings ---------------------------
(* Instances of UserSettings for TLC. *)
EXTENDS UserSettings, TLC

CONSTANTS p1, p2

(* Requests are interchangeable: sound without temporal properties. *)
Symmetric == Permutations(Procs)
=============================================================================
