----------------------------- MODULE MCNotebooks -----------------------------
(* Instances of Notebooks for TLC. *)
EXTENDS Notebooks

CONSTANTS p1, p2, m1, m2
=============================================================================
