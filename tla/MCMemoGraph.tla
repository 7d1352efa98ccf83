---------------------------- MODULE MCMemoGraph ----------------------------
(* Instances of MemoGraph for TLC. *)
EXTENDS MemoGraph, TLC

CONSTANTS p1, p2, a1, a2

(* Requests are interchangeable, and so are attachments. *)
Symmetric == Permutations(Procs) \cup Permutations(Attachments)
=============================================================================
