--------------------------- MODULE MCContentSync ---------------------------
(* Instances of ContentSync for TLC. *)
EXTENDS ContentSyncInductive, TLC

CONSTANTS m1, m2, f1, f2, a1, a2, t1, t2, d1, d2

(* Every content is a memo of its own, or all belong to memo m1, or m1 has a *)
(* comment m2 with an attachment.                                            *)
Alone == [c \in Contents |-> None]
UnderM1 == [c \in Contents |-> IF c \in Files THEN m1 ELSE None]
Thread == [c \in Contents |-> IF c = m1 THEN None ELSE IF c = m2 THEN m1 ELSE m2]

(* Goroutines are interchangeable, and so are texts and datasets: sound in   *)
(* the runs without temporal properties.                                     *)
Symmetric == Permutations(Actors) \cup Permutations(Texts) \cup Permutations(Datasets)
=============================================================================
