------------------------------- MODULE Mirror -------------------------------
(***************************************************************************)
(* What the synchronisation promises to whoever searches the index while   *)
(* one goroutine runs at a time and users write whenever they like. Of     *)
(* every note at most one version is shown. It is taken away only when its *)
(* note is gone or another text was read of it; a version shown anew is    *)
(* the one that was read when the note was taken up, and it was there      *)
(* then; a label is changed only to one that users were heard to ask for.  *)
(* What is shown may so be older than the note, but never made up: not     *)
(* mixed of two readings, not another note's, not shown before it existed. *)
(***************************************************************************)
CONSTANTS
  Notes, Texts, Labels,
  None       \* nothing is shown, taken up or asked for; a version without a label

VARIABLES
  note,      \* what users wrote: whether it is there, its text and its label
  shown,     \* the version in the index
  taken,     \* the version that was read and is about to be shown
  asked      \* the label that a change of labels announced

mirrorVars == <<note, shown, taken, asked>>

Init ==
  /\ note \in [Notes -> [life: {"new", "there"}, text: Texts, label: Labels]]
  /\ shown = [n \in Notes |-> None]
  /\ taken = [n \in Notes |-> None]
  /\ asked = [n \in Notes |-> None]

(* A note appears once and goes once, and its text changes while it is there. *)
Evolves(old, new) ==
  /\ <<old.life, new.life>> \in {<<"new", "there">>, <<"there", "gone">>} \/ old.life = new.life
  /\ old.text # new.text => old.life = "there" /\ new.life = "there"

(* Whoever writes may announce a label, and only the one the note then has. *)
Write ==
  /\ note' \in [Notes -> [life: {"new", "there", "gone"}, text: Texts, label: Labels]]
  /\ \A n \in Notes : Evolves(note[n], note'[n])
  /\ asked' \in [Notes -> Labels \cup {None}]
  /\ \A n \in Notes : asked'[n] \in {asked[n], note'[n].label}
  /\ UNCHANGED <<shown, taken>>

Take(n) ==
  /\ note[n].life = "there"
  /\ \E label \in {note[n].label, None} :
       taken' = [taken EXCEPT ![n] = [text |-> note[n].text, label |-> label]]
  /\ UNCHANGED <<note, shown, asked>>

Leave(n) ==
  /\ taken' = [taken EXCEPT ![n] = None]
  /\ UNCHANGED <<note, shown, asked>>

Hide(n) ==
  /\ shown[n] # None
  /\ note[n].life = "gone" \/ (taken[n] # None /\ shown[n].text # taken[n].text)
  /\ shown' = [shown EXCEPT ![n] = None]
  /\ UNCHANGED <<note, taken, asked>>

Show(n) ==
  /\ taken[n] # None /\ shown[n] = None
  /\ shown' = [shown EXCEPT ![n] = taken[n]]
  /\ taken' = [taken EXCEPT ![n] = None]
  /\ UNCHANGED <<note, asked>>

(* One relabelling at a time answers what was asked for: of n, or of notes   *)
(* that are passed over.                                                     *)
Forget == \E S \in SUBSET Notes : asked' = [n \in Notes |-> IF n \in S THEN None ELSE asked[n]]

Relabel(n) ==
  /\ shown[n] # None /\ asked[n] # None
  /\ shown' = [shown EXCEPT ![n].label = asked[n]]
  /\ Forget
  /\ UNCHANGED <<note, taken>>

PassOver ==
  /\ Forget
  /\ UNCHANGED <<note, shown, taken>>

Next ==
  \/ Write \/ PassOver
  \/ \E n \in Notes : Take(n) \/ Leave(n) \/ Hide(n) \/ Show(n) \/ Relabel(n)

Spec == Init /\ [][Next]_mirrorVars
=============================================================================
