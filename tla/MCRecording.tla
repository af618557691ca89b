------------------------------- MODULE MCRecording -------------------------------
(* RegisterViewController, with two reused cells, and RegisterDialogueController. *)
EXTENDS Recording, TLC

CONSTANTS character, dialogue, c1, c2, d1

MCPage == {character, dialogue}
MCView == {c1, c2, d1}
MCPageOf == [v \in MCView |-> IF v = d1 THEN dialogue ELSE character]
Symm == Permutations({c1, c2})

=============================================================================
