-------------------------- MODULE MCComposerPlayback --------------------------
(***************************************************************************)
(* ComposerPlayback for TLC: two lines to choose from, conversations of at *)
(* most three lines, so that a line can be chosen twice and a second       *)
(* conversation can be shorter, equal or longer than the first.            *)
(***************************************************************************)
EXTENDS ComposerPlayback

CONSTANTS lineA, lineB

MCDialogue == {lineA, lineB}
MCMaxChosen == 3

=============================================================================
