------------------------------- MODULE Recital -------------------------------
(***************************************************************************)
(* What playing a conversation aloud promises to whoever listens: it       *)
(* begins at the first line, each line is followed by the next one, and it *)
(* may fall silent at any moment.  No line is skipped, repeated or taken   *)
(* from the middle.                                                        *)
(***************************************************************************)
EXTENDS Naturals

CONSTANTS
  NumLines,  \* lines of the conversation, numbered from 0
  Silent     \* nothing is heard

VARIABLE heard

Begin == heard = Silent /\ 0 < NumLines /\ heard' = 0

GoOn ==
  /\ heard # Silent
  /\ heard + 1 < NumLines
  /\ heard' = heard + 1

FallSilent == heard' = Silent

Init == heard = Silent
Next == Begin \/ GoOn \/ FallSilent
Spec == Init /\ [][Next]_heard

=============================================================================
