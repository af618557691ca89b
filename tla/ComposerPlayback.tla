--------------------------- MODULE ComposerPlayback ---------------------------
(***************************************************************************)
(* CreateChatController's audio extension: listening to the conversation   *)
(* while it is composed.  TopViewController keeps one composer for as long *)
(* as the app runs: closing it does not stop the sound, and opening it     *)
(* again (didTapCreateButton, defaultUI) empties the strip of chosen lines *)
(* but none of the variables of the player.                                *)
(*                                                                         *)
(* A definition marked "Fault" is the next unmarked one with a plausible   *)
(* slip: put in its place, it must break a property named in PROJECT.json. *)
(***************************************************************************)
EXTENDS Integers, Sequences

CONSTANTS
  Dialogue,   \* lines that can be selected
  MaxChosen,  \* bound on the length of a conversation
  None        \* no recording loaded

ASSUME ChosenAssumption == MaxChosen \in Nat /\ None \notin Dialogue

VARIABLES
  open,            \* the composer is on the screen
  dialogues,       \* conversationBottomView.dialogues, the strip of chosen lines
  selectedAudios,  \* the recordings taken from the strip when listening began
  playNum,         \* the index that is played next; it starts at 0, once
  audio,           \* the line whose recording is in audioPlayer, or None
  centred,         \* the item the strip was scrolled to last
  sounding,        \* audioPlayer is playing
  finishing,       \* its end is queued, audioPlayerDidFinishPlaying has not run
  started          \* history: a line was loaded by Start since the strip was emptied

player == <<selectedAudios, playNum, audio, sounding, finishing>>
vars == <<open, dialogues, centred, player, started>>

Conversation == {s \in Seq(Dialogue) : Len(s) <= MaxChosen}

TypeOK ==
  /\ open \in BOOLEAN
  /\ dialogues \in Conversation
  /\ selectedAudios \in Conversation
  /\ playNum \in 0 .. MaxChosen + 1
  /\ audio \in Dialogue \cup {None}
  /\ centred \in -1 .. MaxChosen - 1
  /\ sounding \in BOOLEAN
  /\ finishing \in BOOLEAN
  /\ started \in BOOLEAN

Init ==
  /\ open = TRUE
  /\ dialogues = <<>>
  /\ selectedAudios = <<>>
  /\ playNum = 0
  /\ audio = None
  /\ centred = -1
  /\ sounding = FALSE
  /\ finishing = FALSE
  /\ started = FALSE

Quiet == ~sounding /\ ~finishing

-----------------------------------------------------------------------------
\* Composing

\* BottomChatView.dialogues, didSet: the strip scrolls to the line added last.
Show(chosen) ==
  /\ dialogues' = chosen
  /\ centred' = Len(chosen) - 1

\* didSelectRowAt: the line joins the strip, and the start button is shown.
SelectDialogue(l) ==
  /\ open
  /\ Len(dialogues) < MaxChosen
  /\ Show(Append(dialogues, l))
  /\ UNCHANGED <<open, player, started>>

\* The close button, or the dismissal after the conversation was registered.
Close ==
  /\ open
  /\ open' = FALSE
  /\ UNCHANGED <<dialogues, centred, player, started>>

\* didTapCreateButton: defaultUI empties the strip, which scrolls to item -1.
OpenAgain ==
  /\ ~open
  /\ open' = TRUE
  /\ Show(<<>>)
  /\ started' = FALSE
  /\ UNCHANGED player

-----------------------------------------------------------------------------
\* Listening

\* prepare, play() and scrollCollectionView, for index n of the recordings.
Load(audios, n) ==
  /\ n < Len(audios)
  /\ audio' = audios[n + 1]
  /\ centred' = n
  /\ sounding' = TRUE

\* Fault: the recordings of the last time are not thrown away.
MoreAudios == SubSeq(selectedAudios \o dialogues, 1, Len(dialogues))

TakenAudios == dialogues

\* didTapStartButton, which is shown once a line is chosen.  The queued callback
\* of the player that is replaced may or may not be delivered.
TapStart ==
  /\ open /\ dialogues # <<>>
  /\ selectedAudios' = TakenAudios
  /\ \/ /\ Load(TakenAudios, playNum)
        /\ finishing' \in {finishing, FALSE}
        /\ started' = TRUE
     \/ UNCHANGED <<audio, centred, sounding, finishing, started>>
  /\ UNCHANGED <<open, dialogues, playNum>>

\* A callback left over from a replaced player runs before the new recording ends.
RecordingEnds ==
  /\ sounding
  /\ ~finishing
  /\ sounding' = FALSE
  /\ finishing' = TRUE
  /\ UNCHANGED <<open, dialogues, selectedAudios, playNum, audio, centred, started>>

\* Fault: the line that was heard is prepared again.
Repeat == UNCHANGED playNum

\* Fault: the index moves even when the last line has been heard and stays there.
Skip == playNum' = playNum + 2

Advance == playNum' = playNum + 1

audioPlayerDidFinishPlaying ==
  /\ finishing
  /\ finishing' = FALSE
  /\ Advance
  /\ Load(selectedAudios, playNum') \/ UNCHANGED <<audio, centred, sounding>>
  /\ UNCHANGED <<open, dialogues, selectedAudios, started>>

-----------------------------------------------------------------------------

Next ==
  \/ \E l \in Dialogue : SelectDialogue(l)
  \/ Close \/ OpenAgain \/ TapStart \/ RecordingEnds \/ audioPlayerDidFinishPlaying

Spec == Init /\ [][Next]_vars

\* Recordings end and the main run loop runs what is queued; the user need not act.
Fairness == WF_vars(RecordingEnds) /\ WF_vars(audioPlayerDidFinishPlaying)

FairSpec == Spec /\ Fairness

-----------------------------------------------------------------------------
\* Properties

\* Whatever is chosen, tapped and closed meanwhile, the line that is heard is the
\* one the strip was scrolled to, or the strip shows the line chosen last.  The
\* exception is what still sounds after the strip was emptied under it
\* (didTapCreateButton) until Start loads a line of the new conversation.
HeardIsShown ==
  sounding /\ started =>
    /\ centred \in 0 .. Len(dialogues) - 1
    /\ audio = dialogues[centred + 1] \/ centred = Len(dialogues) - 1

\* Once the start button is left alone the player falls silent, also when the
\* composer is closed, opened again and filled while it plays.
FallsSilent == []<>Quiet \/ []<><<TapStart>>_vars

\* README.md, "④ 会話が完成したら、再生して確認をする": the first time a
\* finished conversation is played, it is played from its first line.
ReviewBeginsAtTheTop == [][Quiet /\ ~started /\ sounding' => audio' = dialogues[1]]_vars

=============================================================================
