----------------------------- MODULE ChatPlayback -----------------------------
(***************************************************************************)
(* ChatViewController and its audio extension: the screen that plays a     *)
(* registered conversation aloud, line after line, and makes the picture   *)
(* of whoever speaks pulse.                                                *)
(*                                                                         *)
(* Three parties act: the listener (the start/stop button and the close    *)
(* button), the audio player, which reports the end of a recording by a    *)
(* callback queued on the main run loop, and the network, since each line  *)
(* is fetched when its turn comes and may fail to load.  A tap may be      *)
(* handled between the end of a recording and its callback.                *)
(*                                                                         *)
(* The opening timer (0.25 s) fires while Hero still presents the screen   *)
(* and has switched touches off, so it precedes every tap.                 *)
(*                                                                         *)
(* The pulse is a layer of a cell, and cells are reused for other lines    *)
(* when the listener scrolls.                                              *)
(***************************************************************************)
EXTENDS Naturals

CONSTANTS
  NumLines,  \* lines of the conversation (audioUrls.count)
  Screens,   \* the sets of lines whose cells can be on the screen together
  Silent     \* stands for: nothing is heard, no recording loaded

Lines == 0 .. NumLines - 1

ASSUME LinesAssumption ==
  /\ NumLines \in Nat \ {0}
  /\ Screens \subseteq SUBSET Lines
  /\ Silent \notin Nat

VARIABLES
  phase,      \* presenting, shown, closing (close tapped), closed
  isPlaying,  \* toggled by the button: TRUE once the listener has stopped it
  playNum,    \* the line whose turn it is
  line,       \* the line loaded into `audio', or Silent
  sounding,   \* `audio' is playing
  finishing,  \* the end of a recording is queued, audioPlayerDidFinishPlaying not run
  visible,    \* lines with a cell on the screen
  pulse,      \* those of them whose cell shows its pulse layer
  image,      \* picture of the button: start or square (stop)
  missed,     \* history: lines that began to pulse and then could not be loaded
  overtaken,  \* history: a tap was handled while a callback was queued
  strayed     \* history: a cell left the screen with its pulse layer shown

scrollVars == <<visible, strayed>>
vars == <<phase, isPlaying, playNum, line, sounding, finishing, pulse, image,
          missed, overtaken, scrollVars>>

TypeOK ==
  /\ phase \in {"presenting", "shown", "closing", "closed"}
  /\ isPlaying \in BOOLEAN
  /\ playNum \in Lines
  /\ line \in Lines \cup {Silent}
  /\ sounding \in BOOLEAN
  /\ finishing \in BOOLEAN
  /\ visible \in Screens
  /\ pulse \subseteq visible
  /\ image \in {"start", "square"}
  /\ missed \subseteq Lines
  /\ {overtaken, strayed} \subseteq BOOLEAN

Init ==
  /\ phase = "presenting"
  /\ isPlaying = FALSE
  /\ playNum = 0
  /\ line = Silent
  /\ sounding = FALSE
  /\ finishing = FALSE
  /\ visible \in {s \in Screens : 0 \in s}
  /\ pulse = {}
  /\ image = "square"
  /\ missed = {}
  /\ overtaken = FALSE
  /\ strayed = FALSE

-----------------------------------------------------------------------------
\* Helpers

\* startPulseAnimation and stopPulseAnimation do nothing without a visible cell.
CellAt(n) == {n} \cap visible

\* prepareAudio(num: n) and play(): the line is fetched and replaces the player.
Load(n) == n < NumLines /\ line' = n /\ sounding' = TRUE

-----------------------------------------------------------------------------
\* The opening timer

OpeningTimer ==
  /\ phase = "presenting"
  /\ phase' = "shown"
  /\ \/ /\ Load(playNum)
        /\ pulse' = pulse \cup CellAt(playNum)
     \/ UNCHANGED <<line, sounding, pulse>>
  /\ UNCHANGED <<isPlaying, playNum, finishing, image, missed, overtaken,
                 scrollVars>>

-----------------------------------------------------------------------------
\* The audio player

\* A callback left over from a replaced player runs before the new recording ends.
RecordingEnds ==
  /\ sounding
  /\ ~finishing
  /\ sounding' = FALSE
  /\ finishing' = TRUE
  /\ UNCHANGED <<phase, isPlaying, playNum, line, pulse, image, missed, overtaken,
                 scrollVars>>

\* Fault: the line that was heard keeps its pulse.
AddPulse == pulse' = pulse \cup CellAt(playNum + 1)

\* The pulse passes on, before anyone knows whether the next line loads.
PassPulse == pulse' = (pulse \ CellAt(playNum)) \cup CellAt(playNum + 1)

\* Fault: playNum is not advanced.
SameLine ==
  /\ Load(playNum)
  /\ UNCHANGED <<playNum, image, missed>>

NextLine ==
  /\ Load(playNum + 1)
  /\ playNum' = playNum + 1
  /\ UNCHANGED <<image, missed>>

\* Fault: playNum stays behind the last line.
OverWithoutRewind ==
  /\ playNum' = playNum + 1
  /\ image' = "start"
  /\ missed' = missed \cup CellAt(playNum + 1)
  /\ UNCHANGED <<line, sounding>>

\* No next line, or one that does not load: over, and rewound.
Over ==
  /\ playNum' = 0
  /\ image' = "start"
  /\ missed' = missed \cup CellAt(playNum + 1)
  /\ UNCHANGED <<line, sounding>>

audioPlayerDidFinishPlaying ==
  /\ finishing
  /\ finishing' = FALSE
  /\ PassPulse
  /\ NextLine \/ Over
  /\ UNCHANGED <<phase, isPlaying, overtaken, scrollVars>>

-----------------------------------------------------------------------------
\* The listener

Overtake == overtaken' = (overtaken \/ finishing)

\* Fault: stopping leaves the button as it is.
StopSound == sounding' = FALSE /\ playNum' = 0 /\ UNCHANGED image

\* Fault: stopping keeps the place, as a pause would.
Pause == sounding' = FALSE /\ image' = "start" /\ UNCHANGED playNum

Stop == sounding' = FALSE /\ image' = "start" /\ playNum' = 0

\* didTapStartButton when isPlaying.toggle() gives TRUE: stop and rewind.  A
\* callback that is already queued stays queued.
TapStop ==
  /\ phase = "shown"
  /\ ~isPlaying
  /\ isPlaying' = TRUE
  /\ Stop
  /\ pulse' = pulse \ CellAt(playNum)
  /\ Overtake
  /\ UNCHANGED <<phase, line, finishing, missed, scrollVars>>

\* didTapStartButton when it gives FALSE: play, if the line loads.  The queued
\* callback of the player that is replaced may or may not be delivered.
TapStart ==
  /\ phase = "shown"
  /\ isPlaying
  /\ isPlaying' = FALSE
  /\ \/ /\ Load(playNum)
        /\ pulse' = pulse \cup CellAt(playNum)
        /\ image' = "square"
        /\ finishing' \in {finishing, FALSE}
     \/ UNCHANGED <<line, sounding, pulse, image, finishing>>
  /\ Overtake
  /\ UNCHANGED <<phase, playNum, missed, scrollVars>>

didTapCloseButton ==
  /\ phase = "shown"
  /\ phase' = "closing"
  /\ sounding' = FALSE
  /\ Overtake
  /\ UNCHANGED <<isPlaying, playNum, line, finishing, pulse, image, missed,
                 scrollVars>>

\* The dismissal ends.  The controller and its player stay: topView is theirs and
\* holds them as its delegate, so a queued callback still plays the next line.
Dismissed ==
  /\ phase = "closing"
  /\ phase' = "closed"
  /\ UNCHANGED <<isPlaying, playNum, line, sounding, finishing, pulse, image, missed,
                 overtaken, scrollVars>>

-----------------------------------------------------------------------------
\* The cells

\* Other lines come into view.  The cell of a line that goes is kept for reuse
\* as it is: cellForItemAt changes picture and text only.  Whether a line gets
\* such a cell, and whether it is laid out again, is UIKit's affair.
Scroll(screen) ==
  /\ phase = "shown"
  /\ screen # visible
  /\ visible' = screen
  /\ strayed' = (strayed \/ pulse \ screen # {})
  /\ \E reused \in SUBSET (screen \ visible) :
       /\ reused # {} => strayed'
       /\ pulse' = (pulse \cap screen) \cup reused
  /\ UNCHANGED <<phase, isPlaying, playNum, line, sounding, finishing, image, missed,
                 overtaken>>

\* UIKit lays out a cell on the screen; the layer is hidden.
layoutSubviews(n) ==
  /\ n \in pulse
  /\ pulse' = pulse \ {n}
  /\ UNCHANGED <<phase, isPlaying, playNum, line, sounding, finishing, image, missed,
                 overtaken, scrollVars>>

-----------------------------------------------------------------------------

Next ==
  \/ OpeningTimer \/ RecordingEnds \/ audioPlayerDidFinishPlaying
  \/ TapStop \/ TapStart \/ didTapCloseButton \/ Dismissed
  \/ \E screen \in Screens : Scroll(screen)
  \/ \E n \in Lines : layoutSubviews(n)

Spec == Init /\ [][Next]_vars

\* The timer fires, recordings end, the main run loop runs what is queued.  The
\* listener need not do anything.
Fairness ==
  /\ WF_vars(OpeningTimer)
  /\ WF_vars(RecordingEnds)
  /\ WF_vars(audioPlayerDidFinishPlaying)
  /\ WF_vars(Dismissed)

FairSpec == Spec /\ Fairness

-----------------------------------------------------------------------------
\* Properties

Quiet == ~sounding /\ ~finishing

\* Only the picture of the line whose turn it is pulses, and none while nothing
\* is heard, in every interleaving of taps, callbacks and scrolling.  There are
\* two exceptions: lines that could not be loaded after they began to pulse, and
\* whatever happens after a pulsing cell was scrolled away, since nobody hides
\* its layer.
PulseMarksSpeaker ==
  phase = "shown" /\ ~strayed =>
    /\ pulse \subseteq missed \cup {playNum}
    /\ Quiet => pulse \subseteq missed

\* Unless a tap overtook a callback, the button offers to start exactly when
\* nothing is heard; a conversation whose first line never loaded shows "stop".
ButtonTellsTheTruth ==
  phase = "shown" /\ ~overtaken =>
    /\ image = "start" => Quiet
    /\ image = "square" => ~Quiet \/ line = Silent

\* Unless a tap overtook a callback, what is heard is the line at playNum.
HeardIsPlayNum == ~Quiet /\ ~overtaken => line = playNum

\* A conversation that is being heard ends by itself, also when a queued callback
\* lets it go on after the screen was closed.  Only on an open screen a listener
\* whose taps overtake callbacks may start it over and over.
FallsSilent == ~Quiet ~> Quiet \/ (overtaken /\ phase = "shown")

\* The listener hears the lines from the first on, in order, none left out and
\* none twice, unless a tap overtook a callback.
Promise == INSTANCE Recital WITH
  heard <- IF Quiet \/ overtaken THEN Silent ELSE line
ImplementsRecital == Promise!Spec

=============================================================================
