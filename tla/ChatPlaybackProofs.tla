-------------------------- MODULE ChatPlaybackProofs --------------------------
(***************************************************************************)
(* Proofs about ChatPlayback, for conversations of every length and every  *)
(* screen.                                                                 *)
(***************************************************************************)
EXTENDS ChatPlayback, TLAPS

\* Before the opening timer nothing has happened yet.
Fresh ==
  phase = "presenting" =>
    /\ Quiet /\ ~overtaken /\ ~isPlaying
    /\ line = Silent /\ playNum = 0 /\ pulse = {} /\ image = "square"

\* While no tap has overtaken a callback: at most one of "plays" and "has just
\* ended" holds, silence means rewound, and stopping really stopped.
Orderly ==
  ~overtaken =>
    /\ ~(sounding /\ finishing)
    /\ Quiet \/ phase = "shown"
    /\ phase = "shown" /\ Quiet => playNum = 0
    /\ phase = "shown" /\ isPlaying => Quiet

\* Once a line was loaded it is a line, and it stays loaded.
Inv ==
  /\ TypeOK
  /\ Fresh
  /\ Orderly
  /\ HeardIsPlayNum
  /\ ButtonTellsTheTruth
  /\ PulseMarksSpeaker

LEMMA LineFacts ==
  /\ 0 \in Lines
  /\ Silent \notin Lines
  /\ \A n \in Lines : n \in Nat /\ n + 1 \in Nat
  /\ \A n \in Nat : n < NumLines => n \in Lines
  /\ \A n : CellAt(n) \subseteq visible
  BY LinesAssumption DEF Lines, CellAt

LEMMA InitInv == Init => Inv
<1> SUFFICES ASSUME Init PROVE Inv
  OBVIOUS
<1>1. TypeOK
  BY LineFacts DEF Init, TypeOK
<1>2. Fresh /\ Orderly /\ HeardIsPlayNum
  BY DEF Init, Fresh, Orderly, HeardIsPlayNum, Quiet
<1>3. ButtonTellsTheTruth /\ PulseMarksSpeaker
  BY DEF Init, ButtonTellsTheTruth, PulseMarksSpeaker
<1> QED
  BY <1>1, <1>2, <1>3 DEF Inv

LEMMA NextInv == Inv /\ [Next]_vars => Inv'
<1> SUFFICES ASSUME Inv, [Next]_vars PROVE Inv'
  OBVIOUS
<1> USE DEF Inv, Quiet, scrollVars
<1>1. CASE OpeningTimer
  <2>1. TypeOK'
    BY <1>1, LineFacts DEF OpeningTimer, Load, TypeOK, Fresh
  <2>2. Fresh' /\ Orderly' /\ HeardIsPlayNum' /\ ButtonTellsTheTruth'
    BY <1>1 DEF OpeningTimer, Load, Fresh, Orderly, HeardIsPlayNum, ButtonTellsTheTruth
  <2>3. PulseMarksSpeaker'
    BY <1>1 DEF OpeningTimer, Load, CellAt, Fresh, PulseMarksSpeaker
  <2> QED
    BY <2>1, <2>2, <2>3
<1>2. CASE RecordingEnds
  <2>1. TypeOK'
    BY <1>2 DEF RecordingEnds, TypeOK
  <2>2. Fresh' /\ Orderly' /\ HeardIsPlayNum' /\ ButtonTellsTheTruth'
    BY <1>2 DEF RecordingEnds, Fresh, Orderly, HeardIsPlayNum, ButtonTellsTheTruth
  <2>3. PulseMarksSpeaker'
    BY <1>2 DEF RecordingEnds, PulseMarksSpeaker
  <2> QED
    BY <2>1, <2>2, <2>3
<1>3. CASE audioPlayerDidFinishPlaying
  <2>0. NextLine \/ Over
    BY <1>3 DEF audioPlayerDidFinishPlaying
  <2>1. TypeOK'
    <3>1. playNum' \in Lines /\ line' \in Lines \cup {Silent}
      BY <2>0, LineFacts DEF NextLine, Over, Load, TypeOK
    <3>2. pulse' \subseteq visible' /\ missed' \subseteq Lines
      BY <1>3, <2>0, LineFacts, LinesAssumption
         DEF CellAt, audioPlayerDidFinishPlaying, PassPulse, NextLine, Over, TypeOK
    <3>3. sounding' \in BOOLEAN /\ image' \in {"start", "square"}
      BY <2>0 DEF NextLine, Over, Load, TypeOK
    <3> QED
      BY <1>3, <3>1, <3>2, <3>3 DEF audioPlayerDidFinishPlaying, TypeOK
  <2>2. CASE NextLine
    <3>1. Fresh' /\ Orderly' /\ HeardIsPlayNum' /\ ButtonTellsTheTruth'
      BY <1>3, <2>2 DEF audioPlayerDidFinishPlaying, NextLine, Load, Fresh, Orderly,
         HeardIsPlayNum, ButtonTellsTheTruth
    <3>2. /\ ~Quiet' /\ phase' = phase /\ missed' = missed /\ playNum' = playNum + 1
          /\ strayed' <=> strayed
      BY <1>3, <2>2 DEF audioPlayerDidFinishPlaying, NextLine, Load
    <3>3. pulse' \subseteq (pulse \ CellAt(playNum)) \cup {playNum + 1}
      BY <1>3 DEF audioPlayerDidFinishPlaying, PassPulse, CellAt
    <3>4. PulseMarksSpeaker'
      BY <3>2, <3>3 DEF PulseMarksSpeaker, CellAt, TypeOK
    <3> QED
      BY <2>1, <3>1, <3>4
  <2>3. CASE Over
    <3>1. Fresh' /\ Orderly' /\ HeardIsPlayNum' /\ ButtonTellsTheTruth'
      BY <1>3, <2>3 DEF audioPlayerDidFinishPlaying, Over, Fresh, Orderly,
         HeardIsPlayNum, ButtonTellsTheTruth
    <3>2. /\ phase' = phase /\ missed' = missed \cup CellAt(playNum + 1)
          /\ strayed' <=> strayed
      BY <1>3, <2>3 DEF audioPlayerDidFinishPlaying, Over
    <3>3. pulse' \subseteq (pulse \ CellAt(playNum)) \cup CellAt(playNum + 1)
      BY <1>3 DEF audioPlayerDidFinishPlaying, PassPulse
    <3>4. PulseMarksSpeaker'
      BY <3>2, <3>3 DEF PulseMarksSpeaker, CellAt, TypeOK
    <3> QED
      BY <2>1, <3>1, <3>4
  <2> QED
    BY <2>0, <2>2, <2>3
<1>4. CASE TapStop
  <2>1. TypeOK'
    BY <1>4, LineFacts DEF TapStop, Stop, Overtake, TypeOK
  <2>2. Fresh' /\ Orderly' /\ HeardIsPlayNum' /\ ButtonTellsTheTruth'
    BY <1>4 DEF TapStop, Stop, Overtake, Fresh, Orderly, HeardIsPlayNum,
       ButtonTellsTheTruth
  <2>3. PulseMarksSpeaker'
    BY <1>4 DEF TapStop, CellAt, TypeOK, PulseMarksSpeaker
  <2> QED
    BY <2>1, <2>2, <2>3
<1>5. CASE TapStart
  <2>1. TypeOK'
    BY <1>5, LineFacts DEF TapStart, Load, Overtake, TypeOK
  <2>2. CASE Load(playNum) /\ pulse' = pulse \cup CellAt(playNum) /\ image' = "square"
    <3>1. ~Quiet' /\ line' = playNum' /\ phase' = "shown" /\ ~isPlaying'
      BY <1>5, <2>2 DEF TapStart, Load, TypeOK
    <3>2. ~overtaken' => ~overtaken /\ ~finishing /\ ~finishing'
      BY <1>5 DEF TapStart, Overtake
    <3>3. Fresh' /\ Orderly' /\ HeardIsPlayNum' /\ ButtonTellsTheTruth'
      BY <2>2, <3>1, <3>2 DEF Fresh, Orderly, HeardIsPlayNum, ButtonTellsTheTruth
    <3>4. PulseMarksSpeaker'
      BY <1>5, <2>2, <3>1 DEF TapStart, CellAt, PulseMarksSpeaker
    <3> QED
      BY <2>1, <3>3, <3>4
  <2>3. CASE UNCHANGED <<line, sounding, pulse, image, finishing>>
    <3>1. /\ phase = "shown" /\ isPlaying /\ ~isPlaying'
          /\ UNCHANGED <<phase, playNum, missed>> /\ (strayed' <=> strayed)
      BY <1>5 DEF TapStart
    <3>2. ~overtaken' => ~overtaken
      BY <1>5 DEF TapStart, Overtake
    <3>3. Fresh' /\ Orderly' /\ HeardIsPlayNum' /\ ButtonTellsTheTruth'
      BY <2>3, <3>1, <3>2 DEF Fresh, Orderly, HeardIsPlayNum, ButtonTellsTheTruth
    <3>4. PulseMarksSpeaker'
      BY <2>3, <3>1 DEF PulseMarksSpeaker
    <3> QED
      BY <2>1, <3>3, <3>4
  <2> QED
    BY <1>5, <2>2, <2>3 DEF TapStart
<1>6. CASE didTapCloseButton
  BY <1>6 DEF didTapCloseButton, Overtake, TypeOK, Fresh, Orderly, HeardIsPlayNum,
     ButtonTellsTheTruth, PulseMarksSpeaker
<1>7. CASE Dismissed
  BY <1>7 DEF Dismissed, TypeOK, Fresh, Orderly, HeardIsPlayNum, ButtonTellsTheTruth,
     PulseMarksSpeaker
<1>8. CASE \E screen \in Screens : Scroll(screen)
  <2> PICK screen \in Screens : Scroll(screen)
    BY <1>8
  <2>1. TypeOK'
    BY DEF Scroll, TypeOK
  <2>2. Fresh' /\ Orderly' /\ HeardIsPlayNum' /\ ButtonTellsTheTruth'
    BY DEF Scroll, Fresh, Orderly, HeardIsPlayNum, ButtonTellsTheTruth
  <2>3. PulseMarksSpeaker'
    BY DEF Scroll, PulseMarksSpeaker, TypeOK
  <2> QED
    BY <2>1, <2>2, <2>3
<1>9. CASE \E n \in Lines : layoutSubviews(n)
  BY <1>9 DEF layoutSubviews, TypeOK, Fresh, Orderly, HeardIsPlayNum, ButtonTellsTheTruth,
     PulseMarksSpeaker
<1>10. CASE UNCHANGED vars
  BY <1>10 DEF vars, TypeOK, Fresh, Orderly, HeardIsPlayNum, ButtonTellsTheTruth,
     PulseMarksSpeaker
<1> QED
  BY <1>1, <1>2, <1>3, <1>4, <1>5, <1>6, <1>7, <1>8, <1>9, <1>10 DEF Next

LEMMA Invariance == Spec => []Inv
  BY InitInv, NextInv, PTL DEF Spec

\* Every variable keeps its type: playNum is an index of the conversation whatever
\* is tapped while a callback is queued, and only visible cells pulse.
THEOREM TypeCorrect == Spec => []TypeOK
<1>1. Inv => TypeOK
  BY DEF Inv
<1> QED
  BY Invariance, <1>1, PTL

\* Only the speaker's picture pulses, in conversations of every length.
THEOREM PulseCorrect == Spec => []PulseMarksSpeaker
<1>1. Inv => PulseMarksSpeaker
  BY DEF Inv
<1> QED
  BY Invariance, <1>1, PTL

\* The button shows what a tap is for, as long as no tap overtook a callback.
THEOREM ButtonCorrect == Spec => []ButtonTellsTheTruth
<1>1. Inv => ButtonTellsTheTruth
  BY DEF Inv
<1> QED
  BY Invariance, <1>1, PTL

\* What is heard is the line at playNum, as long as no tap overtook a callback.
THEOREM HeardCorrect == Spec => []HeardIsPlayNum
<1>1. Inv => HeardIsPlayNum
  BY DEF Inv
<1> QED
  BY Invariance, <1>1, PTL

-----------------------------------------------------------------------------
\* Refinement

\* What the listener hears: the refinement mapping of ImplementsRecital.
Heard == IF Quiet \/ overtaken THEN Silent ELSE line

LEMMA InitRecital == Init => Promise!Init
  BY DEF Init, Promise!Init, Quiet

LEMMA NextRecital == Inv /\ [Next]_vars => [Promise!Next]_Heard
<1> SUFFICES ASSUME Inv, [Next]_vars
             PROVE  \/ Heard' = Heard
                    \/ Heard = Silent /\ 0 < NumLines /\ Heard' = 0
                    \/ Heard # Silent /\ Heard + 1 < NumLines /\ Heard' = Heard + 1
                    \/ Heard' = Silent
  BY DEF Heard, Promise!Next, Promise!Begin, Promise!GoOn, Promise!FallSilent
<1> USE DEF Inv
<1>1. CASE overtaken'
  BY <1>1 DEF Heard
<1>2. CASE ~overtaken' /\ OpeningTimer
  BY <1>2, LinesAssumption DEF OpeningTimer, Load, Fresh, Heard, Quiet
<1>3. CASE ~overtaken' /\ RecordingEnds
  BY <1>3 DEF RecordingEnds, Heard, Quiet
<1>4. CASE ~overtaken' /\ audioPlayerDidFinishPlaying
  <2>1. finishing /\ ~finishing' /\ ~overtaken /\ ~sounding
    BY <1>4 DEF audioPlayerDidFinishPlaying, Orderly
  <2>2. Heard = playNum /\ playNum # Silent
    BY <2>1, LineFacts DEF Heard, HeardIsPlayNum, Quiet, TypeOK
  <2>3. CASE NextLine
    BY <1>4, <2>2, <2>3 DEF NextLine, Load, Heard, Quiet
  <2>4. CASE Over
    BY <2>1, <2>4 DEF Over, Heard, Quiet
  <2> QED
    BY <1>4, <2>3, <2>4 DEF audioPlayerDidFinishPlaying
<1>5. CASE ~overtaken' /\ TapStop
  BY <1>5 DEF TapStop, Stop, Overtake, Heard, Quiet
<1>6. CASE ~overtaken' /\ TapStart
  <2>0. ~overtaken /\ ~finishing /\ phase = "shown" /\ isPlaying
    BY <1>6 DEF TapStart, Overtake
  <2>1. ~overtaken /\ ~finishing /\ ~finishing' /\ Quiet /\ playNum = 0
    <3>1. Quiet /\ playNum = 0
      BY <2>0 DEF Orderly
    <3>2. ~finishing'
      BY <1>6, <2>0 DEF TapStart, TypeOK
    <3> QED
      BY <2>0, <3>1, <3>2
  <2>2. Heard = Silent
    BY <2>1 DEF Heard
  <2>3. CASE Load(playNum)
    BY <1>6, <2>1, <2>2, <2>3 DEF Load, Heard, Quiet
  <2>4. CASE UNCHANGED sounding
    BY <2>1, <2>4 DEF Heard, Quiet
  <2> QED
    BY <1>6, <2>3, <2>4 DEF TapStart
<1>7. CASE ~overtaken' /\ didTapCloseButton
  BY <1>7 DEF didTapCloseButton, Overtake, Heard, Quiet
<1>8. CASE ~overtaken' /\ Dismissed
  BY <1>8 DEF Dismissed, Heard, Quiet
<1>9. CASE \/ \E screen \in Screens : Scroll(screen)
           \/ \E n \in Lines : layoutSubviews(n)
  BY <1>9 DEF Scroll, layoutSubviews, Heard, Quiet
<1>10. CASE UNCHANGED vars
  BY <1>10 DEF vars, Heard, Quiet
<1> QED
  BY <1>1, <1>2, <1>3, <1>4, <1>5, <1>6, <1>7, <1>8, <1>9, <1>10 DEF Next

\* The listener hears the lines in order, from the first on, none left out and
\* none twice, as long as no tap overtook a callback.
THEOREM RecitalImplemented == Spec => ImplementsRecital
  BY InitRecital, NextRecital, Invariance, PTL
     DEF Spec, ImplementsRecital, Promise!Spec, Heard

=============================================================================
