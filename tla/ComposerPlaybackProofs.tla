------------------------ MODULE ComposerPlaybackProofs ------------------------
(***************************************************************************)
(* HeardIsShown and TypeOK, for any set of lines and conversations of any  *)
(* length.                                                                 *)
(*                                                                         *)
(* What makes it inductive is Prefix: once Start has loaded a line of the  *)
(* present conversation, the recordings it took are a prefix of the strip, *)
(* because the strip only grows until it is emptied.  So whatever index    *)
(* the callback loads, it is the recording of the item it scrolls to.      *)
(***************************************************************************)
EXTENDS ComposerPlayback, TLAPS

Types ==
  /\ dialogues \in Seq(Dialogue)
  /\ selectedAudios \in Seq(Dialogue)
  /\ playNum \in Nat
  /\ centred \in Int

Prefix ==
  started =>
    /\ Len(selectedAudios) <= Len(dialogues)
    /\ \A i \in 1 .. Len(selectedAudios) : selectedAudios[i] = dialogues[i]

Inv == Types /\ Prefix /\ HeardIsShown

LEMMA InitInv == Init => Inv
BY DEF Init, Inv, Types, Prefix, HeardIsShown

\* Loading an index of recordings that are a prefix of the strip shows the line.
LEMMA LoadShows ==
  ASSUME NEW audios \in Seq(Dialogue), NEW n \in Nat, Types, Load(audios, n),
         UNCHANGED dialogues,
         Len(audios) <= Len(dialogues),
         \A i \in 1 .. Len(audios) : audios[i] = dialogues[i]
  PROVE  centred' \in 0 .. Len(dialogues') - 1 /\ audio' = dialogues'[centred' + 1]
<1>1. n + 1 \in 1 .. Len(audios)  BY DEF Load
<1>2. Len(dialogues) \in Nat /\ Len(audios) \in Nat  BY DEF Types
<1>. QED  BY <1>1, <1>2 DEF Load, Types

LEMMA NextInv == Inv /\ [Next]_vars => Inv'
<1>. SUFFICES ASSUME Inv, [Next]_vars PROVE Inv'
  OBVIOUS
<1>. USE DEF Inv
<1>1. ASSUME NEW l \in Dialogue, SelectDialogue(l) PROVE Inv'
  <2>1. /\ dialogues' = Append(dialogues, l)
        /\ centred' = Len(dialogues)
        /\ Len(dialogues') = Len(dialogues) + 1
        /\ \A i \in 1 .. Len(dialogues) : dialogues'[i] = dialogues[i]
    BY <1>1 DEF SelectDialogue, Show, Types
  <2>2. UNCHANGED <<selectedAudios, playNum, audio, sounding, started>>
    BY <1>1 DEF SelectDialogue, player
  <2>3. Types'
    BY <2>1, <2>2 DEF Types
  <2>4. Prefix'
    BY <2>1, <2>2 DEF Prefix, Types
  <2>5. HeardIsShown'
    BY <2>1, <2>2 DEF HeardIsShown, Types
  <2>. QED  BY <2>3, <2>4, <2>5
<1>2. CASE Close
  BY <1>2 DEF Close, player, Types, Prefix, HeardIsShown
<1>3. CASE OpenAgain
  BY <1>3 DEF OpenAgain, Show, player, Types, Prefix, HeardIsShown
<1>4. CASE TapStart
  <2>1. UNCHANGED <<dialogues, playNum>> /\ selectedAudios' = dialogues
    BY <1>4 DEF TapStart, TakenAudios
  <2>2. Prefix'
    BY <2>1 DEF Prefix, Types
  <2>3. CASE Load(TakenAudios, playNum)
    <3>1. centred' \in 0 .. Len(dialogues') - 1 /\ audio' = dialogues'[centred' + 1]
      BY <2>1, <2>3, LoadShows DEF TakenAudios, Types
    <3>2. Types'
      BY <2>1, <2>3 DEF Types, Load
    <3>. QED  BY <2>2, <3>1, <3>2 DEF HeardIsShown
  <2>4. CASE UNCHANGED <<audio, centred, sounding, finishing, started>>
    BY <2>1, <2>2, <2>4 DEF Types, HeardIsShown
  <2>. QED  BY <1>4, <2>3, <2>4 DEF TapStart
<1>5. CASE RecordingEnds
  BY <1>5 DEF RecordingEnds, Types, Prefix, HeardIsShown
<1>6. CASE audioPlayerDidFinishPlaying
  <2>1. UNCHANGED <<dialogues, selectedAudios, started>> /\ playNum' = playNum + 1
    BY <1>6 DEF audioPlayerDidFinishPlaying, Advance
  <2>2. Prefix'
    BY <2>1 DEF Prefix
  <2>3. CASE Load(selectedAudios, playNum')
    <3>1. Types'
      BY <2>1, <2>3 DEF Types, Load
    <3>2. started' => /\ centred' \in 0 .. Len(dialogues') - 1
                      /\ audio' = dialogues'[centred' + 1]
      BY <2>1, <2>3, LoadShows DEF Types, Prefix
    <3>. QED  BY <2>2, <3>1, <3>2 DEF HeardIsShown
  <2>4. CASE UNCHANGED <<audio, centred, sounding>>
    BY <2>1, <2>2, <2>4 DEF Types, HeardIsShown
  <2>. QED  BY <1>6, <2>3, <2>4 DEF audioPlayerDidFinishPlaying
<1>7. CASE UNCHANGED vars
  BY <1>7 DEF vars, player, Types, Prefix, HeardIsShown
<1>. QED  BY <1>1, <1>2, <1>3, <1>4, <1>5, <1>6, <1>7 DEF Next

\* Whatever is chosen, tapped and closed meanwhile, the line that is heard is the
\* one the strip shows, or the strip shows the line chosen last.
THEOREM HeardCorrect == Spec => []HeardIsShown
<1>1. Spec => []Inv  BY InitInv, NextInv, PTL DEF Spec
<1>2. Inv => HeardIsShown  BY DEF Inv
<1>. QED  BY <1>1, <1>2, PTL

-----------------------------------------------------------------------------
\* playNum is never reset: only the recordings taken bound it.  What sounds was
\* loaded below the bound, its end counts once more, and a callback left over from
\* a replaced player counts while the recording that replaced it still sounds.
Counted ==
  /\ sounding /\ finishing => playNum < MaxChosen
  /\ sounding \/ finishing => playNum <= MaxChosen

BoundInv == TypeOK /\ Counted

LEMMA ConversationFacts ==
  ASSUME NEW s \in Conversation
  PROVE  s \in Seq(Dialogue) /\ Len(s) \in Nat /\ Len(s) <= MaxChosen
BY DEF Conversation

LEMMA BoundInit == Init => BoundInv
<1>. SUFFICES ASSUME Init PROVE BoundInv
  OBVIOUS
<1>1. <<>> \in Conversation
  BY ChosenAssumption DEF Conversation
<1>2. 0 \in 0 .. MaxChosen + 1 /\ -1 \in -1 .. MaxChosen - 1
  BY ChosenAssumption
<1>. QED  BY <1>1, <1>2 DEF Init, BoundInv, TypeOK, Counted

\* What is loaded is one of the recordings, and its index is below the bound.
LEMMA LoadBounded ==
  ASSUME NEW audios \in Conversation, NEW n \in Nat, Load(audios, n)
  PROVE  /\ n < MaxChosen
         /\ audio' \in Dialogue
         /\ centred' \in -1 .. MaxChosen - 1
         /\ sounding' = TRUE
<1>1. audios \in Seq(Dialogue) /\ Len(audios) \in Nat /\ Len(audios) <= MaxChosen
  BY ConversationFacts
<1>2. n + 1 \in 1 .. Len(audios)
  BY <1>1 DEF Load
<1>3. audios[n + 1] \in Dialogue
  BY <1>1, <1>2
<1>. QED  BY <1>1, <1>2, <1>3, ChosenAssumption DEF Load

LEMMA BoundNext == BoundInv /\ [Next]_vars => BoundInv'
<1>. SUFFICES ASSUME BoundInv, [Next]_vars PROVE BoundInv'
  OBVIOUS
<1>. USE ChosenAssumption DEF BoundInv
<1>1. ASSUME NEW l \in Dialogue, SelectDialogue(l) PROVE BoundInv'
  <2>1. dialogues \in Seq(Dialogue) /\ Len(dialogues) \in Nat
    BY ConversationFacts DEF TypeOK
  <2>2. /\ dialogues' = Append(dialogues, l)
        /\ centred' = Len(dialogues') - 1
        /\ Len(dialogues) < MaxChosen
        /\ UNCHANGED <<open, player, started>>
    BY <1>1 DEF SelectDialogue, Show
  <2>3. dialogues' \in Seq(Dialogue) /\ Len(dialogues') = Len(dialogues) + 1
    BY <2>1, <2>2
  <2>4. dialogues' \in Conversation /\ centred' \in -1 .. MaxChosen - 1
    BY <2>1, <2>2, <2>3 DEF Conversation
  <2>. QED  BY <2>2, <2>4 DEF player, TypeOK, Counted
<1>2. CASE Close
  BY <1>2 DEF Close, player, TypeOK, Counted
<1>3. CASE OpenAgain
  <2>1. dialogues' \in Conversation /\ centred' \in -1 .. MaxChosen - 1
    BY <1>3 DEF OpenAgain, Show, Conversation
  <2>. QED  BY <1>3, <2>1 DEF OpenAgain, player, TypeOK, Counted
<1>4. CASE TapStart
  <2>1. /\ selectedAudios' = dialogues
        /\ UNCHANGED <<open, dialogues, playNum>>
    BY <1>4 DEF TapStart, TakenAudios
  <2>2. CASE Load(TakenAudios, playNum) /\ finishing' \in {finishing, FALSE} /\ started'
    <3>0. dialogues \in Conversation /\ playNum \in Nat /\ Load(dialogues, playNum)
      BY <2>2 DEF TakenAudios, TypeOK
    <3>1. playNum < MaxChosen /\ audio' \in Dialogue /\ centred' \in -1 .. MaxChosen - 1
      BY <3>0, LoadBounded
    <3>2. sounding' \in BOOLEAN /\ finishing' \in BOOLEAN /\ started' \in BOOLEAN
      BY <1>4 DEF TapStart, Load, TypeOK
    <3>. QED  BY <2>1, <3>1, <3>2 DEF TypeOK, Counted
  <2>3. CASE UNCHANGED <<audio, centred, sounding, finishing, started>>
    BY <2>1, <2>3 DEF TypeOK, Counted
  <2>. QED  BY <1>4, <2>2, <2>3 DEF TapStart
<1>5. CASE RecordingEnds
  BY <1>5 DEF RecordingEnds, TypeOK, Counted
<1>6. CASE audioPlayerDidFinishPlaying
  <2>1. /\ finishing /\ finishing' = FALSE
        /\ playNum' = playNum + 1
        /\ UNCHANGED <<open, dialogues, selectedAudios, started>>
    BY <1>6 DEF audioPlayerDidFinishPlaying, Advance
  <2>2. playNum' \in 0 .. MaxChosen + 1 /\ (sounding => playNum' <= MaxChosen)
    BY <2>1 DEF TypeOK, Counted
  <2>3. CASE Load(selectedAudios, playNum')
    <3>0. selectedAudios \in Conversation /\ playNum' \in Nat
      BY <2>2 DEF TypeOK
    <3>1. /\ playNum' < MaxChosen /\ audio' \in Dialogue /\ centred' \in -1 .. MaxChosen - 1
          /\ sounding' = TRUE
      BY <2>3, <3>0, LoadBounded
    <3>2. TypeOK'
      BY <2>1, <2>2, <3>1 DEF TypeOK
    <3>3. Counted'
      BY <2>1, <3>1 DEF Counted
    <3>. QED  BY <3>2, <3>3
  <2>4. CASE UNCHANGED <<audio, centred, sounding>>
    BY <2>1, <2>2, <2>4 DEF TypeOK, Counted
  <2>. QED  BY <1>6, <2>3, <2>4 DEF audioPlayerDidFinishPlaying
<1>7. CASE UNCHANGED vars
  BY <1>7 DEF vars, player, TypeOK, Counted
<1>. QED  BY <1>1, <1>2, <1>3, <1>4, <1>5, <1>6, <1>7 DEF Next

\* Every variable keeps its type.  The part that could fail: playNum, which nothing
\* resets and every delivered callback increments, never passes the longest
\* conversation by more than one, and the strip is never scrolled past it.
THEOREM TypeCorrect == Spec => []TypeOK
<1>1. Spec => []BoundInv  BY BoundInit, BoundNext, PTL DEF Spec
<1>2. BoundInv => TypeOK  BY DEF BoundInv
<1>. QED  BY <1>1, <1>2, PTL

=============================================================================
