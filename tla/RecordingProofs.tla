----------------------------- MODULE RecordingProofs -----------------------------
(***************************************************************************)
(* Proofs about recording and transcription, for any number of pages, of   *)
(* reused cells in a page, and of recordings.                              *)
(*                                                                         *)
(* That a corrected text stays needs to know that nothing of the           *)
(* recognition is left: no task and no result on its way (CorrectionInv).  *)
(*                                                                         *)
(* That the upload finds the recording stopped last is about one file all  *)
(* views write.  As long as no page was left or turned while it was busy,  *)
(* who records is the view on the screen and who registers is the page in  *)
(* front, so the file is of the recorder that runs or else the recording   *)
(* this page stopped last, in whichever of its cells (FileInv).            *)
(***************************************************************************)
EXTENDS Recording, TLAPS

\* What a recorder, a task or a result may be about.
Recorder == Take \cup {NoTake}

\* An edited text that stays: recording has stopped, and nothing is to come.
CorrectionInv ==
  \A v \in corrected :
    ~isStart[v] /\ task[v] = NoTake /\ queued[v] = NoTake /\ text[v].byHand

\* Where the sound of the file is from, as long as no busy page was left.
FileInv ==
  abandoned = {} =>
    /\ \A v \in View : isStart[v] => shown = v
    /\ \A p \in Page : registering[p].stage # "none" => front = p
    /\ \A p \in Page : p \notin opened => last[p] = NoTake
    /\ \A v \in View : audioRecorder[v] # NoTake => file = {audioRecorder[v]}
    /\ front \in Page /\ last[front] # NoTake =>
         file = {last[front]} \/ \E v \in View : audioRecorder[v] # NoTake
    /\ \A p \in Page : registering[p].stage # "none" /\ registering[p].last # NoTake =>
         registering[p].last = last[p] /\ \A v \in View : ~isStart[v]
    /\ \A line \in registered : line.last # NoTake => line.sound = {line.last}

\* The bounds are numbers.
LEMMA Bounds ==
  /\ MaxTakes \in Nat /\ MaxFailures \in Nat /\ MaxDismissals \in Nat /\ MaxCrashes \in Nat
  /\ NoPage \notin Page /\ NoView \notin View /\ NoTake \notin Take
  /\ PageOf \in [View -> Page] /\ \A p \in Page : \E v \in View : PageOf[v] = p
  BY RecordingAssumption DEF RecordingAssumption

-----------------------------------------------------------------------------
\* Types

\* What is there before anything was recorded.
LEMMA Nothing == NoText \in Text /\ NoJob \in Job
  BY DEF NoText, NoJob, Text, Url, Job

\* Before anything is opened.
LEMMA InitType == Init => TypeOK
  <1> SUFFICES ASSUME Init PROVE TypeOK
    OBVIOUS
  <1>0. /\ 0 \in 0 .. MaxTakes /\ 0 \in 0 .. MaxFailures
        /\ 0 \in 0 .. MaxDismissals /\ 0 \in 0 .. MaxCrashes
    BY Bounds
  <1>1. /\ text \in [View -> Text] /\ audioText \in [Page -> Text]
        /\ registering \in [Page -> Job]
    BY Nothing DEF Init
  <1>2. /\ audioUrl \in [Page -> Url] /\ count \in 0 .. MaxTakes
        /\ isStart \in [View -> BOOLEAN]
    BY <1>0 DEF Init, Url
  <1>3. /\ audioRecorder \in [View -> Recorder] /\ task \in [View -> Recorder]
        /\ queued \in [View -> Recorder] /\ last \in [Page -> Recorder]
        /\ \A v \in View : audioRecorder[v] = NoTake /\ task[v] = NoTake
    BY DEF Init, Recorder
  <1>4. /\ failures \in 0 .. MaxFailures /\ dismissals \in 0 .. MaxDismissals
        /\ crashes \in 0 .. MaxCrashes
    BY <1>0 DEF Init
  <1> QED BY <1>1, <1>2, <1>3, <1>4, Bounds DEF Init, TypeOK, Recorder

\* A recording begins, with or without a recorder and a recognizer.
LEMMA StartRecordType == ASSUME TypeOK, NEW v \in View, StartRecord(v) PROVE TypeOK'
  <1> DEFINE take == count + 1
  <1>1. take \in Take /\ take \in 0 .. MaxTakes
    BY Bounds DEF StartRecord, Take, TypeOK
  <1>2. \E t \in Recorder : task' = [task EXCEPT ![v] = t]
    BY <1>1 DEF StartRecord, startSpeech, Recorder
  <1>3. task' \in [View -> Recorder]
    BY <1>2 DEF TypeOK, Recorder
  <1>4. /\ audioRecorder' \in [View -> Recorder] /\ file' \subseteq Take
        /\ failures' \in 0 .. MaxFailures
        /\ \A w \in View \ {v} : audioRecorder'[w] = audioRecorder[w]
    BY <1>1, Bounds DEF StartRecord, startRecording, TypeOK, Recorder
  <1>5. /\ isStart' = [isStart EXCEPT ![v] = TRUE] /\ isStart' \in [View -> BOOLEAN]
        /\ count' \in 0 .. MaxTakes
    BY <1>1 DEF StartRecord, TypeOK
  <1>6. \A w \in View : ~isStart'[w] => audioRecorder'[w] = NoTake /\ task'[w] = NoTake
    BY <1>2, <1>4, <1>5 DEF TypeOK
  <1>7. /\ corrected' \subseteq View
        /\ UNCHANGED <<ended, queued, last, text, audioText, audioUrl, opened, front, shown,
                       abandoned, dismissals, registering, registered, crashes>>
    BY DEF StartRecord, startSpeech, TypeOK, pageVars, jobVars
  <1> QED BY <1>3, <1>4, <1>5, <1>6, <1>7 DEF TypeOK, Recorder

\* A recording ends, and nothing of it goes on.
LEMMA StopRecordType == ASSUME TypeOK, NEW v \in View, StopRecord(v) PROVE TypeOK'
  <1>1. /\ isStart' = [isStart EXCEPT ![v] = FALSE]
        /\ task' = [task EXCEPT ![v] = NoTake]
        /\ audioRecorder' = [audioRecorder EXCEPT ![v] = NoTake]
        /\ ended' = ended \cup {v}
        /\ last' = IF audioRecorder[v] = NoTake THEN last
                   ELSE [last EXCEPT ![PageOf[v]] = audioRecorder[v]]
        /\ audioText' = [audioText EXCEPT ![PageOf[v]] = text[v]]
        /\ audioUrl' = [audioUrl EXCEPT ![PageOf[v]] = "test.m4a"]
        /\ UNCHANGED <<queued, count, file, failures, text, corrected, opened, front, shown, abandoned,
                       dismissals, registering, registered, crashes>>
    BY DEF StopRecord, stopSpeech, stopRecording, audioInfo, pageVars, jobVars
  <1> QED BY <1>1, Bounds DEF TypeOK, Url

\* A result is queued.
LEMMA SpeechResultType == ASSUME TypeOK, NEW v \in View, SpeechResult(v) PROVE TypeOK'
  BY DEF SpeechResult, TypeOK, recordVars, textVars, pageVars, jobVars

\* A result replaces the text.
LEMMA ResultArrivesType == ASSUME TypeOK, NEW v \in View, ResultArrives(v) PROVE TypeOK'
  <1> DEFINE heard == [of |-> queued[v], byHand |-> FALSE]
  <1>1. heard \in Text
    BY DEF TypeOK, Text
  <1>2. /\ queued' = [queued EXCEPT ![v] = NoTake]
        /\ text' = [text EXCEPT ![v] = heard]
        /\ audioText' = [audioText EXCEPT ![PageOf[v]] = heard]
        /\ audioUrl' = [audioUrl EXCEPT ![PageOf[v]] = "test.m4a"]
        /\ UNCHANGED <<corrected, task, ended, recordVars, pageVars, jobVars, crashes>>
    BY DEF ResultArrives, audioInfo
  <1> HIDE DEF heard
  <1> QED BY <1>1, <1>2, Bounds DEF TypeOK, Url, recordVars, pageVars, jobVars

\* The user replaces the text.
LEMMA EditTextType == ASSUME TypeOK, NEW v \in View, EditText(v) PROVE TypeOK'
  <1> DEFINE edited == [of |-> text[v].of, byHand |-> TRUE]
  <1>1. edited \in Text
    BY DEF TypeOK, Text
  <1>2. /\ text' = [text EXCEPT ![v] = edited]
        /\ corrected' \subseteq View
        /\ audioText' = [audioText EXCEPT ![PageOf[v]] = edited]
        /\ audioUrl' = [audioUrl EXCEPT ![PageOf[v]] = "test.m4a"]
        /\ UNCHANGED <<recordVars, speechVars, pageVars, jobVars, crashes>>
    BY DEF EditText, audioInfo, TypeOK
  <1> HIDE DEF edited
  <1> QED BY <1>1, <1>2, Bounds DEF TypeOK, Url, recordVars, speechVars, pageVars, jobVars

\* A page is opened, turned or left.
LEMMA PagesType ==
  ASSUME TypeOK, \/ \E p \in Page : OpenPage(p)
                 \/ \E v \in View : TurnToThird(v)
                 \/ TurnAway \/ TapBack \/ ComposerDismissed
  PROVE TypeOK'
  <1>1. /\ opened' \subseteq Page /\ front' \in opened' \cup {NoPage}
        /\ shown' \in View \cup {NoView} /\ (shown' \in View => PageOf[shown'] = front')
        /\ abandoned' \subseteq Page /\ dismissals' \in 0 .. MaxDismissals
    <2>1. CASE \E p \in Page : OpenPage(p)
      BY <2>1, Bounds DEF OpenPage, Views, TypeOK
    <2>2. CASE \E v \in View : TurnToThird(v)
      BY <2>2 DEF TurnToThird, Uncovered, TypeOK
    <2>3. CASE TurnAway
      BY <2>3, Bounds DEF TurnAway, TypeOK
    <2>4. CASE TapBack \/ ComposerDismissed
      BY <2>4, Bounds DEF TapBack, ComposerDismissed, LeavePage, TypeOK
    <2> QED BY <2>1, <2>2, <2>3, <2>4
  <1>2. UNCHANGED <<recordVars, speechVars, textVars, jobVars, crashes>>
    BY DEF OpenPage, TurnToThird, TurnAway, TapBack, ComposerDismissed, LeavePage
  <1> QED BY <1>1, <1>2 DEF TypeOK, recordVars, speechVars, textVars, jobVars

\* A registration takes what the page was told.
LEMMA TapRegisterType == ASSUME TypeOK, NEW p \in Page, TapRegister(p) PROVE TypeOK'
  <1> DEFINE job == [stage |-> "running", text |-> audioText[p], url |-> audioUrl[p],
                     last |-> IF Recording(p) THEN NoTake ELSE last[p]]
  <1>1. job \in Job
    BY DEF TypeOK, Job
  <1>2. /\ registering' = [registering EXCEPT ![p] = job]
        /\ UNCHANGED <<registered, recordVars, speechVars, textVars, pageVars, crashes>>
    BY DEF TapRegister
  <1> HIDE DEF job
  <1> QED BY <1>1, <1>2 DEF TypeOK, recordVars, speechVars, textVars, pageVars

\* A registration is finished.
LEMMA RegistrationAnswersType ==
  ASSUME TypeOK, NEW p \in Page, RegistrationAnswers(p) PROVE TypeOK'
  <1> DEFINE job == registering[p]
             line == [page |-> p, text |-> job.text, sound |-> file, last |-> job.last]
  <1>1. job \in Job
    BY DEF TypeOK
  <1>2. line \in Line
    BY <1>1 DEF TypeOK, Job, Line
  <1>3. /\ registered' = registered \cup {line}
        /\ registering' = [registering EXCEPT ![p] = NoJob]
        /\ front' = IF front = p THEN NoPage ELSE front
        /\ shown' = IF front = p THEN NoView ELSE shown
        /\ abandoned' \subseteq Page
        /\ UNCHANGED <<opened, dismissals, recordVars, speechVars, textVars, crashes>>
    BY DEF RegistrationAnswers, TypeOK
  <1> HIDE DEF line, job
  <1>4. /\ front' \in opened' \cup {NoPage} /\ shown' \in View \cup {NoView}
        /\ (shown' \in View => PageOf[shown'] = front')
    BY <1>3, Bounds DEF TypeOK
  <1> QED BY <1>2, <1>3, <1>4, Nothing DEF TypeOK, recordVars, speechVars, textVars

\* A registration is never answered.
LEMMA RegistrationStallsType ==
  ASSUME TypeOK, NEW p \in Page, RegistrationStalls(p) PROVE TypeOK'
  <1>1. [registering[p] EXCEPT !.stage = "stuck"] \in Job
    BY DEF TypeOK, Job
  <1>2. /\ registering' = [registering EXCEPT ![p] = [registering[p] EXCEPT !.stage = "stuck"]]
        /\ UNCHANGED <<registered, recordVars, speechVars, textVars, pageVars, crashes>>
    BY DEF RegistrationStalls, TypeOK
  <1> QED BY <1>1, <1>2 DEF TypeOK, recordVars, speechVars, textVars, pageVars

\* The process ends and is launched again.
LEMMA RelaunchType == ASSUME TypeOK, Relaunch PROVE TypeOK'
  <1> QED BY Nothing, Bounds DEF Relaunch, TypeOK, textVars

\* Every step keeps the types.
LEMMA NextType == ASSUME TypeOK, [Next]_vars PROVE TypeOK'
  <1>1. CASE UNCHANGED vars
    BY <1>1 DEF vars, recordVars, speechVars, textVars, pageVars, jobVars, TypeOK
  <1> QED BY <1>1, StartRecordType, StopRecordType, SpeechResultType, ResultArrivesType,
             EditTextType, PagesType, TapRegisterType, RegistrationAnswersType,
             RegistrationStallsType, RelaunchType DEF Next

\* The types, and that a view which does not record has no recorder and no task
\* (RecordingView, didTapRecordButton).
THEOREM TypeCorrect == Spec => []TypeOK
  BY InitType, NextType, PTL DEF Spec

-----------------------------------------------------------------------------
\* The text

\* Whatever changes the text of a view tells it to the page in the same step.
LEMMA NextText == ASSUME TypeOK, PageKnowsText, [Next]_vars PROVE PageKnowsText'
  <1>1. CASE \E v \in View : StopRecord(v) \/ ResultArrives(v) \/ EditText(v)
    <2>1. PICK v \in View : StopRecord(v) \/ ResultArrives(v) \/ EditText(v)
      BY <1>1
    <2>2. PICK t : /\ audioText' = [audioText EXCEPT ![PageOf[v]] = t]
                   /\ text' = [text EXCEPT ![v] = t]
      <3>1. CASE StopRecord(v)
        <4>1. audioText' = [audioText EXCEPT ![PageOf[v]] = text[v]] /\ text' = text
          BY <3>1 DEF StopRecord, audioInfo
        <4>2. text' = [text EXCEPT ![v] = text[v]]
          BY <4>1 DEF TypeOK
        <4> QED BY <4>1, <4>2
      <3>2. CASE ResultArrives(v) \/ EditText(v)
        BY <3>2 DEF ResultArrives, EditText, audioInfo
      <3> QED BY <2>1, <3>1, <3>2
    <2>3. audioText'[PageOf[v]] = t /\ text'[v] = t
      BY <2>2, Bounds DEF TypeOK
    <2>4. ASSUME NEW p \in Page, p # PageOf[v] PROVE \E w \in Views(p) : audioText'[p] = text'[w]
      <3>1. PICK w \in Views(p) : audioText[p] = text[w]
        BY DEF PageKnowsText
      <3>2. w # v /\ audioText'[p] = audioText[p] /\ text'[w] = text[w]
        BY <2>2, <2>4, <3>1 DEF Views, TypeOK
      <3> QED BY <3>1, <3>2
    <2> QED BY <2>3, <2>4 DEF PageKnowsText, Views
  <1>2. CASE \/ \E v \in View : StartRecord(v) \/ SpeechResult(v) \/ TurnToThird(v)
             \/ \E p \in Page : \/ OpenPage(p) \/ TapRegister(p) \/ RegistrationAnswers(p)
                                \/ RegistrationStalls(p)
             \/ TurnAway \/ TapBack \/ ComposerDismissed \/ Relaunch \/ UNCHANGED vars
    <2>1. UNCHANGED <<text, audioText>>
      BY <1>2 DEF StartRecord, SpeechResult, TurnToThird, OpenPage, TapRegister,
                  RegistrationAnswers, RegistrationStalls, TurnAway, TapBack,
                  ComposerDismissed, LeavePage, Relaunch, vars, textVars
    <2> QED BY <2>1 DEF PageKnowsText, Views
  <1> QED BY <1>1, <1>2 DEF Next

\* What a page registers is at any time what one of its recording views shows:
\* what is on the screen in RegisterDialogueController, which has one, and maybe
\* the text of another cell in RegisterViewController (RecordingView, the calls
\* of audioInfo; RegisterViewController, cellForItemAt).
THEOREM PageKnowsTextCorrect == Spec => []PageKnowsText
  <1>1. Init => TypeOK /\ PageKnowsText
    <2>1. Init => /\ \A p \in Page : audioText[p] = NoText
                  /\ \A v \in View : text[v] = NoText
      BY DEF Init
    <2>2. \A p \in Page : \E v \in View : PageOf[v] = p
      BY Bounds
    <2> QED BY <2>1, <2>2, InitType DEF PageKnowsText, Views
  <1>2. TypeOK /\ PageKnowsText /\ [Next]_vars => TypeOK' /\ PageKnowsText'
    BY NextType, NextText
  <1> QED BY <1>1, <1>2, PTL DEF Spec

\* Nothing is left that could replace a corrected text: a stopped recognition
\* has no task, and its results came before the touch that stopped it.
LEMMA NextCorrection == ASSUME TypeOK, CorrectionInv, [Next]_vars PROVE CorrectionInv'
  <1> SUFFICES ASSUME NEW w \in corrected'
               PROVE ~isStart'[w] /\ task'[w] = NoTake /\ queued'[w] = NoTake /\ text'[w].byHand
    BY DEF CorrectionInv
  <1>0. corrected \subseteq View
    BY DEF TypeOK
  <1>1. CASE \E v \in View : StartRecord(v)
    <2>1. PICK v \in View : StartRecord(v)
      BY <1>1
    <2>2. /\ corrected' = corrected \ {v} /\ isStart' = [isStart EXCEPT ![v] = TRUE]
          /\ UNCHANGED <<queued, text>>
      BY <2>1 DEF StartRecord, startSpeech
    <2>3. \E t \in Recorder \cup {count + 1} : task' = [task EXCEPT ![v] = t]
      BY <2>1 DEF StartRecord, startSpeech, Recorder
    <2> QED BY <1>0, <2>2, <2>3 DEF CorrectionInv, TypeOK
  <1>2. CASE \E v \in View : StopRecord(v)
    <2>1. PICK v \in View : StopRecord(v)
      BY <1>2
    <2>2. /\ corrected' = corrected /\ isStart' = [isStart EXCEPT ![v] = FALSE]
          /\ task' = [task EXCEPT ![v] = NoTake]
          /\ UNCHANGED <<queued, text>>
      BY <2>1 DEF StopRecord, stopSpeech
    <2> QED BY <1>0, <2>2 DEF CorrectionInv, TypeOK
  <1>3. CASE \E v \in View : SpeechResult(v)
    <2>1. PICK v \in View : SpeechResult(v)
      BY <1>3
    <2>2. /\ task[v] # NoTake /\ queued' = [queued EXCEPT ![v] = task[v]]
          /\ UNCHANGED <<corrected, isStart, task, text>>
      BY <2>1 DEF SpeechResult, recordVars, textVars
    <2>3. w # v
      BY <2>2 DEF CorrectionInv
    <2> QED BY <1>0, <2>2, <2>3 DEF CorrectionInv, TypeOK
  <1>4. CASE \E v \in View : ResultArrives(v)
    <2>1. PICK v \in View : ResultArrives(v)
      BY <1>4
    <2>2. /\ queued[v] # NoTake /\ queued' = [queued EXCEPT ![v] = NoTake]
          /\ text' = [text EXCEPT ![v] = [of |-> queued[v], byHand |-> FALSE]]
          /\ UNCHANGED <<corrected, isStart, task>>
      BY <2>1 DEF ResultArrives, recordVars
    <2>3. w # v
      BY <2>2 DEF CorrectionInv
    <2> QED BY <1>0, <2>2, <2>3 DEF CorrectionInv, TypeOK
  <1>5. CASE \E v \in View : EditText(v)
    <2>1. PICK v \in View : EditText(v)
      BY <1>5
    <2>2. /\ isStart[v] \/ queued[v] = NoTake
          /\ text' = [text EXCEPT ![v] = [of |-> text[v].of, byHand |-> TRUE]]
          /\ corrected' = IF isStart[v] THEN corrected ELSE corrected \cup {v}
          /\ UNCHANGED <<isStart, task, queued>>
      BY <2>1 DEF EditText, Settled, recordVars, speechVars
    <2>3. ~isStart[v] => task[v] = NoTake
      BY DEF TypeOK
    <2>4. CASE w = v
      <3>1. ~isStart[v]
        BY <2>2, <2>4 DEF CorrectionInv
      <3>2. text'[v].byHand
        BY <2>2 DEF TypeOK
      <3> QED BY <2>2, <2>3, <2>4, <3>1, <3>2
    <2>5. CASE w # v
      BY <1>0, <2>2, <2>5 DEF CorrectionInv, TypeOK
    <2> QED BY <2>4, <2>5
  <1>6. CASE Relaunch
    <2>1. /\ isStart' = [v \in View |-> FALSE] /\ task' = [v \in View |-> NoTake]
          /\ queued' = [v \in View |-> NoTake] /\ UNCHANGED <<corrected, text>>
      BY <1>6 DEF Relaunch, textVars
    <2> QED BY <1>0, <2>1 DEF CorrectionInv
  <1>7. CASE \/ \E p \in Page : \/ OpenPage(p) \/ TapRegister(p) \/ RegistrationAnswers(p)
                               \/ RegistrationStalls(p)
             \/ \E v \in View : TurnToThird(v)
             \/ TurnAway \/ TapBack \/ ComposerDismissed \/ UNCHANGED vars
    <2>1. UNCHANGED <<corrected, isStart, task, queued, text>>
      BY <1>7 DEF OpenPage, TapRegister, RegistrationAnswers, RegistrationStalls, TurnToThird,
                  TurnAway, TapBack, ComposerDismissed, LeavePage, vars, recordVars, speechVars, textVars
    <2> QED BY <2>1 DEF CorrectionInv
  <1> QED BY <1>1, <1>2, <1>3, <1>4, <1>5, <1>6, <1>7 DEF Next

\* A text corrected after the recording stopped is never replaced by a late
\* result of the recognition (RecordingView, resultHandler and textViewDidChange).
THEOREM CorrectionCorrect == Spec => []CorrectionStays
  <1>1. Init => TypeOK /\ CorrectionInv
    BY InitType DEF Init, CorrectionInv
  <1>2. TypeOK /\ CorrectionInv /\ [Next]_vars => TypeOK' /\ CorrectionInv'
    BY NextType, NextCorrection
  <1>3. CorrectionInv => CorrectionStays
    BY DEF CorrectionInv, CorrectionStays
  <1> QED BY <1>1, <1>2, <1>3, PTL DEF Spec

-----------------------------------------------------------------------------
\* The file

\* The view on the screen is the only one that records, so the file is its recording.
LEMMA StartRecordFile ==
  ASSUME TypeOK, FileInv, NEW v \in View, StartRecord(v) PROVE FileInv'
  <1> DEFINE take == count + 1
  <1>1. /\ shown = v /\ front = PageOf[v] /\ registering[front].stage = "none" /\ ~isStart[v]
        /\ isStart' = [isStart EXCEPT ![v] = TRUE]
        /\ UNCHANGED <<last, opened, front, shown, abandoned, registering, registered>>
    BY DEF StartRecord, Touchable, Uncovered, pageVars, jobVars
  <1>2. \/ audioRecorder' = [audioRecorder EXCEPT ![v] = take]
           /\ file' = {take} \cup ({audioRecorder[w] : w \in View \ {v}} \ {NoTake})
        \/ UNCHANGED <<audioRecorder, file>>
    BY DEF StartRecord, startRecording
  <1>3. take # NoTake
    BY Bounds DEF StartRecord, TypeOK, Take
  <1> HIDE DEF take
  <1>4. SUFFICES ASSUME abandoned' = {} PROVE FileInv'
    BY DEF FileInv
  <1>5. /\ \A w \in View : ~isStart[w] /\ audioRecorder[w] = NoTake
        /\ \A p \in Page : registering[p].stage = "none"
    BY <1>1, <1>4 DEF FileInv, TypeOK
  <1>6. \A w \in View : isStart'[w] => w = v
    BY <1>1, <1>5 DEF TypeOK
  <1>7. \/ /\ audioRecorder'[v] = take /\ file' = {take}
           /\ \A w \in View \ {v} : audioRecorder'[w] = NoTake
        \/ UNCHANGED <<audioRecorder, file>>
    BY <1>2, <1>5 DEF TypeOK
  <1>8. /\ \A w \in View : audioRecorder'[w] # NoTake => file' = {audioRecorder'[w]}
        /\ front' \in Page /\ last'[front'] # NoTake =>
             file' = {last'[front']} \/ \E w \in View : audioRecorder'[w] # NoTake
    BY <1>1, <1>3, <1>4, <1>5, <1>7 DEF FileInv
  <1> QED BY <1>1, <1>4, <1>5, <1>6, <1>8 DEF FileInv

\* The recording the file is from becomes the one stopped last in its page.
LEMMA StopRecordFile ==
  ASSUME TypeOK, FileInv, NEW v \in View, StopRecord(v) PROVE FileInv'
  <1>1. /\ shown = v /\ front = PageOf[v] /\ registering[front].stage = "none" /\ isStart[v]
        /\ isStart' = [isStart EXCEPT ![v] = FALSE]
        /\ audioRecorder' = [audioRecorder EXCEPT ![v] = NoTake]
        /\ last' = IF audioRecorder[v] = NoTake THEN last
                   ELSE [last EXCEPT ![PageOf[v]] = audioRecorder[v]]
        /\ UNCHANGED <<file, opened, front, shown, abandoned, registering, registered>>
    BY DEF StopRecord, stopRecording, Touchable, Uncovered, pageVars, jobVars
  <1>2. SUFFICES ASSUME abandoned' = {} PROVE FileInv'
    BY DEF FileInv
  <1>3. /\ \A w \in View \ {v} : ~isStart[w] /\ audioRecorder[w] = NoTake
        /\ \A p \in Page : registering[p].stage = "none"
    BY <1>1, <1>2 DEF FileInv, TypeOK
  <1>4. \A w \in View : ~isStart'[w] /\ audioRecorder'[w] = NoTake
    BY <1>1, <1>3 DEF TypeOK
  <1>5. /\ front \in Page /\ front \in opened
        /\ last'[front] = IF audioRecorder[v] = NoTake THEN last[front] ELSE audioRecorder[v]
        /\ \A p \in Page : p # front => last'[p] = last[p]
    <2>1. front \in Page /\ front \in opened
      <3>1. PageOf[v] \in Page /\ NoPage \notin Page
        BY Bounds
      <3>2. front \in opened \cup {NoPage}
        BY DEF TypeOK
      <3> QED BY <1>1, <3>1, <3>2
    <2>2. last \in [Page -> Take \cup {NoTake}] /\ PageOf[v] = front
      BY <1>1 DEF TypeOK
    <2>3. CASE audioRecorder[v] = NoTake
      BY <1>1, <2>1, <2>3
    <2>4. CASE audioRecorder[v] # NoTake
      <3>1. last' = [last EXCEPT ![front] = audioRecorder[v]]
        BY <1>1, <2>2, <2>4
      <3> QED BY <2>1, <2>2, <2>4, <3>1
    <2> QED BY <2>1, <2>3, <2>4
  <1>6. last'[front] # NoTake => file = {last'[front]}
    BY <1>1, <1>2, <1>3, <1>5 DEF FileInv
  <1> QED BY <1>1, <1>2, <1>3, <1>4, <1>5, <1>6 DEF FileInv

\* The registration remembers the recording stopped last, if none is under way.
LEMMA TapRegisterFile ==
  ASSUME TypeOK, FileInv, NEW p \in Page, TapRegister(p) PROVE FileInv'
  <1>1. /\ front = p
        /\ \A q \in Page : registering'[q] =
             IF q = p THEN [stage |-> "running", text |-> audioText[p], url |-> audioUrl[p],
                            last |-> IF Recording(p) THEN NoTake ELSE last[p]]
             ELSE registering[q]
        /\ UNCHANGED <<isStart, audioRecorder, file, last, opened, front, shown, abandoned,
                       registered>>
    BY DEF TapRegister, Uncovered, TypeOK, recordVars, pageVars
  <1>2. SUFFICES ASSUME abandoned' = {} PROVE FileInv'
    BY DEF FileInv
  <1>3. ~Recording(p) => \A v \in View : ~isStart[v]
    BY <1>1, <1>2, Bounds DEF FileInv, Recording, Views, TypeOK
  <1>4. \A q \in Page : registering'[q].stage # "none" => q = p
    BY <1>1, <1>2 DEF FileInv
  <1>5. /\ registering'[p].stage = "running"
        /\ registering'[p].last = IF Recording(p) THEN NoTake ELSE last[p]
    BY <1>1
  <1>6. registering'[p].last # NoTake => /\ registering'[p].last = last'[p]
                                        /\ \A v \in View : ~isStart'[v]
    BY <1>1, <1>3, <1>5
  <1> QED BY <1>1, <1>2, <1>4, <1>6 DEF FileInv

\* Until the upload reads it nobody else has written the file.
LEMMA RegistrationAnswersFile ==
  ASSUME TypeOK, FileInv, NEW p \in Page, RegistrationAnswers(p) PROVE FileInv'
  <1> DEFINE job == registering[p]
             line == [page |-> p, text |-> job.text, sound |-> file, last |-> job.last]
  <1>1. /\ job.stage = "running"
        /\ registered' = registered \cup {line}
        /\ registering' = [registering EXCEPT ![p] = NoJob]
        /\ front' = IF front = p THEN NoPage ELSE front
        /\ shown' = IF front = p THEN NoView ELSE shown
        /\ abandoned' = IF front = p /\ Recording(p) THEN abandoned \cup {p} ELSE abandoned
        /\ UNCHANGED <<isStart, audioRecorder, file, last, opened>>
    BY DEF RegistrationAnswers, recordVars
  <1>2. SUFFICES ASSUME abandoned' = {} PROVE FileInv'
    BY DEF FileInv
  <1>3. /\ abandoned = {} /\ front = p /\ ~Recording(p) /\ front' = NoPage
        /\ NoPage \notin Page
    BY <1>1, <1>2, Bounds DEF FileInv
  <1>4. \A v \in View : ~isStart[v] /\ audioRecorder[v] = NoTake
    BY <1>3 DEF FileInv, Recording, Views, TypeOK
  <1>5. job.last # NoTake => file = {job.last}
    BY <1>1, <1>3, <1>4 DEF FileInv
  <1>6. line.last = job.last /\ line.sound = file
    OBVIOUS
  <1>7. \A q \in Page : registering'[q].stage = "none"
    <2>1. NoJob.stage = "none"
      BY DEF NoJob
    <2> QED BY <1>1, <1>3, <2>1 DEF FileInv, TypeOK
  <1> HIDE DEF line, job
  <1>8. \A l \in registered' : l.last # NoTake => l.sound = {l.last}
    BY <1>1, <1>3, <1>5, <1>6 DEF FileInv
  <1> QED BY <1>1, <1>3, <1>4, <1>7, <1>8 DEF FileInv

\* A registration that is stuck changes nothing else.
LEMMA RegistrationStallsFile ==
  ASSUME TypeOK, FileInv, NEW p \in Page, RegistrationStalls(p) PROVE FileInv'
  <1>1. /\ registering[p].stage = "running"
        /\ registering' = [registering EXCEPT ![p].stage = "stuck"]
        /\ UNCHANGED <<isStart, audioRecorder, file, last, opened, front, shown, abandoned,
                       registered>>
    BY DEF RegistrationStalls, recordVars, pageVars
  <1>2. /\ registering'[p].last = registering[p].last
        /\ \A q \in Page \ {p} : registering'[q] = registering[q]
    BY <1>1 DEF TypeOK, Job
  <1> QED BY <1>1, <1>2 DEF FileInv

\* A page that is opened has not recorded; one that is turned or left does not
\* record, nor does one that is turned back.
LEMMA PagesFile ==
  ASSUME TypeOK, FileInv, \/ \E p \in Page : OpenPage(p)
                          \/ \E v \in View : TurnToThird(v)
                          \/ TurnAway \/ TapBack \/ ComposerDismissed
  PROVE FileInv'
  <1>1. UNCHANGED <<isStart, audioRecorder, file, last, registering, registered>>
    BY DEF OpenPage, TurnToThird, TurnAway, TapBack, ComposerDismissed, LeavePage, recordVars,
           jobVars
  <1>2. SUFFICES ASSUME abandoned' = {} PROVE FileInv'
    BY DEF FileInv
  <1>3. CASE \E p \in Page : OpenPage(p)
    <2>1. PICK p \in Page : OpenPage(p)
      BY <1>3
    <2>2. /\ front = NoPage /\ shown = NoView /\ front' = p
          /\ p \notin opened /\ opened' = opened \cup {p} /\ abandoned' = abandoned
      BY <2>1, Bounds DEF OpenPage, TypeOK
    <2>3. \A v \in View : ~isStart[v]
      BY <1>2, <2>2, Bounds DEF FileInv
    <2>4. \A q \in Page : registering[q].stage = "none"
      BY <1>2, <2>2, Bounds DEF FileInv
    <2> QED BY <1>1, <1>2, <2>2, <2>3, <2>4 DEF FileInv
  <1>4. CASE \E v \in View : TurnToThird(v)
    <2>1. shown = NoView /\ UNCHANGED <<front, opened, abandoned>>
      BY <1>4 DEF TurnToThird
    <2>2. \A v \in View : ~isStart[v]
      BY <1>2, <2>1, Bounds DEF FileInv
    <2> QED BY <1>1, <1>2, <2>1, <2>2 DEF FileInv
  <1>5. CASE TurnAway
    <2>1. /\ shown \in View /\ UNCHANGED <<front, opened>>
          /\ abandoned' = IF isStart[shown] THEN abandoned \cup {front} ELSE abandoned
      BY <1>5 DEF TurnAway, TypeOK
    <2>2. abandoned = {} /\ ~isStart[shown]
      BY <1>2, <2>1
    <2>3. \A v \in View : ~isStart[v]
      BY <2>2 DEF FileInv
    <2> QED BY <1>1, <1>2, <2>1, <2>2, <2>3 DEF FileInv
  <1>6. CASE TapBack \/ ComposerDismissed
    <2>1. /\ front \in Page /\ front' = NoPage /\ opened' = opened
          /\ abandoned = {} /\ ~Recording(front) /\ registering[front].stage = "none"
      BY <1>2, <1>6 DEF TapBack, ComposerDismissed, LeavePage, TypeOK
    <2>2. \A v \in View : ~isStart[v]
      BY <2>1 DEF FileInv, Recording, Views, TypeOK
    <2>3. \A p \in Page : registering[p].stage = "none"
      BY <2>1 DEF FileInv
    <2> QED BY <1>1, <1>2, <2>1, <2>2, <2>3, Bounds DEF FileInv
  <1> QED BY <1>3, <1>4, <1>5, <1>6

\* Every step keeps the owner of the file.
LEMMA NextFile == ASSUME TypeOK, FileInv, [Next]_vars PROVE FileInv'
  <1>1. CASE Relaunch
    <2>1. /\ front' = NoPage /\ \A v \in View : ~isStart'[v] /\ audioRecorder'[v] = NoTake
          /\ \A p \in Page : registering'[p] = NoJob
          /\ UNCHANGED <<file, last, opened, abandoned, registered>>
      BY <1>1 DEF Relaunch
    <2>2. NoJob.stage = "none"
      BY DEF NoJob
    <2> QED BY <2>1, <2>2, Bounds DEF FileInv
  <1>2. CASE \/ \E v \in View : SpeechResult(v) \/ ResultArrives(v) \/ EditText(v)
             \/ UNCHANGED vars
    <2>1. UNCHANGED <<isStart, audioRecorder, file, last, opened, front, shown, abandoned,
                      registering, registered>>
      BY <1>2 DEF SpeechResult, ResultArrives, EditText, vars, recordVars, pageVars, jobVars
    <2> QED BY <2>1 DEF FileInv
  <1> QED BY <1>1, <1>2, StartRecordFile, StopRecordFile, TapRegisterFile,
             RegistrationAnswersFile, RegistrationStallsFile, PagesFile DEF Next

\* At first nobody owns it.
LEMMA InitFile == Init => FileInv
  <1> SUFFICES ASSUME Init PROVE FileInv
    OBVIOUS
  <1>1. /\ front = NoPage /\ registered = {} /\ NoPage \notin Page
        /\ \A v \in View : ~isStart[v] /\ audioRecorder[v] = NoTake
        /\ \A p \in Page : last[p] = NoTake /\ registering[p] = NoJob
    BY Bounds DEF Init
  <1>2. NoJob.stage = "none"
    BY DEF NoJob
  <1> QED BY <1>1, <1>2 DEF FileInv

\* Whatever is registered after a recording was stopped has the sound of this
\* recording and no other, in whichever reused cell it was made, although all
\* views record into one file and the upload opens it late, as long as no page
\* was left while it registered, or left or turned while it recorded
\* (RecordingView, startRecording; RegisterViewController, cellForItemAt;
\* dataUploader, putFile).
THEOREM LastTakeCorrect == Spec => []LastTakeIsUploaded
  <1>1. Init => TypeOK /\ FileInv
    BY InitType, InitFile
  <1>2. TypeOK /\ FileInv /\ [Next]_vars => TypeOK' /\ FileInv'
    BY NextType, NextFile
  <1>3. FileInv => LastTakeIsUploaded
    BY DEF FileInv, LastTakeIsUploaded
  <1> QED BY <1>1, <1>2, <1>3, PTL DEF Spec

=============================================================================
