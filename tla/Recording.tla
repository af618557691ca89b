-------------------------------- MODULE Recording --------------------------------
(***************************************************************************)
(* Recording and transcription: RecordingView, in the register pages, down *)
(* to the upload that reads what was recorded.                             *)
(*                                                                         *)
(* Every view records into the same file, test.m4a, while the speech       *)
(* framework transcribes.  The view tells its page the text and the file   *)
(* whenever the text changes and when recording stops; the page registers  *)
(* what it was told last, and the upload opens the file later.             *)
(*                                                                         *)
(* RegisterDialogueController has one view.  In RegisterViewController the *)
(* view is in a reused cell: whoever turns away from the third page and    *)
(* comes back may find another cell, whose view knows nothing of the       *)
(* first.  The text and the file the page was told belong to the page.     *)
(*                                                                         *)
(* Nothing stops a recording when its page is left or its cell scrolled    *)
(* away: the view is the target of its engine's tap and holds its page as  *)
(* delegate, so neither goes.  One registration per page is modelled;      *)
(* Loader says when there are more.                                        *)
(*                                                                         *)
(* A definition marked "Fault" is the next unmarked one with a plausible   *)
(* slip: put in its place, it must break a property named in PROJECT.json. *)
(***************************************************************************)
EXTENDS Naturals

CONSTANTS
  Page, NoPage,   \* the register pages
  View, NoView,   \* the recording views, one in each cell or page
  PageOf,         \* PageOf[v]: the page v belongs to
  NoTake,         \* no recording
  MaxTakes,       \* bound on the recordings begun
  MaxFailures,    \* bound on recorders that cannot be made
  MaxDismissals,  \* bound on late answers that dismiss the composer
  MaxCrashes      \* bound on the ends of the process

Take == 1 .. MaxTakes

ASSUME RecordingAssumption ==
  /\ NoPage \notin Page /\ NoView \notin View /\ NoTake \notin Take
  /\ PageOf \in [View -> Page] /\ \A p \in Page : \E v \in View : PageOf[v] = p
  /\ {MaxTakes, MaxFailures, MaxDismissals, MaxCrashes} \subseteq Nat

VARIABLES
  opened, front,  \* the pages opened so far, and the one in front
  shown,          \* the view of that page on the screen
  isStart,        \* isStart[v]: the record button is on
  count,          \* recordings begun
  audioRecorder,  \* audioRecorder[v]: the recording it makes
  task,           \* task[v]: the recording the recognition task transcribes
  ended,          \* views that have ended the audio of their recognitionRequest
  queued,         \* queued[v]: a result on the main queue
  text,           \* text[v]: the recording it is from, and whether it was edited
  corrected,      \* history: views edited since recording stopped in them
  audioText, audioUrl,  \* what each page was told
  file,           \* the recordings test.m4a has sound of, whole or in part
  registering,    \* registering[p]: the registration of page p
  registered,     \* the lines that were registered
  last,           \* history: last[p] is the one stopped last in page p
  abandoned,      \* history: pages that registered or had a view recording
                  \* when the page was left or the view scrolled away
  failures, dismissals, crashes

recordVars == <<isStart, count, audioRecorder, file, last, failures>>
speechVars == <<task, ended, queued>>
textVars == <<text, corrected, audioText, audioUrl>>
pageVars == <<opened, front, shown, abandoned, dismissals>>
jobVars == <<registering, registered>>
vars == <<recordVars, speechVars, textVars, pageVars, jobVars, crashes>>

Text == [of : Take \cup {NoTake}, byHand : BOOLEAN]
Url == {"empty path", "test.m4a"}
Job == [stage : {"none", "running", "stuck"}, text : Text, url : Url,
        last : Take \cup {NoTake}]
Line == [page : Page, text : Text, sound : SUBSET Take,
         last : Take \cup {NoTake}]

NoText == [of |-> NoTake, byHand |-> FALSE]
NoJob == [stage |-> "none", text |-> NoText, url |-> "empty path", last |-> NoTake]

TypeOK ==
  /\ opened \subseteq Page /\ front \in opened \cup {NoPage}
  /\ shown \in View \cup {NoView} /\ (shown \in View => PageOf[shown] = front)
  /\ isStart \in [View -> BOOLEAN]
  /\ count \in 0 .. MaxTakes
  /\ audioRecorder \in [View -> Take \cup {NoTake}]
  /\ task \in [View -> Take \cup {NoTake}]
  /\ \A v \in View : ~isStart[v] => audioRecorder[v] = NoTake /\ task[v] = NoTake
  /\ ended \subseteq View
  /\ queued \in [View -> Take \cup {NoTake}]
  /\ corrected \subseteq View
  /\ text \in [View -> Text] /\ audioText \in [Page -> Text]
  /\ audioUrl \in [Page -> Url]
  /\ file \subseteq Take
  /\ registering \in [Page -> Job]
  /\ registered \subseteq Line
  /\ last \in [Page -> Take \cup {NoTake}]
  /\ abandoned \subseteq Page
  /\ failures \in 0 .. MaxFailures /\ dismissals \in 0 .. MaxDismissals
  /\ crashes \in 0 .. MaxCrashes

\* A new installation: there is no file yet.
Init ==
  /\ opened = {} /\ front = NoPage /\ shown = NoView
  /\ isStart = [v \in View |-> FALSE] /\ count = 0
  /\ audioRecorder = [v \in View |-> NoTake] /\ task = [v \in View |-> NoTake]
  /\ ended = {} /\ queued = [v \in View |-> NoTake]
  /\ text = [v \in View |-> NoText] /\ audioText = [p \in Page |-> NoText]
  /\ audioUrl = [p \in Page |-> "empty path"] /\ corrected = {}
  /\ file = {} /\ last = [p \in Page |-> NoTake]
  /\ registering = [p \in Page |-> NoJob] /\ registered = {}
  /\ abandoned = {} /\ failures = 0 /\ dismissals = 0 /\ crashes = 0

-----------------------------------------------------------------------------
Views(p) == {v \in View : PageOf[v] = p}

\* The third page of RegisterViewController is one of several reused cells.
Reused(p) == \E v, w \in Views(p) : v # w

\* The loader covers a page while it registers.
Uncovered(p) == front = p /\ registering[p].stage = "none"
Touchable(v) == shown = v /\ Uncovered(PageOf[v])

\* A result is on the main queue before the touch that follows it.
Settled(v) == isStart[v] \/ queued[v] = NoTake

\* delegate.audioInfo, in both pages
audioInfo(v, newText) ==
  /\ audioText' = [audioText EXCEPT ![PageOf[v]] = newText]
  /\ audioUrl' = [audioUrl EXCEPT ![PageOf[v]] = "test.m4a"]

\* startSpeech: a request is transcribed once; there may be no recognizer.
startSpeech(v, take) ==
  /\ task' \in {[task EXCEPT ![v] = t] : t \in IF v \in ended THEN {NoTake} ELSE {take, NoTake}}
  /\ UNCHANGED <<ended, queued>>

\* startRecording: the file is made anew; who else records goes on writing.
startRecording(v, take) ==
  \/ /\ audioRecorder' = [audioRecorder EXCEPT ![v] = take]
     /\ file' = {take} \cup ({audioRecorder[w] : w \in View \ {v}} \ {NoTake})
     /\ UNCHANGED failures
  \/ /\ failures < MaxFailures
     /\ failures' = failures + 1
     /\ UNCHANGED <<audioRecorder, file>>

\* didTapRecordButton, on
StartRecord(v) ==
  LET take == count + 1
  IN /\ Touchable(v) /\ Settled(v) /\ ~isStart[v] /\ count < MaxTakes
     /\ isStart' = [isStart EXCEPT ![v] = TRUE]
     /\ count' = take
     /\ startSpeech(v, take)
     /\ startRecording(v, take)
     /\ corrected' = corrected \ {v}
     /\ UNCHANGED <<last, text, audioText, audioUrl, pageVars, jobVars, crashes>>

\* Fault: the recognition task is told to end, but goes on reporting.
stopSpeechOnly(v) ==
  /\ ended' = ended \cup {v}
  /\ UNCHANGED <<task, queued>>

\* stopSpeech: finish, cancel, endAudio
stopSpeech(v) ==
  /\ task' = [task EXCEPT ![v] = NoTake]
  /\ ended' = ended \cup {v}
  /\ UNCHANGED queued

\* Fault: the recorder is not stopped.
stopRecordingLater(v) ==
  /\ last' = IF audioRecorder[v] = NoTake THEN last
             ELSE [last EXCEPT ![PageOf[v]] = audioRecorder[v]]
  /\ UNCHANGED audioRecorder

\* stopRecording
stopRecording(v) ==
  /\ last' = IF audioRecorder[v] = NoTake THEN last
             ELSE [last EXCEPT ![PageOf[v]] = audioRecorder[v]]
  /\ audioRecorder' = [audioRecorder EXCEPT ![v] = NoTake]

\* didTapRecordButton, off
StopRecord(v) ==
  /\ Touchable(v) /\ isStart[v]
  /\ isStart' = [isStart EXCEPT ![v] = FALSE]
  /\ stopSpeech(v) /\ stopRecording(v)
  /\ audioInfo(v, text[v])
  /\ UNCHANGED <<count, file, failures, text, corrected, pageVars, jobVars, crashes>>

\* The framework transcribes what it has heard so far.
SpeechResult(v) ==
  /\ task[v] # NoTake /\ queued[v] = NoTake
  /\ queued' = [queued EXCEPT ![v] = task[v]]
  /\ UNCHANGED <<task, ended, recordVars, textVars, pageVars, jobVars, crashes>>

\* resultHandler: the text is replaced, wherever the page is.
ResultArrives(v) ==
  LET heard == [of |-> queued[v], byHand |-> FALSE]
  IN /\ queued[v] # NoTake
     /\ queued' = [queued EXCEPT ![v] = NoTake]
     /\ text' = [text EXCEPT ![v] = heard]
     /\ audioInfo(v, heard)
     /\ UNCHANGED <<corrected, task, ended, recordVars, pageVars, jobVars, crashes>>

\* textViewDidChange
EditText(v) ==
  LET edited == [of |-> text[v].of, byHand |-> TRUE]
  IN /\ Touchable(v) /\ Settled(v)
     /\ text' = [text EXCEPT ![v] = edited]
     /\ corrected' = IF isStart[v] THEN corrected ELSE corrected \cup {v}
     /\ audioInfo(v, edited)
     /\ UNCHANGED <<recordVars, speechVars, pageVars, jobVars, crashes>>

-----------------------------------------------------------------------------
\* The pages

\* RegisterViewController opens with its first page, without a recording view.
OpenPage(p) ==
  /\ front = NoPage /\ p \notin opened
  /\ opened' = opened \cup {p} /\ front' = p
  /\ shown' \in IF Reused(p) THEN {NoView} ELSE Views(p)
  /\ UNCHANGED <<abandoned, dismissals, recordVars, speechVars, textVars, jobVars, crashes>>

Recording(p) == \E v \in Views(p) : isStart[v]

\* The third page comes, in whichever cell is at hand, a hidden one or anew.
TurnToThird(v) ==
  /\ Uncovered(PageOf[v]) /\ Reused(front) /\ shown = NoView
  /\ shown' = v
  /\ UNCHANGED <<opened, front, abandoned, dismissals, recordVars, speechVars, textVars,
                 jobVars, crashes>>

\* didTapPrevButton, a swipe: the cell is as it was when it comes back.
TurnAway ==
  /\ shown # NoView /\ Uncovered(front) /\ Reused(front)
  /\ shown' = NoView
  /\ abandoned' = IF isStart[shown] THEN abandoned \cup {front} ELSE abandoned
  /\ UNCHANGED <<opened, front, dismissals, recordVars, speechVars, textVars, jobVars, crashes>>

LeavePage ==
  /\ front # NoPage /\ front' = NoPage /\ shown' = NoView
  /\ abandoned' = IF Recording(front) \/ registering[front].stage # "none"
                  THEN abandoned \cup {front} ELSE abandoned
  /\ UNCHANGED <<opened, recordVars, speechVars, textVars, jobVars, crashes>>

TapBack == front # NoPage /\ Uncovered(front) /\ LeavePage /\ UNCHANGED dismissals

\* TopViewController.fetchConversations
ComposerDismissed ==
  dismissals < MaxDismissals /\ dismissals' = dismissals + 1 /\ LeavePage

\* uploadDialogue: the button works whether or not anything was recorded, and
\* on other pages too, after a tap on the dots of the page control.
TapRegister(p) ==
  /\ Uncovered(p) /\ \A v \in Views(p) : Settled(v)
  /\ registering' =
       [registering EXCEPT ![p] =
          [stage |-> "running", text |-> audioText[p], url |-> audioUrl[p],
           last |-> IF Recording(p) THEN NoTake ELSE last[p]]]
  /\ UNCHANGED <<registered, recordVars, speechVars, textVars, pageVars, crashes>>

\* isContentToUploadValid: reachable, and a regular file
ContentValid(job) == job.url = "test.m4a" /\ file # {}

\* putFile reads the file, the line is written, and the page goes.
RegistrationAnswers(p) ==
  LET job == registering[p]
  IN /\ job.stage = "running" /\ ContentValid(job)
     /\ registered' = registered \cup
          {[page |-> p, text |-> job.text, sound |-> file, last |-> job.last]}
     /\ registering' = [registering EXCEPT ![p] = NoJob]
     /\ front' = IF front = p THEN NoPage ELSE front
     /\ shown' = IF front = p THEN NoView ELSE shown
     /\ abandoned' = IF front = p /\ Recording(p) THEN abandoned \cup {p} ELSE abandoned
     /\ UNCHANGED <<opened, dismissals, recordVars, speechVars, textVars, crashes>>

\* No URL for what could not be uploaded: nobody is called back.
RegistrationStalls(p) ==
  /\ registering[p].stage = "running"
  /\ registering' = [registering EXCEPT ![p].stage = "stuck"]
  /\ UNCHANGED <<registered, recordVars, speechVars, textVars, pageVars, crashes>>

\* The process ends and is launched again; the file stays as it is.
Relaunch ==
  /\ crashes < MaxCrashes /\ crashes' = crashes + 1
  /\ front' = NoPage /\ shown' = NoView
  /\ isStart' = [v \in View |-> FALSE]
  /\ audioRecorder' = [v \in View |-> NoTake]
  /\ task' = [v \in View |-> NoTake] /\ queued' = [v \in View |-> NoTake]
  /\ registering' = [p \in Page |-> NoJob]
  /\ UNCHANGED <<count, file, last, failures, ended, textVars, opened,
                 abandoned, dismissals, registered>>

-----------------------------------------------------------------------------
Next ==
  \/ \E v \in View :
       \/ StartRecord(v) \/ StopRecord(v) \/ SpeechResult(v) \/ ResultArrives(v)
       \/ EditText(v) \/ TurnToThird(v)
  \/ \E p \in Page :
       \/ OpenPage(p) \/ TapRegister(p) \/ RegistrationAnswers(p) \/ RegistrationStalls(p)
  \/ TurnAway \/ TapBack \/ ComposerDismissed \/ Relaunch

Spec == Init /\ [][Next]_vars

-----------------------------------------------------------------------------
\* What a page would register is what one of its recording views shows, through
\* results, corrections and stops in any order: in RegisterDialogueController,
\* which has one, what is on the screen; in RegisterViewController it may be
\* the text of a cell that is not.
PageKnowsText == \A p \in Page : \E v \in Views(p) : audioText[p] = text[v]

\* A text that was corrected after the recording stopped is not replaced by a
\* result of the recognition that comes late.
CorrectionStays == \A v \in corrected : text[v].byHand

\* When the user has recorded, stopped and registered, the recording that was
\* stopped last in this page is what is uploaded, in whichever cell it was made,
\* though all views share a file and the upload opens it late; unless a page was
\* left while it registered, or left or turned while one of its views recorded.
LastTakeIsUploaded ==
  abandoned = {} =>
    \A line \in registered : line.last # NoTake => line.sound = {line.last}

=============================================================================
