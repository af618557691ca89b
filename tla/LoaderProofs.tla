------------------------------ MODULE LoaderProofs ------------------------------
(***************************************************************************)
(* The loader covers a page whose registration is under way, for any       *)
(* number of pages, taps and dismissals.                                   *)
(*                                                                         *)
(* BusyIsCovered is not inductive.  Calm says what holds until a page is   *)
(* left unfinished: the HUD is off and nobody is busy, or on in the page   *)
(* in front for as long as that is busy or its picker comes, or on its way *)
(* out; and nobody else is busy.                                           *)
(*                                                                         *)
(* The second part is about what is on the pages it covers, RegisterPages, *)
(* whose names are the plain ones (Init, Next); Loader's are prefixed.     *)
(***************************************************************************)
EXTENDS Loader, RegisterPages, TLAPS

Off == targetView = NoPage /\ transitioning = "no"
On == targetView = front /\ transitioning # "hiding" /\ ~dismissAfterTransitionFinished
Leaving ==
  \/ transitioning = "hiding"
  \/ transitioning = "showing" /\ dismissAfterTransitionFinished
Busy == running[front] > 0 \/ front \in stuck

HUDInv ==
  /\ transitioning # "no" => targetView # NoPage
  /\ dismissAfterTransitionFinished => transitioning # "no"

Calm ==
  left = {} =>
    /\ front = NoPage => Off \/ Leaving
    /\ front # NoPage /\ picker = "none" => (Off /\ ~Busy) \/ (On /\ Busy)
    /\ front # NoPage /\ picker = "coming" => On /\ ~Busy
    /\ front # NoPage /\ picker = "up" => (Off \/ Leaving) /\ ~Busy
    /\ \A p \in LoaderPage : p # front => running[p] = 0

\* A page has been opened before a registration of it runs.
RunningOpened == \A p \in LoaderPage : running[p] > 0 => p \in opened

Inv == LoaderTypeOK /\ HUDInv /\ RunningOpened /\ Calm

LEMMA InitInv == LoaderInit => Inv
  <1> SUFFICES ASSUME LoaderInit PROVE Inv
    OBVIOUS
  <1>1. running \in [LoaderPage -> 0 .. MaxTaps] /\ \A p \in LoaderPage : running[p] = 0
    BY LoaderAssumption DEF LoaderAssumption, LoaderInit
  <1>2. HUDTypeOK
    BY DEF LoaderInit, HUDInit, HUDTypeOK
  <1>3. dismissals \in 0 .. MaxDismissals
    BY LoaderAssumption DEF LoaderAssumption, LoaderInit
  <1>4. /\ opened \subseteq LoaderPage /\ front \in opened \cup {NoPage}
        /\ stuck \subseteq opened /\ left \subseteq opened
        /\ picker \in {"none", "coming", "up"}
    BY DEF LoaderInit
  <1>5. LoaderTypeOK
    BY <1>1, <1>2, <1>3, <1>4 DEF LoaderTypeOK
  <1> QED
    BY <1>1, <1>5 DEF LoaderInit, HUDInit, Inv, HUDInv, RunningOpened, Calm, Off, Leaving

\* Every step keeps the invariant.
LEMMA NextInv == Inv /\ [LoaderNext]_loaderVars => Inv'
  <1> SUFFICES ASSUME Inv, [LoaderNext]_loaderVars PROVE Inv'
    OBVIOUS
  <1> USE LoaderAssumption DEF LoaderAssumption
  <1>1. ASSUME NEW p \in LoaderPage, OpenPage(p) PROVE Inv'
    BY <1>1 DEF OpenPage, Inv, LoaderTypeOK, HUDTypeOK, HUDInv, RunningOpened, Calm, Off, On, Leaving, Busy
  <1>2. ASSUME NEW p \in LoaderPage, TapRegister(p) PROVE Inv'
    <2>1. running' = [running EXCEPT ![p] = @ + 1] /\ running[p] < MaxTaps
          /\ running[p] \in Nat /\ running'[p] = running[p] + 1
          /\ \A q \in LoaderPage : q # p => running'[q] = running[q]
      BY <1>2 DEF TapRegister, Inv, LoaderTypeOK
    <2>2. running' \in [LoaderPage -> 0 .. MaxTaps]
      BY <2>1 DEF Inv, LoaderTypeOK
    <2>3. HUDTypeOK' /\ HUDInv'
      BY <1>2 DEF TapRegister, show, hudVars, Inv, LoaderTypeOK, HUDTypeOK, HUDInv
    <2>4. LoaderTypeOK'
      BY <1>2, <2>2, <2>3 DEF TapRegister, Inv, LoaderTypeOK
    <2>5. RunningOpened'
      BY <1>2, <2>1 DEF TapRegister, TouchablePage, Inv, LoaderTypeOK, RunningOpened
    <2>6. Calm'
      <3> SUFFICES ASSUME left = {} PROVE Calm'
        BY <1>2 DEF TapRegister, Calm
      <3>1. front = p /\ front # NoPage /\ picker = "none" /\ UNCHANGED <<front, picker, left>>
        BY <1>2 DEF TapRegister, TouchablePage
      <3>2. Off
        BY <1>2, <3>1 DEF TapRegister, TouchablePage, Covers, Inv, Calm, On
      <3>3. On'
        BY <1>2, <3>1, <3>2 DEF TapRegister, show, hudVars, On, Off, Inv, HUDInv
      <3>4. \A q \in LoaderPage : q # front => running'[q] = 0
        BY <2>1, <3>1 DEF Inv, Calm
      <3> QED BY <2>1, <3>1, <3>3, <3>4 DEF Calm, Busy
    <2> QED BY <2>3, <2>4, <2>5, <2>6 DEF Inv
  <1>3. ASSUME NEW p \in LoaderPage, RegistrationAnswers(p) PROVE Inv'
    <2>1. running' = [running EXCEPT ![p] = @ - 1] /\ running[p] > 0
          /\ running[p] \in Nat /\ running'[p] = running[p] - 1
          /\ running'[p] \in 0 .. MaxTaps
          /\ \A q \in LoaderPage : q # p => running'[q] = running[q]
      BY <1>3 DEF RegistrationAnswers, Inv, LoaderTypeOK
    <2>5. running' \in [LoaderPage -> 0 .. MaxTaps] /\ p \in opened
      BY <2>1 DEF Inv, LoaderTypeOK, RunningOpened
    <2>6. HUDTypeOK' /\ HUDInv'
      BY <1>3 DEF RegistrationAnswers, dismiss, hudVars, Inv, LoaderTypeOK, HUDTypeOK, HUDInv
    <2>7. left' \subseteq opened
      BY <1>3, <2>5 DEF RegistrationAnswers, Unfinished, Inv, LoaderTypeOK
    <2>2. LoaderTypeOK'
      BY <1>3, <2>5, <2>6, <2>7 DEF RegistrationAnswers, Inv, LoaderTypeOK
    <2>3. HUDInv' /\ RunningOpened'
      BY <1>3, <2>1, <2>5, <2>6 DEF RegistrationAnswers, Inv, RunningOpened
    <2>4. CASE left' = {}
      <3>1. left = {} /\ front = p /\ front' = NoPage /\ picker = "none" /\ On
        BY <1>3, <2>1, <2>4 DEF RegistrationAnswers, Inv, LoaderTypeOK, Calm, Busy
      <3>2. \A q \in LoaderPage : running'[q] = 0
        BY <1>3, <2>1, <2>4, <3>1
           DEF RegistrationAnswers, Unfinished, Inv, LoaderTypeOK, Calm
      <3>3. (Off \/ Leaving)'
        BY <1>3, <3>1
           DEF RegistrationAnswers, dismiss, hudVars, On, Off, Leaving, Inv, LoaderTypeOK, HUDTypeOK
      <3> QED BY <2>2, <2>3, <3>1, <3>2, <3>3 DEF Inv, Calm
    <2> QED BY <2>2, <2>3, <2>4 DEF Inv, Calm
  <1>4. ASSUME NEW p \in LoaderPage, RegistrationStalls(p) PROVE Inv'
    <2>1. running' = [running EXCEPT ![p] = @ - 1] /\ running[p] > 0
          /\ running[p] \in Nat /\ running'[p] = running[p] - 1
          /\ running'[p] \in 0 .. MaxTaps
          /\ \A q \in LoaderPage : q # p => running'[q] = running[q]
      BY <1>4 DEF RegistrationStalls, Inv, LoaderTypeOK
    <2>2. LoaderTypeOK'
      BY <1>4, <2>1 DEF RegistrationStalls, Inv, LoaderTypeOK, HUDTypeOK, RunningOpened
    <2> QED
      BY <1>4, <2>1, <2>2
         DEF RegistrationStalls, Inv, LoaderTypeOK, HUDTypeOK, HUDInv,
             RunningOpened, Calm, Off, On, Leaving, Busy
  <1>5. ASSUME NEW p \in LoaderPage, TapPicture(p) PROVE Inv'
    <2>1. HUDTypeOK' /\ HUDInv'
      BY <1>5 DEF TapPicture, show, hudVars, Inv, LoaderTypeOK, HUDTypeOK, HUDInv
    <2>2. LoaderTypeOK' /\ RunningOpened'
      BY <1>5, <2>1 DEF TapPicture, Inv, LoaderTypeOK, RunningOpened
    <2>3. Calm'
      <3> SUFFICES ASSUME left = {} PROVE Calm'
        BY <1>5 DEF TapPicture, Calm
      <3>1. /\ front = p /\ front # NoPage /\ picker = "none" /\ picker' = "coming"
            /\ UNCHANGED <<front, left, running, stuck>>
        BY <1>5 DEF TapPicture, TouchablePage
      <3>2. Off /\ ~Busy
        BY <1>5, <3>1 DEF TapPicture, TouchablePage, Covers, Inv, Calm, On
      <3>3. On'
        BY <1>5, <3>1, <3>2 DEF TapPicture, show, hudVars, On, Off, Inv, HUDInv
      <3> QED BY <3>1, <3>2, <3>3 DEF Calm, Busy, Inv
    <2> QED BY <2>1, <2>2, <2>3 DEF Inv
  <1>6. CASE PickerComes
    <2>1. HUDTypeOK' /\ HUDInv'
      BY <1>6 DEF PickerComes, dismiss, hudVars, Inv, LoaderTypeOK, HUDTypeOK, HUDInv
    <2>2. LoaderTypeOK' /\ RunningOpened'
      BY <1>6, <2>1 DEF PickerComes, Inv, LoaderTypeOK, RunningOpened
    <2>3. front # NoPage /\ On => Leaving'
      BY <1>6 DEF PickerComes, dismiss, hudVars, On, Leaving, Inv, LoaderTypeOK, HUDTypeOK
    <2>4. Off \/ Leaving => (Off \/ Leaving)'
      BY <1>6 DEF PickerComes, dismiss, hudVars, Off, Leaving, Inv, LoaderTypeOK, HUDTypeOK
    <2>5. Calm'
      BY <1>6, <2>3, <2>4 DEF PickerComes, Inv, Calm, Busy
    <2> QED BY <2>1, <2>2, <2>5 DEF Inv
  <1>7. CASE PickerHasGone
    BY <1>7
       DEF PickerHasGone, Inv, LoaderTypeOK, HUDTypeOK, HUDInv,
           RunningOpened, Calm, Off, On, Leaving, Busy
  <1>8. CASE TapBack
    BY <1>8
       DEF TapBack, LeaveFront, Unfinished, TouchablePage, Covers, Inv, LoaderTypeOK, HUDTypeOK, HUDInv,
           RunningOpened, Calm, Off, On, Leaving, Busy
  <1>9. CASE ComposerDismissed
    <2>1. CASE picker = "up" /\ picker' = "none" /\ transitioning = "no" /\ UNCHANGED <<front, left>>
      BY <1>9, <2>1
         DEF ComposerDismissed, Inv, LoaderTypeOK, HUDTypeOK, HUDInv,
             RunningOpened, Calm, Off, On, Leaving, Busy
    <2>2. CASE picker = "none" /\ LeaveFront /\ UNCHANGED picker
      BY <1>9, <2>2
         DEF ComposerDismissed, LeaveFront, Unfinished, Inv, LoaderTypeOK, HUDTypeOK, HUDInv,
             RunningOpened, Calm, Off, On, Leaving, Busy
    <2> QED BY <1>9, <2>1, <2>2 DEF ComposerDismissed
  <1>10. CASE FadeEnds
    BY <1>10
       DEF FadeEnds, animationDidFinish, Presented, Dismissed, pageVars, Inv, LoaderTypeOK,
           HUDTypeOK, HUDInv, RunningOpened, Calm, Off, On, Leaving, Busy
  <1>11. CASE UNCHANGED loaderVars
    BY <1>11
       DEF loaderVars, pageVars, Inv, LoaderTypeOK,
           HUDTypeOK, HUDInv, RunningOpened, Calm, Off, On, Leaving, Busy
  <1> QED
    BY <1>1, <1>2, <1>3, <1>4, <1>5, <1>6, <1>7, <1>8, <1>9, <1>10, <1>11 DEF LoaderNext, Ends

\* Every reachable state of Loader is well typed.
THEOREM LoaderTypeCorrect == LoaderSpec => []LoaderTypeOK
  <1>1. Inv => LoaderTypeOK
    BY DEF Inv
  <1> QED
    BY InitInv, NextInv, <1>1, PTL DEF LoaderSpec

\* For any pages, taps and late answers the loader covers the page in front
\* while a registration of it is under way, until a page is left unfinished.
THEOREM BusyCorrect == LoaderSpec => []BusyIsCovered
  <1>1. Inv => BusyIsCovered
    BY LoaderAssumption
       DEF LoaderAssumption, Inv, Calm, BusyIsCovered, Covers, On, Off, Busy, LoaderTypeOK
  <1> QED
    BY InitInv, NextInv, <1>1, PTL DEF LoaderSpec

-----------------------------------------------------------------------------
(***************************************************************************)
(* The pages the loader covers (RegisterPages), for any number of cells,   *)
(* of timers and of edits.                                                 *)
(*                                                                         *)
(* The two properties are not inductive: the page control may come back to *)
(* the page that is shown, and a timer may find the view anywhere on its   *)
(* way.  PagesInv adds that the title follows the page the view scrolls    *)
(* to, that whatever is in sight has a cell (in TypeOK), and that the last *)
(* page is in sight from the tap on next on, if the tap waited for the     *)
(* view: so its timer finds the cell.                                      *)
(***************************************************************************)

\* The subviews show the name and the picture there are now.
UpToDate(subviews) == subviews.userName = nameText /\ subviews.iconImage = selectedImage

\* The inductive invariant of the pages.
PagesInv ==
  /\ TypeOK
  /\ title = TitleOf(shown)
  /\ shown = 2 /\ ~disturbed => cell[2] # NoCell
  /\ shown = 2 /\ ~disturbed /\ timers[2] = 0 => UpToDate(contents[cell[2]])

\* Numbers and cells.
LEMMA PagesBounds ==
  /\ MaxEdits \in Nat \ {0} /\ MaxTimers \in Nat /\ NoCell \notin Cell
  /\ 0 \in Version /\ 0 \in 0 .. MaxTimers
  BY RegisterPagesAssumption DEF RegisterPagesAssumption, Version

\* The view is at a page or between two, and what is in sight keeps its cell.
LEMMA LookSees ==
  ASSUME TypeOK, NEW from \in Page, NEW to \in Page, Look(from, to)
  PROVE  /\ behind' = from /\ shown' = to
         /\ cell' \in [Page -> Cell \cup {NoCell}]
         /\ \A p \in Page : cell'[p] # NoCell <=> p \in Sight(from, to)
         /\ \A p \in Sight(from, to) : cell[p] # NoCell => cell'[p] = cell[p]
  <1>1. Sight(from, to) \subseteq Page
    BY DEF Sight, Toward, Page
  <1>2. PICK c \in Cell :
          cell' = [p \in Page |-> IF p \notin Sight(from, to) THEN NoCell
                                 ELSE IF cell[p] # NoCell THEN cell[p] ELSE c]
    BY DEF Look
  <1>3. cell \in [Page -> Cell \cup {NoCell}]
    BY DEF TypeOK
  <1>4. \A p \in Page : cell'[p] = IF p \notin Sight(from, to) THEN NoCell
                                  ELSE IF cell[p] # NoCell THEN cell[p] ELSE c
    BY <1>2
  <1>5. c # NoCell
    BY PagesBounds
  <1>6. cell' \in [Page -> Cell \cup {NoCell}]
    BY <1>2, <1>3
  <1> QED BY <1>1, <1>4, <1>5, <1>6 DEF Look

\* A scroll sets out from where the view is.
LEMMA ScrollSetsOut ==
  ASSUME TypeOK, NEW page \in Page, ScrollTo(page)
  PROVE  \E from \in Page : Look(from, page) /\ (AtRest => from = shown)
  BY DEF ScrollTo, Sight, Toward, AtRest, TypeOK, Page

\* setupNaxtPageUI puts the present name and picture into the last page, and
\* leaves them alone in the others.
LEMMA SetUpShows ==
  ASSUME NEW page \in Page, NEW c \in Cell, contents \in [Cell -> Contents],
         nameText \in Version, selectedImage \in Version
  PROVE  /\ SetUp(page, c) \in [Cell -> Contents]
         /\ page = 2 => UpToDate(SetUp(page, c)[c])
         /\ page = 1 => \A d \in Cell : UpToDate(contents[d]) => UpToDate(SetUp(page, c)[d])
  <1>1. CASE page = 1
    <2>1. SetUp(page, c) = [contents EXCEPT ![c].nameLabel = nameText]
      BY <1>1 DEF SetUp
    <2>2. SetUp(page, c) \in [Cell -> Contents]
      BY <2>1 DEF Contents
    <2>3. \A d \in Cell : UpToDate(contents[d]) => UpToDate(SetUp(page, c)[d])
      BY <2>1 DEF Contents, UpToDate
    <2> QED BY <1>1, <2>2, <2>3
  <1>2. CASE page = 2
    <2> DEFINE first == [contents EXCEPT ![c].iconImage = selectedImage]
    <2>1. first \in [Cell -> Contents] /\ first[c].iconImage = selectedImage
      BY DEF Contents
    <2>2. SetUp(2, c) = [first EXCEPT ![c].userName = nameText]
      BY DEF SetUp
    <2> HIDE DEF first
    <2>3. /\ SetUp(2, c) \in [Cell -> Contents]
          /\ UpToDate(SetUp(2, c)[c])
      BY <2>1, <2>2 DEF Contents, UpToDate
    <2> QED BY <1>2, <2>3
  <1>3. CASE page = 0
    <2>1. SetUp(0, c) = contents
      BY DEF SetUp
    <2> QED BY <1>3, <2>1
  <1> QED BY <1>1, <1>2, <1>3 DEF Page

\* The first page has nothing to show yet.
LEMMA PagesInit == ASSUME Init PROVE PagesInv
  <1>1. contents \in [Cell -> Contents]
    BY PagesBounds DEF Init, Contents
  <1>2. /\ cell \in [Page -> Cell \cup {NoCell}]
        /\ \A p \in Page : cell[p] # NoCell <=> p \in Sight(behind, shown)
    BY PagesBounds DEF Init, Sight, Toward, Page
  <1>3. {nameText, selectedImage} \subseteq Version /\ timers \in [1 .. 2 -> 0 .. MaxTimers]
    BY PagesBounds DEF Init
  <1>4. currentPage \in Page /\ shown \in Page /\ behind \in Page /\ title \in Title
    BY DEF Init, Page, Title
  <1>5. TypeOK
    BY <1>1, <1>2, <1>3, <1>4 DEF Init, TypeOK
  <1> QED BY <1>5 DEF Init, PagesInv, TitleOf

\* The buttons, the dots, the animation and the drag move the pages.
LEMMA PagesMove ==
  ASSUME PagesInv,
         \/ didTapPrevButton \/ NextPage \/ TapDots \/ ScrollGoesOn
         \/ \E page, other \in Page : EndDragging(page, other)
  PROVE  PagesInv'
  <1>0. TypeOK
    BY DEF PagesInv
  <1>1. CASE didTapPrevButton
    <2>1. PICK page \in {0, 1} : currentPage' = page /\ ScrollTo(page)
      BY <1>0, <1>1 DEF didTapPrevButton, TypeOK, Page
    <2>2. page \in Page
      BY DEF Page
    <2>3. PICK from \in Page : Look(from, page)
      BY <1>0, <2>1, <2>2, ScrollSetsOut
    <2>4. /\ UNCHANGED <<contents, timers, nameText, selectedImage, picking, item, disturbed>>
          /\ title' = "next"
      BY <1>1 DEF didTapPrevButton, infoVars
    <2> HIDE DEF Look
    <2>5. TypeOK'
      BY <1>0, <2>1, <2>2, <2>3, <2>4, LookSees DEF TypeOK, Title
    <2>6. shown' # 2 /\ title' = TitleOf(shown')
      BY <1>0, <2>1, <2>2, <2>3, <2>4, LookSees DEF TitleOf
    <2> QED BY <2>5, <2>6 DEF PagesInv
  <1>2. CASE NextPage
    <2> DEFINE page == currentPage + 1
    <2>1. page \in 1 .. 2 /\ page \in Page /\ timers[page] < MaxTimers
      BY <1>0, <1>2 DEF NextPage, TypeOK, Page
    <2>2. /\ currentPage' = page /\ ScrollTo(page) /\ title' = TitleOf(page)
          /\ timers' = [timers EXCEPT ![page] = @ + 1]
          /\ disturbed' = ~(AtRest /\ shown = currentPage)
          /\ UNCHANGED <<contents, nameText, selectedImage, picking, item>>
      BY <1>2 DEF NextPage, infoVars
    <2>3. PICK from \in Page : Look(from, page) /\ (AtRest => from = shown)
      BY <1>0, <2>1, <2>2, ScrollSetsOut
    <2>4. timers' \in [1 .. 2 -> 0 .. MaxTimers] /\ timers'[page] > 0
      BY <1>0, <2>1, <2>2, PagesBounds DEF TypeOK
    <2>5. title' \in Title /\ disturbed' \in BOOLEAN
      BY <2>2 DEF TitleOf, Title
    <2>6. /\ behind' = from /\ shown' = page
          /\ cell' \in [Page -> Cell \cup {NoCell}]
          /\ \A p \in Page : cell'[p] # NoCell <=> p \in Sight(from, page)
      <3> HIDE DEF page
      <3> QED BY <1>0, <2>1, <2>3, LookSees
    <2>7. TypeOK'
      <3> HIDE DEF page
      <3> QED BY <1>0, <2>1, <2>2, <2>4, <2>5, <2>6 DEF TypeOK
    <2>8. ~disturbed' => cell'[page] # NoCell
      <3>1. ~disturbed' => from = currentPage
        BY <2>2, <2>3
      <3>2. from = currentPage => page \in Sight(from, page)
        BY <1>0 DEF Sight, Toward, TypeOK, Page
      <3> QED BY <2>1, <2>6, <3>1, <3>2
    <2> HIDE DEF page
    <2> QED BY <2>2, <2>4, <2>6, <2>7, <2>8 DEF PagesInv
  <1>3. CASE TapDots
    <2>1. /\ UNCHANGED <<shown, behind, cell, title, contents, timers, nameText, selectedImage,
                         picking, item, disturbed>>
          /\ currentPage' \in Page
      BY <1>3 DEF TapDots, infoVars
    <2> QED BY <2>1 DEF PagesInv, TypeOK, UpToDate
  <1>4. CASE ScrollGoesOn
    <2> DEFINE next == Toward(behind, shown)
    <2>1. next \in Page /\ shown \in Page /\ behind # shown
      BY <1>0, <1>4 DEF ScrollGoesOn, AtRest, Toward, TypeOK, Page
    <2>2. /\ Look(next, shown)
          /\ UNCHANGED <<currentPage, title, contents, timers, nameText, selectedImage, picking,
                         item, disturbed>>
      BY <1>4 DEF ScrollGoesOn, infoVars
    <2>3. shown = 2 /\ cell[2] # NoCell => next = 2
      BY <1>0, <2>1 DEF TypeOK, Sight, Toward, Page
    <2>4. shown = 2 /\ next = 2 => 2 \in Sight(next, shown)
      BY DEF Sight
    <2> HIDE DEF next
    <2>5. /\ behind' = next /\ shown' = shown
          /\ cell' \in [Page -> Cell \cup {NoCell}]
          /\ \A p \in Page : cell'[p] # NoCell <=> p \in Sight(next, shown)
          /\ \A p \in Sight(next, shown) : cell[p] # NoCell => cell'[p] = cell[p]
      BY <1>0, <2>1, <2>2, LookSees
    <2>6. TypeOK'
      BY <1>0, <2>1, <2>2, <2>5 DEF TypeOK
    <2>7. shown = 2 /\ ~disturbed => cell'[2] = cell[2] /\ cell[2] # NoCell
      BY <2>3, <2>4, <2>5 DEF PagesInv
    <2> QED BY <2>2, <2>5, <2>6, <2>7 DEF PagesInv, UpToDate
  <1>5. ASSUME NEW page \in Page, NEW other \in Page, EndDragging(page, other) PROVE PagesInv'
    <2>1. /\ Look(other, page) /\ currentPage' = page /\ title' = TitleOf(page)
          /\ contents' = SetUp(page, cell'[page]) /\ disturbed' = FALSE
          /\ UNCHANGED <<timers, nameText, selectedImage, picking, item>>
      BY <1>5 DEF EndDragging, infoVars
    <2>2. page \in Sight(other, page)
      BY <1>5 DEF EndDragging, Sight, Toward, Page
    <2>3. /\ behind' = other /\ shown' = page
          /\ cell' \in [Page -> Cell \cup {NoCell}]
          /\ \A p \in Page : cell'[p] # NoCell <=> p \in Sight(other, page)
      BY <1>0, <2>1, LookSees
    <2>4. cell'[page] # NoCell /\ cell'[page] \in Cell
      BY <2>2, <2>3
    <2>5. /\ contents' \in [Cell -> Contents]
          /\ page = 2 => UpToDate(contents'[cell'[page]])
      <3>1. contents \in [Cell -> Contents] /\ nameText \in Version /\ selectedImage \in Version
        BY <1>0 DEF TypeOK
      <3> QED BY <2>1, <2>4, <3>1, SetUpShows
    <2>6. title' \in Title
      BY <2>1 DEF TitleOf, Title
    <2>7. TypeOK'
      BY <1>0, <2>1, <2>3, <2>5, <2>6 DEF TypeOK
    <2> QED BY <2>1, <2>3, <2>4, <2>5, <2>7 DEF PagesInv, UpToDate
  <1> QED BY <1>1, <1>2, <1>3, <1>4, <1>5

\* What is typed, picked and registered.
LEMMA PagesEdit ==
  ASSUME PagesInv,
         \/ Register \/ didChangeText \/ didTapCharactorButton
         \/ PictureChosen \/ PickerCancelled
  PROVE  PagesInv'
  <1> USE DEF PagesInv, TypeOK
  <1>1. CASE Register
    <2>1. /\ UNCHANGED <<currentPage, shown, behind, cell, title, contents, timers, nameText,
                         selectedImage, picking, disturbed>>
          /\ item' \in Item
      BY <1>1 DEF Register, viewVars, infoVars, Item
    <2> QED BY <2>1 DEF UpToDate
  <1>2. CASE didChangeText
    <2>1. /\ UNCHANGED <<currentPage, shown, behind, cell, title, contents, timers, selectedImage,
                         picking, item>>
          /\ nameText < MaxEdits /\ nameText' = nameText + 1
          /\ disturbed' \in BOOLEAN /\ (shown = 2 => disturbed')
          /\ (disturbed' => disturbed \/ shown = 2)
      BY <1>2 DEF didChangeText, Outdate, viewVars
    <2>2. nameText' \in Version
      BY <2>1, PagesBounds DEF Version
    <2> QED BY <2>1, <2>2
  <1>3. CASE didTapCharactorButton
    <2>1. /\ UNCHANGED <<currentPage, shown, behind, cell, title, contents, timers, nameText,
                         selectedImage, item, disturbed>>
          /\ picking' = TRUE
      BY <1>3 DEF didTapCharactorButton, viewVars, infoVars
    <2> QED BY <2>1 DEF UpToDate
  <1>4. CASE PictureChosen
    <2>1. /\ UNCHANGED <<currentPage, shown, behind, cell, title, contents, timers, nameText,
                         item>>
          /\ selectedImage < MaxEdits /\ selectedImage' = selectedImage + 1
          /\ picking' \in BOOLEAN /\ disturbed' \in BOOLEAN /\ (shown = 2 => disturbed')
      BY <1>4 DEF PictureChosen, Outdate, viewVars
    <2>2. selectedImage' \in Version
      BY <2>1, PagesBounds DEF Version
    <2> QED BY <2>1, <2>2
  <1>5. CASE PickerCancelled
    <2>1. /\ UNCHANGED <<currentPage, shown, behind, cell, title, contents, timers, nameText,
                         selectedImage, item, disturbed>>
          /\ picking' = FALSE
      BY <1>5 DEF PickerCancelled, viewVars, infoVars
    <2> QED BY <2>1 DEF UpToDate
  <1> QED BY <1>1, <1>2, <1>3, <1>4, <1>5

\* Every step keeps the pages as PagesInv says.
LEMMA PagesNext ==
  ASSUME PagesInv, [Next]_vars PROVE PagesInv'
  <1>1. ASSUME NEW page \in 1 .. 2, TimerFires(page) PROVE PagesInv'
    <2>0. TypeOK /\ page \in Page
      BY DEF PagesInv, Page
    <2>1. /\ UNCHANGED <<currentPage, shown, behind, cell, title, nameText, selectedImage,
                         picking, item, disturbed>>
          /\ timers[page] > 0 /\ timers' = [timers EXCEPT ![page] = @ - 1]
          /\ contents' = IF cell[page] = NoCell THEN contents ELSE SetUp(page, cell[page])
      BY <1>1 DEF TimerFires, viewVars, infoVars
    <2>2. timers' \in [1 .. 2 -> 0 .. MaxTimers] /\ (page = 1 => timers'[2] = timers[2])
      BY <2>0, <2>1, PagesBounds DEF TypeOK
    <2>3. CASE cell[page] = NoCell
      <3>1. TypeOK'
        BY <2>0, <2>1, <2>2, <2>3 DEF TypeOK
      <3> QED BY <2>0, <2>1, <2>2, <2>3, <3>1 DEF PagesInv, UpToDate, Page
    <2>4. CASE cell[page] # NoCell
      <3>1. /\ cell[page] \in Cell /\ contents \in [Cell -> Contents]
            /\ nameText \in Version /\ selectedImage \in Version
            /\ cell[2] \in Cell \cup {NoCell}
        BY <2>0, <2>4 DEF TypeOK, Page
      <3>2. /\ contents' \in [Cell -> Contents]
            /\ page = 2 => UpToDate(contents'[cell[2]])
            /\ page = 1 => \A d \in Cell : UpToDate(contents[d]) => UpToDate(contents'[d])
        BY <2>0, <2>1, <2>4, <3>1, SetUpShows
      <3>3. TypeOK'
        BY <2>0, <2>1, <2>2, <3>2 DEF TypeOK
      <3>4. shown = 2 /\ ~disturbed /\ timers'[2] = 0 => UpToDate(contents'[cell[2]])
        BY <2>2, <3>1, <3>2 DEF PagesInv
      <3> QED BY <2>1, <3>3, <3>4 DEF PagesInv, UpToDate
    <2> QED BY <2>3, <2>4
  <1>2. CASE UNCHANGED vars
    BY <1>2 DEF PagesInv, TypeOK, vars, viewVars, infoVars, UpToDate
  <1> QED BY <1>1, <1>2, PagesMove, PagesEdit DEF Next

\* PagesInv holds in every behaviour.
LEMMA PagesInvariance == Spec => []PagesInv
  <1>1. Init => PagesInv
    BY PagesInit
  <1>2. PagesInv /\ [Next]_vars => PagesInv'
    BY PagesNext
  <1> QED BY <1>1, <1>2, PTL DEF Spec

\* The pages and what their cells show are of the types they are meant to be of:
\* no button and no drag leads out of the three pages, and exactly what is in
\* sight has a cell, wherever a scroll is redirected.
THEOREM PagesTypeCorrect == Spec => []TypeOK
  <1>1. PagesInv => TypeOK
    BY DEF PagesInv
  <1> QED BY <1>1, PagesInvariance, PTL

\* The title says what the right button does, in every page and however the
\* user got there, as long as the page control is at the page that is shown.
THEOREM TitleCorrect == Spec => []TitleTellsTheTap
  <1>1. PagesInv => TitleTellsTheTap
    BY DEF PagesInv, TypeOK, Page, Title, TitleOf, TitleTellsTheTap
  <1> QED BY <1>1, PagesInvariance, PTL

\* The last page is in sight and, once its timers have fired, shows the name and
\* the picture that will be registered, in whichever cell it came, however scrolls
\* were redirected on the way, if the last tap on next waited for the view or the
\* page came by a drag, and nothing was changed from the page itself.
THEOREM LastPageCorrect == Spec => []LastPageShowsCharacter
  <1>1. PagesInv => LastPageShowsCharacter
    BY DEF PagesInv, UpToDate, LastPageShowsCharacter
  <1> QED BY <1>1, PagesInvariance, PTL

=============================================================================
