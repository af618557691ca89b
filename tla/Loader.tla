--------------------------------- MODULE Loader ---------------------------------
(***************************************************************************)
(* The loader: UIViewController.showLoader, one HUD for the whole app, and *)
(* the two register pages that show it, RegisterViewController (for a      *)
(* character) and RegisterDialogueController (for a line).                 *)
(*                                                                         *)
(* A page shows the loader when the user registers and takes it away when  *)
(* the registration answers, and, on the page of a character, from the tap *)
(* on the picture until the image picker has come.  The loader is all that *)
(* keeps the user from tapping again.                                      *)
(*                                                                         *)
(* A late answer to TopViewController's fetch dismisses the composer with  *)
(* the page in it (Conversations).  Pages are never deallocated: they hold *)
(* their RecordingView, or the collection view that holds their cells, and *)
(* are the delegates of these, which are strong references.  So a loader   *)
(* in a page that was dismissed is still in it.  What a registration does  *)
(* is Registration's subject: here it answers, or a guard returns and      *)
(* nobody is called back.                                                  *)
(*                                                                         *)
(* LoaderPage, LoaderInit and so on have the module in their names because *)
(* LoaderProofs extends RegisterPages, what is on the pages, as well.      *)
(***************************************************************************)
EXTENDS Naturals

CONSTANTS
  CharacterPage, LinePage,  \* the pages the user may open, each of them once
  NoPage,                   \* nil; the composer itself is in front
  MaxTaps,                  \* bound on the registrations of a page under way
  MaxDismissals             \* bound on the late answers

LoaderPage == CharacterPage \cup LinePage

ASSUME LoaderAssumption ==
  /\ NoPage \notin LoaderPage
  /\ MaxTaps \in Nat \ {0}
  /\ MaxDismissals \in Nat

VARIABLES
  targetView, transitioning, dismissAfterTransitionFinished,  \* see ProgressHUD
  opened,      \* the pages opened so far
  front,       \* the page on top of the composer
  running,     \* running[p]: registrations of p that may still answer
  stuck,       \* pages with a registration that never will
  picker,      \* UIImagePickerController
  left,        \* history: pages left with a registration running or stuck
  dismissals   \* number of late answers so far

INSTANCE ProgressHUD WITH View <- LoaderPage, NoView <- NoPage

pageVars == <<opened, front, running, stuck, picker, left, dismissals>>
loaderVars == <<targetView, transitioning, dismissAfterTransitionFinished, pageVars>>

LoaderTypeOK ==
  /\ HUDTypeOK
  /\ opened \subseteq LoaderPage
  /\ front \in opened \cup {NoPage}
  /\ running \in [LoaderPage -> 0 .. MaxTaps]
  /\ stuck \subseteq opened /\ left \subseteq opened
  /\ picker \in {"none", "coming", "up"}
  /\ dismissals \in 0 .. MaxDismissals

LoaderInit ==
  /\ HUDInit
  /\ opened = {} /\ front = NoPage
  /\ running = [p \in LoaderPage |-> 0] /\ stuck = {}
  /\ picker = "none" /\ left = {} /\ dismissals = 0

\* A fade takes 0.4 s, leaving a page and opening another 0.7 s: the fade is
\* over when the new page takes touches.
OpenPage(page) ==
  /\ front = NoPage /\ picker = "none" /\ page \notin opened
  /\ transitioning = "no"
  /\ opened' = opened \cup {page} /\ front' = page
  /\ UNCHANGED <<targetView, transitioning, dismissAfterTransitionFinished,
                 running, stuck, picker, left, dismissals>>

TouchablePage(page) == front = page /\ page # NoPage /\ picker = "none" /\ ~Covers(page)

\* Fault: the loader is left to the services.
TapRegisterUnshown(page) ==
  /\ TouchablePage(page) /\ running[page] < MaxTaps
  /\ running' = [running EXCEPT ![page] = @ + 1]
  /\ UNCHANGED <<targetView, transitioning, dismissAfterTransitionFinished, opened,
                 front, stuck, picker, left, dismissals>>

\* uploadDialogue, in both pages
TapRegister(page) ==
  /\ TouchablePage(page) /\ running[page] < MaxTaps
  /\ show(page)
  /\ running' = [running EXCEPT ![page] = @ + 1]
  /\ UNCHANGED <<opened, front, stuck, picker, left, dismissals>>

Unfinished(page, n) == IF n > 0 \/ page \in stuck THEN {page} ELSE {}

\* Fault: a guard that returns calls the completion as well.
RegistrationAnswersAnyhow(page) ==
  /\ running[page] > 0 \/ page \in stuck
  /\ running' = [running EXCEPT ![page] = @ - 1]
  /\ dismiss
  /\ front' = IF front = page THEN NoPage ELSE front
  /\ left' = IF front = page THEN left \cup Unfinished(page, running'[page]) ELSE left
  /\ UNCHANGED <<opened, stuck, picker, dismissals>>

\* The completion: the loader goes, and the page, if it is still in front.
RegistrationAnswers(page) ==
  /\ running[page] > 0
  /\ running' = [running EXCEPT ![page] = @ - 1]
  /\ dismiss
  /\ front' = IF front = page THEN NoPage ELSE front
  /\ left' = IF front = page THEN left \cup Unfinished(page, running'[page]) ELSE left
  /\ UNCHANGED <<opened, stuck, picker, dismissals>>

\* No picture to compress, or no URL: a guard in DataUploader or in a service
\* returns, and the completion is released without having been called.
RegistrationStalls(page) ==
  /\ running[page] > 0
  /\ running' = [running EXCEPT ![page] = @ - 1]
  /\ stuck' = stuck \cup {page}
  /\ UNCHANGED <<targetView, transitioning, dismissAfterTransitionFinished, opened,
                 front, picker, left, dismissals>>

\* didTapCharactorButton
TapPicture(page) ==
  /\ page \in CharacterPage /\ TouchablePage(page)
  /\ show(page)
  /\ picker' = "coming"
  /\ UNCHANGED <<opened, front, running, stuck, left, dismissals>>

\* The completion of present.
PickerComes ==
  /\ picker = "coming"
  /\ picker' = "up"
  /\ dismiss
  /\ UNCHANGED <<opened, front, running, stuck, left, dismissals>>

\* Picked or cancelled.  Going takes the picker longer than the fade.
PickerHasGone ==
  /\ picker = "up" /\ transitioning = "no"
  /\ picker' = "none"
  /\ UNCHANGED <<targetView, transitioning, dismissAfterTransitionFinished, opened,
                 front, running, stuck, left, dismissals>>

LeaveFront ==
  /\ front' = NoPage
  /\ left' = left \cup Unfinished(front, running[front])

\* didTapBackButton
TapBack ==
  /\ front # NoPage /\ TouchablePage(front)
  /\ LeaveFront
  /\ UNCHANGED <<targetView, transitioning, dismissAfterTransitionFinished, opened,
                 running, stuck, picker, dismissals>>

\* dismiss of the composer, by TopViewController.fetchConversations: a picker
\* that is up is what it dismisses, otherwise the composer and the page.
ComposerDismissed ==
  /\ front # NoPage /\ dismissals < MaxDismissals
  /\ dismissals' = dismissals + 1
  /\ \/ picker = "up" /\ picker' = "none" /\ transitioning = "no"
        /\ UNCHANGED <<front, left>>
     \/ picker = "none" /\ LeaveFront /\ UNCHANGED picker
  /\ UNCHANGED <<targetView, transitioning, dismissAfterTransitionFinished, opened,
                 running, stuck>>

FadeEnds == animationDidFinish /\ UNCHANGED pageVars

-----------------------------------------------------------------------------
Ends(page) == RegistrationAnswers(page) \/ RegistrationStalls(page)

LoaderNext ==
  \/ \E p \in LoaderPage : OpenPage(p) \/ TapRegister(p) \/ Ends(p) \/ TapPicture(p)
  \/ PickerComes \/ PickerHasGone \/ TapBack \/ ComposerDismissed
  \/ FadeEnds

\* Animations and presentations end, registrations are called back or dropped.
LoaderFairness ==
  /\ \A p \in LoaderPage : WF_loaderVars(Ends(p))
  /\ WF_loaderVars(PickerComes) /\ WF_loaderVars(FadeEnds)

LoaderSpec == LoaderInit /\ [][LoaderNext]_loaderVars /\ LoaderFairness

-----------------------------------------------------------------------------
\* While a registration of the page in front is under way the loader covers the
\* page, so that it is not registered twice and not left; unless a page was left
\* before with a registration that had not answered.
BusyIsCovered ==
  front # NoPage /\ left = {} /\ running[front] > 0 => Covers(front)

\* The loader goes away from every page in the end, unless a registration of
\* that page is never called back: no dismissal is lost in a fade, whoever
\* shows the HUD to whom.
LoaderGoes == \A p \in LoaderPage : Covers(p) ~> (~Covers(p) \/ p \in stuck)

=============================================================================
