------------------------------ MODULE ProgressHUD ------------------------------
(***************************************************************************)
(* JGProgressHUD as Dialogue uses it: one HUD, shown in a view and         *)
(* dismissed, both with a fade (JGProgressHUDFadeAnimation), and blocking  *)
(* all touches to the view it is in.                                       *)
(*                                                                         *)
(* Calls made while a fade is under way are ignored (show) or put off      *)
(* (dismiss).  The target view is a weak reference, but Dialogue's views   *)
(* never go (see Loader).                                                  *)
(*                                                                         *)
(* A definition marked "Fault" is the next unmarked one with a plausible   *)
(* slip: put in its place, it must break a property named in PROJECT.json. *)
(***************************************************************************)
CONSTANTS
  View,       \* the views it may be shown in
  NoView      \* nil, no view

VARIABLES
  targetView,
  transitioning,               \* _transitioning, and _presenting of the animation
  dismissAfterTransitionFinished

hudVars == <<targetView, transitioning, dismissAfterTransitionFinished>>

HUDTypeOK ==
  /\ targetView \in View \cup {NoView}
  /\ transitioning \in {"no", "showing", "hiding"}
  /\ dismissAfterTransitionFinished \in BOOLEAN

HUDInit ==
  /\ targetView = NoView
  /\ transitioning = "no"
  /\ dismissAfterTransitionFinished = FALSE

\* showInView: ignored while a fade is under way or the HUD is in some view
\* ("The HUD is already visible! Ignoring.").
show(view) ==
  IF transitioning # "no" \/ targetView # NoView THEN UNCHANGED hudVars
  ELSE /\ targetView' = view
       /\ transitioning' = "showing"
       /\ UNCHANGED dismissAfterTransitionFinished

\* Fault: a HUD that is still fading in cannot be dismissed.
dismissAtRest ==
  IF transitioning # "no" \/ targetView = NoView THEN UNCHANGED hudVars
  ELSE /\ transitioning' = "hiding"
       /\ UNCHANGED <<targetView, dismissAfterTransitionFinished>>

\* dismissAnimated:
dismiss ==
  CASE transitioning # "no" ->
         /\ dismissAfterTransitionFinished' = TRUE
         /\ UNCHANGED <<targetView, transitioning>>
    [] transitioning = "no" /\ targetView = NoView -> UNCHANGED hudVars
    [] OTHER ->
         /\ transitioning' = "hiding"
         /\ UNCHANGED <<targetView, dismissAfterTransitionFinished>>

\* cleanUpAfterPresentation: a dismissal that was put off begins.
Presented ==
  /\ transitioning = "showing"
  /\ transitioning' = IF dismissAfterTransitionFinished /\ targetView # NoView
                      THEN "hiding" ELSE "no"
  /\ dismissAfterTransitionFinished' = FALSE
  /\ UNCHANGED targetView

\* cleanUpAfterDismissal
Dismissed ==
  /\ transitioning = "hiding"
  /\ transitioning' = "no"
  /\ dismissAfterTransitionFinished' = FALSE
  /\ targetView' = NoView

animationDidFinish == Presented \/ Dismissed

\* Touches to the view end here: hitTest:withEvent: of a view whose alpha is 0,
\* as it is from the start of the fade out, returns nothing.
Covers(view) == targetView = view /\ transitioning # "hiding"

=============================================================================
