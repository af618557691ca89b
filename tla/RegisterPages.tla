------------------------------ MODULE RegisterPages ------------------------------
(***************************************************************************)
(* RegisterViewController: the three pages in which a character gets its   *)
(* name, its picture and its voice.                                        *)
(*                                                                         *)
(* The pages are items of a collection view, moved by two buttons or by    *)
(* dragging; a page control counts along, and the title of the right       *)
(* button follows.  The name and the picture are kept by the controller    *)
(* and copied into the cell of a page when it is reached, by the button    *)
(* through a timer of 0.1 s.                                               *)
(*                                                                         *)
(* Scrolling takes longer than that, and nobody waits for it: the view is  *)
(* between two pages, both have a cell, and a tap sends it elsewhere from  *)
(* there.  Cells are reused: the one that comes may be any that is not on  *)
(* the screen, with the contents of the page it was used for.  A tap on    *)
(* the dots of the page control moves it, and nobody listens to that.      *)
(*                                                                         *)
(* Recording (the sound and its text, which are the third part of the      *)
(* item), Registration (what becomes of the item) and Loader (what covers  *)
(* the page) go on where this ends.                                        *)
(*                                                                         *)
(* A definition marked "Fault" is the next unmarked one with a plausible   *)
(* slip: put in its place, it must break a property named in PROJECT.json. *)
(***************************************************************************)
EXTENDS Integers

CONSTANTS
  Cell, NoCell,  \* the cells of the collection view; a page out of sight has none
  NoItem,        \* nothing has been registered
  MaxEdits,      \* bound on the names and on the pictures
  MaxTimers      \* bound on the timers that run for a page

ASSUME RegisterPagesAssumption ==
  /\ MaxEdits \in Nat \ {0} /\ MaxTimers \in Nat
  /\ NoCell \notin Cell

Page == 0 .. 2          \* name, picture, voice
Version == 0 .. MaxEdits  \* of a name or a picture; 0 is none

VARIABLES
  currentPage,    \* pageControl.currentPage
  shown,          \* the page the collection view is at, or scrolls to
  behind,         \* the last page it passed; at rest this is `shown'
  cell,           \* cell[p]: the cell of page p, if p is in sight
  contents,       \* contents[c]: what the subviews of cell c show
  title,          \* of nextButton
  timers,         \* timers[p]: how many run for page p
  nameText, selectedImage,  \* of the controller
  picking,        \* the image picker is up
  item,           \* the item that was registered
  disturbed       \* history: the last tap on next did not wait for the view to be
                  \* at the page of the page control, or after it name or picture
                  \* were changed from the last page

viewVars == <<currentPage, shown, behind, cell, title>>
infoVars == <<nameText, selectedImage>>
vars == <<viewVars, contents, timers, infoVars, picking, item, disturbed>>

Contents == [nameLabel : Version, iconImage : Version, userName : Version]
Item == [name : Version, image : Version]
Title == {"next", "register"}  \* in the code the second is in Japanese

\* The page the view comes to next, on its way from one page to another
Toward(from, to) ==
  IF from < to THEN from + 1 ELSE IF from > to THEN from - 1 ELSE from

\* The pages of which something is on the screen: these have a cell.
Sight(from, to) == {from, Toward(from, to)}

TypeOK ==
  /\ currentPage \in Page /\ shown \in Page /\ behind \in Page
  /\ cell \in [Page -> Cell \cup {NoCell}]
  /\ \A p \in Page : cell[p] # NoCell <=> p \in Sight(behind, shown)
  /\ contents \in [Cell -> Contents]
  /\ title \in Title /\ timers \in [1 .. 2 -> 0 .. MaxTimers]
  /\ {nameText, selectedImage} \subseteq Version
  /\ item \in Item \cup {NoItem}
  /\ picking \in BOOLEAN /\ disturbed \in BOOLEAN

Init ==
  /\ currentPage = 0 /\ shown = 0 /\ behind = 0
  /\ \E c \in Cell : cell = [p \in Page |-> IF p = 0 THEN c ELSE NoCell]
  /\ contents = [c \in Cell |-> [nameLabel |-> 0, iconImage |-> 0, userName |-> 0]]
  /\ title = "next" /\ timers = [p \in 1 .. 2 |-> 0]
  /\ nameText = 0 /\ selectedImage = 0
  /\ picking = FALSE /\ item = NoItem /\ disturbed = FALSE

-----------------------------------------------------------------------------
\* The loader covers a page that registers, the picker any.
Touchable == item = NoItem /\ ~picking

AtRest == behind = shown

\* The view is between `from' and the next page to `to'.  What is in sight keeps
\* its cell; the page that comes, one at most, gets one that is not on the screen.
Look(from, to) ==
  /\ behind' = from /\ shown' = to
  /\ \E c \in Cell \ {cell[p] : p \in Sight(from, to)} :
       cell' = [p \in Page |-> IF p \notin Sight(from, to) THEN NoCell
                              ELSE IF cell[p] # NoCell THEN cell[p] ELSE c]

\* scrollToItem, animated, from wherever the view is
ScrollTo(page) ==
  \E from \in Sight(behind, shown) :
    /\ \A p \in Sight(behind, shown) : Toward(from, page) = p \/ p = from
    /\ Look(from, page)

\* The animation goes on.
ScrollGoesOn ==
  /\ ~AtRest
  /\ Look(Toward(behind, shown), shown)
  /\ UNCHANGED <<currentPage, title, contents, timers, infoVars, picking, item, disturbed>>

\* Fault: only the page of the picture is set up.
SetUpPicturePage(page, c) ==
  IF page = 1 THEN [contents EXCEPT ![c].nameLabel = nameText] ELSE contents

\* setupNaxtPageUI, with the cell c
SetUp(page, c) ==
  CASE page = 1 -> [contents EXCEPT ![c].nameLabel = nameText]
    [] page = 2 -> [contents EXCEPT ![c].iconImage = selectedImage,
                                    ![c].userName = nameText]
    [] OTHER -> contents

TitleOf(page) == IF page = 2 THEN "register" ELSE "next"

\* Fault: the page before the first.
didTapPrevButtonUnbounded ==
  /\ Touchable
  /\ currentPage' = currentPage - 1
  /\ ScrollTo(IF currentPage = 0 THEN 0 ELSE currentPage - 1)
  /\ title' = "next"
  /\ UNCHANGED <<contents, timers, infoVars, picking, item, disturbed>>

\* Fault: the title stays.
didTapPrevButtonOnly ==
  LET pageNumber == IF currentPage = 0 THEN 0 ELSE currentPage - 1
  IN /\ Touchable
     /\ currentPage' = pageNumber /\ ScrollTo(pageNumber)
     /\ UNCHANGED <<title, contents, timers, infoVars, picking, item, disturbed>>

didTapPrevButton ==
  LET pageNumber == IF currentPage = 0 THEN 0 ELSE currentPage - 1
  IN /\ Touchable
     /\ currentPage' = pageNumber /\ ScrollTo(pageNumber)
     /\ title' = "next"
     /\ UNCHANGED <<contents, timers, infoVars, picking, item, disturbed>>

\* didTapNextButton before the last page
NextPage ==
  LET pageNumber == currentPage + 1
  IN /\ Touchable /\ currentPage # 2 /\ timers[pageNumber] < MaxTimers
     /\ currentPage' = pageNumber /\ ScrollTo(pageNumber)
     /\ title' = TitleOf(pageNumber)
     /\ timers' = [timers EXCEPT ![pageNumber] = @ + 1]
     /\ disturbed' = ~(AtRest /\ shown = currentPage)
     /\ UNCHANGED <<contents, infoVars, picking, item>>

\* didTapNextButton on the last page: uploadDialogue
Register ==
  /\ Touchable /\ currentPage = 2
  /\ item' = [name |-> nameText, image |-> selectedImage]
  /\ UNCHANGED <<viewVars, contents, timers, infoVars, picking, disturbed>>

\* setupNaxtPageUI by timer: cellForItem knows no cell of a page out of sight,
\* be it that the view has gone on or that it has not come that far.
TimerFires(page) ==
  /\ timers[page] > 0 /\ timers' = [timers EXCEPT ![page] = @ - 1]
  /\ contents' = IF cell[page] = NoCell THEN contents ELSE SetUp(page, cell[page])
  /\ UNCHANGED <<viewVars, infoVars, picking, item, disturbed>>

\* scrollViewWillEndDragging, when the finger leaves the view between page and
\* another: to the next page, back, or not far enough
EndDragging(page, other) ==
  /\ Touchable
  /\ other - page \in -1 .. 1
  /\ \A p \in {page, other} : \E q \in Sight(behind, shown) : p - q \in -1 .. 1
  /\ currentPage' = page /\ Look(other, page)
  /\ title' = TitleOf(page)
  /\ contents' = SetUp(page, cell'[page])
  /\ disturbed' = FALSE
  /\ UNCHANGED <<timers, infoVars, picking, item>>

\* A tap beside the current dot; no action is set for it.
TapDots ==
  /\ Touchable
  /\ currentPage' \in {currentPage - 1, currentPage + 1} \cap Page
  /\ UNCHANGED <<shown, behind, cell, title, contents, timers, infoVars, picking, item,
                 disturbed>>

-----------------------------------------------------------------------------
\* The last page was headed for with the name and the picture of then.
Outdate == disturbed' = (disturbed \/ shown = 2)

\* didChangeText: the keyboard stays with the text field when its page goes.
didChangeText ==
  /\ Touchable /\ nameText < MaxEdits
  /\ nameText' = nameText + 1
  /\ Outdate
  /\ UNCHANGED <<viewVars, contents, timers, selectedImage, picking, item>>

didTapCharactorButton ==
  /\ Touchable /\ cell[1] # NoCell
  /\ picking' = TRUE
  /\ UNCHANGED <<viewVars, contents, timers, infoVars, item, disturbed>>

\* imagePickerController(_:didFinishPickingMediaWithInfo:): when the page of the
\* picture has gone meanwhile, the picture is kept, but the picker stays.
PictureChosen ==
  /\ picking /\ selectedImage < MaxEdits
  /\ selectedImage' = selectedImage + 1
  /\ Outdate
  /\ picking' = (cell[1] = NoCell)
  /\ UNCHANGED <<viewVars, contents, timers, nameText, item>>

\* Nothing is set for it: the picker goes by itself.
PickerCancelled ==
  /\ picking /\ picking' = FALSE
  /\ UNCHANGED <<viewVars, contents, timers, infoVars, item, disturbed>>

-----------------------------------------------------------------------------
Next ==
  \/ didTapPrevButton \/ NextPage \/ Register \/ TapDots \/ ScrollGoesOn
  \/ \E page \in 1 .. 2 : TimerFires(page)
  \/ \E page, other \in Page : EndDragging(page, other)
  \/ didChangeText \/ didTapCharactorButton \/ PictureChosen \/ PickerCancelled

Spec == Init /\ [][Next]_vars

-----------------------------------------------------------------------------
\* The title says what the right button does, in every page and however the
\* user got there, as long as the page control is at the page that is shown.
TitleTellsTheTap ==
  currentPage = shown => (title = "register" <=> currentPage = 2)

\* The last page is in sight and shows the name and the picture that would be
\* registered, once its timers have fired, also after going back to change them,
\* in a cell used before for another page, and when it was headed for in the
\* middle of a scroll by a drag.  It need not when the last tap on next came
\* before the view was at rest at the page of the page control, since then the
\* timer may find no cell, nor when they are changed after that.
LastPageShowsCharacter ==
  shown = 2 /\ timers[2] = 0 /\ ~disturbed =>
    /\ cell[2] # NoCell
    /\ contents[cell[2]].userName = nameText /\ contents[cell[2]].iconImage = selectedImage

=============================================================================
