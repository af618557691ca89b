------------------------------- MODULE Composer -------------------------------
(***************************************************************************)
(* CreateChatController: the list of characters, the rows of lines under   *)
(* it, and who is selected, while registrations answer.  TopViewController *)
(* keeps one composer for as long as the app runs and shows it in a new    *)
(* navigation controller each time; a dismissal (the close button, or the  *)
(* answer to a fetchConversations) takes the register page with it, and    *)
(* the registration that page started goes on.                             *)
(*                                                                         *)
(* A registration is named by the character or the line it registers.  Its *)
(* chain of callbacks is Registration's subject; here it publishes, reads  *)
(* the characters, and answers.                                            *)
(*                                                                         *)
(* A definition marked "Fault" is the next unmarked one with a plausible   *)
(* slip: put in its place, it must break a property named in PROJECT.json. *)
(***************************************************************************)
EXTENDS Integers, Sequences

CONSTANTS
  Character,    \* characters (characterID)
  Line,         \* lines (dialogueID)
  CharacterOf,  \* CharacterOf[l] is the character line l is of
  FirstLine,    \* FirstLine[c] is the line registered together with c
  NameOf,       \* NameOf[c]; names are not unique
  Early,        \* sequence of characters registered before the app was launched
  None,         \* nothing selected, nothing picked
  Blank         \* a row whose label defaultUI has emptied

ASSUME ComposerAssumption ==
  /\ CharacterOf \in [Line -> Character]
  /\ FirstLine \in [Character -> Line]
  /\ \A c \in Character : CharacterOf[FirstLine[c]] = c
  /\ Early \in Seq(Character)
  /\ \A i, j \in DOMAIN Early : Early[i] = Early[j] => i = j
  /\ None \notin Character \cup Line
  /\ Blank \notin Line
  /\ Character \cap Line = {}

VARIABLES
  chars, lines,        \* the collections on the server, newest first
  stage,               \* per registration: new, working, read, over
  seen,                \* per new character, the characters its closures hold
  screen,              \* hidden, composer, the registration whose page is on top,
                       \* or ended
  asked,               \* the first fetches (viewDidLoad) without an answer
  late,                \* history: the list ends in a first answer that came late
  listed,              \* characterListView.characters
  dialogues,           \* every line the composer knows
  selectedCharacter,
  selectedDialogues,   \* the lines dialogueListView is to show
  rows,                \* the rows it shows since its last reloadData
  picked               \* the line appended to the strip last

catalogue == <<chars, lines>>
selection == <<selectedCharacter, selectedDialogues, rows, picked>>
vars == <<catalogue, stage, seen, screen, asked, late, listed, dialogues, selection>>

Registrations == Character \cup Line

TypeOK ==
  /\ chars \in Seq(Character) /\ lines \in Seq(Line)
  /\ stage \in [Registrations -> {"new", "working", "read", "over"}]
  /\ seen \in [Character -> Seq(Character)]
  /\ screen \in {"hidden", "composer", "ended"} \cup Registrations
  /\ asked \subseteq {"characters", "dialogues"}
  /\ late \in BOOLEAN
  /\ listed \in Seq(Character)
  /\ dialogues \in Seq(Line)
  /\ selectedCharacter \in Character \cup {None}
  /\ selectedDialogues \in Seq(Line)
  /\ rows \in Seq(Line \cup {Blank})
  /\ picked \in Line \cup {None}

EarlyOnes == {Early[i] : i \in DOMAIN Early}

\* The composer is opened for the first time, and viewDidLoad asks for both
\* collections.
Init ==
  /\ chars = Early
  /\ lines = [i \in DOMAIN Early |-> FirstLine[Early[i]]]
  /\ stage = [r \in Registrations |->
                IF r \in EarlyOnes \cup {FirstLine[c] : c \in Character} THEN "over" ELSE "new"]
  /\ seen = [c \in Character |-> <<>>]
  /\ screen = "composer"
  /\ asked = {"characters", "dialogues"}
  /\ late = FALSE
  /\ listed = <<>>
  /\ dialogues = <<>>
  /\ selectedCharacter = None
  /\ selectedDialogues = <<>>
  /\ rows = <<>>
  /\ picked = None

-----------------------------------------------------------------------------
\* Helpers

\* filter: what s has of the set wanted, in its order.
Filter(s, wanted) ==
  LET upTo[n \in 0 .. Len(s)] ==
        IF n = 0 THEN <<>>
        ELSE IF s[n] \in wanted THEN Append(upTo[n - 1], s[n]) ELSE upTo[n - 1]
  IN upTo[Len(s)]

LinesOf(ls, c) == Filter(ls, {l \in Line : CharacterOf[l] = c})

\* dialogueListView.reloadData()
Reload == rows' = selectedDialogues'

\* Fault: the rows of the character shown before stay.
AddDialogues(ls, c) ==
  /\ selectedDialogues' = selectedDialogues \o LinesOf(ls, c)
  /\ Reload

\* updateDialogues(character:)
updateDialogues(ls, c) ==
  /\ selectedDialogues' = LinesOf(ls, c)
  /\ Reload

\* Writes are refused now and then; a refused write publishes nothing.
Published(seq, x) == {seq, <<x>> \o seq}

-----------------------------------------------------------------------------
\* The first answers

\* The characters are appended to whatever the list shows by then.
fetchCharacters ==
  /\ "characters" \in asked
  /\ asked' = asked \ {"characters"}
  /\ listed' = listed \o chars
  /\ late' = (listed # <<>>)
  /\ UNCHANGED <<catalogue, stage, seen, screen, dialogues, selection>>

fetchDialogues ==
  /\ "dialogues" \in asked
  /\ asked' = asked \ {"dialogues"}
  /\ dialogues' = lines
  /\ UNCHANGED <<catalogue, stage, seen, screen, late, listed, selection>>

-----------------------------------------------------------------------------
\* Selecting

selectCharacter(c) ==
  /\ screen = "composer"
  /\ \E i \in DOMAIN listed : listed[i] = c
  /\ selectedCharacter' = c
  /\ updateDialogues(dialogues, c)
  /\ UNCHANGED <<catalogue, stage, seen, screen, asked, late, listed, dialogues, picked>>

\* didSelectRowAt, for a row that has a line.
SelectRow(i) ==
  /\ screen = "composer"
  /\ i \in DOMAIN rows \cap DOMAIN selectedDialogues
  /\ picked' = selectedDialogues[i]
  /\ UNCHANGED <<catalogue, stage, seen, screen, asked, late, listed, dialogues,
                 selectedCharacter, selectedDialogues, rows>>

\* didSelectRowAt, for a row that has none: the index is out of range and the
\* process ends.  The next launch is Init again, with what was published.
SelectMissingRow(i) ==
  /\ screen = "composer"
  /\ i \in DOMAIN rows \ DOMAIN selectedDialogues
  /\ screen' = "ended"
  /\ asked' = {}
  /\ stage' = [r \in Registrations |-> "over"]
  /\ UNCHANGED <<catalogue, seen, late, listed, dialogues, selection>>

-----------------------------------------------------------------------------
\* Registering

\* The register page of a new character, and the tap on its register button.
RegisterCharacter(c) ==
  /\ screen = "composer"
  /\ stage[c] = "new"
  /\ stage' = [stage EXCEPT ![c] = "working"]
  /\ screen' = c
  /\ UNCHANGED <<catalogue, seen, asked, late, listed, dialogues, selection>>

\* didTapAddDialogueButton, and the tap on the page's register button: the
\* closures keep the character that is selected now.
RegisterLine(l) ==
  /\ screen = "composer"
  /\ stage[l] = "new"
  /\ selectedCharacter = CharacterOf[l]
  /\ stage' = [stage EXCEPT ![l] = "working"]
  /\ screen' = l
  /\ UNCHANGED <<catalogue, seen, asked, late, listed, dialogues, selection>>

\* popToRootViewController shows the composer again, if the page is still there.
PopPage(r) == screen' = IF screen = r THEN "composer" ELSE screen

\* The writes of a new character have been decided and the characters are read.
CharactersRead(c) ==
  /\ stage[c] = "working"
  /\ stage' = [stage EXCEPT ![c] = "read"]
  /\ chars' \in Published(chars, c)
  /\ lines' \in Published(lines, FirstLine[c])
  /\ seen' = [seen EXCEPT ![c] = chars']
  /\ UNCHANGED <<screen, asked, late, listed, dialogues, selection>>

\* Fault: the list is not emptied first.
AddToList(cs) == listed' = listed \o cs

ReplaceList(cs) == listed' = cs

\* Fault: who was selected stays selected.
SelectNobody(cs) == UNCHANGED selectedCharacter

SelectFirst(cs) == selectedCharacter' = IF cs = <<>> THEN None ELSE Head(cs)

\* updateCharacter(newInfo:), the characters newest first.  Lines are compared with
\* the first character by name, and the last that matches is shown; when none
\* does, the rows stay.
updateCharacter(cs, ls) ==
  LET sameName == Filter(ls, {l \in Line :
                    cs # <<>> /\ NameOf[CharacterOf[l]] = NameOf[Head(cs)]})
  IN /\ ReplaceList(cs)
     /\ dialogues' = ls
     /\ selectedDialogues' = IF sameName = <<>> THEN selectedDialogues
                             ELSE <<sameName[Len(sameName)]>>
     /\ SelectFirst(cs)
     /\ Reload

\* The lines are read too, and the completion of the register page runs.
CharacterRegistered(c) ==
  /\ stage[c] = "read"
  /\ stage' = [stage EXCEPT ![c] = "over"]
  /\ updateCharacter(seen[c], lines)
  /\ PopPage(c)
  /\ late' = FALSE
  /\ UNCHANGED <<catalogue, seen, asked, picked>>

\* The line's write has been decided, the lines are read, the completion runs.
LineRegistered(l) ==
  /\ stage[l] = "working"
  /\ stage' = [stage EXCEPT ![l] = "over"]
  /\ lines' \in Published(lines, l)
  /\ dialogues' = lines'
  /\ updateDialogues(lines', CharacterOf[l])
  /\ PopPage(l)
  /\ UNCHANGED <<chars, seen, asked, late, listed, selectedCharacter, picked>>

-----------------------------------------------------------------------------
\* Leaving and coming back

\* The close button, or a fetchConversations that is answered.
Dismiss ==
  /\ screen \notin {"hidden", "ended"}
  /\ screen' = "hidden"
  /\ UNCHANGED <<catalogue, stage, seen, asked, late, listed, dialogues, selection>>

\* Fault: the lines go and the labels stay.
KeepLabels(emptied) == UNCHANGED rows

EmptyLabels(emptied) ==
  rows' = [i \in DOMAIN rows |-> IF i \in emptied THEN Blank ELSE rows[i]]

\* didTapCreateButton, defaultUI: the labels of the rows are emptied one after the
\* other; at a row without a visible cell it returns and leaves the selection.
\* The table is not reloaded, and its cells are not recycled meanwhile.
OpenAgain ==
  /\ screen = "hidden"
  /\ screen' = "composer"
  /\ \/ \E n \in DOMAIN selectedDialogues :
          /\ EmptyLabels(1 .. n - 1)
          /\ UNCHANGED <<selectedCharacter, selectedDialogues>>
     \/ /\ EmptyLabels(DOMAIN selectedDialogues)
        /\ selectedCharacter' = None
        /\ selectedDialogues' = <<>>
  /\ UNCHANGED <<catalogue, stage, seen, asked, late, listed, dialogues, picked>>

-----------------------------------------------------------------------------

Next ==
  \/ fetchCharacters \/ fetchDialogues \/ Dismiss \/ OpenAgain
  \/ \E c \in Character :
       selectCharacter(c) \/ RegisterCharacter(c) \/ CharactersRead(c) \/ CharacterRegistered(c)
  \/ \E l \in Line : RegisterLine(l) \/ LineRegistered(l)
  \/ \E i \in DOMAIN rows : SelectRow(i) \/ SelectMissingRow(i)

Spec == Init /\ [][Next]_vars

-----------------------------------------------------------------------------
\* Properties

\* A row that shows a line is that line: tapping it picks what it shows, although
\* selectedDialogues and the table are updated apart from each other.
RowsAreTrue ==
  \A i \in DOMAIN rows :
    rows[i] # Blank => i \in DOMAIN selectedDialogues /\ rows[i] = selectedDialogues[i]

\* The lines on offer are of one character, whichever registrations answer.
OneCharacterAtATime ==
  \A i, j \in DOMAIN selectedDialogues :
    CharacterOf[selectedDialogues[i]] = CharacterOf[selectedDialogues[j]]

\* Every character is offered once, unless a registration was faster than the
\* answer to the first fetch, which is then appended.
OfferedOnce ==
  ~late => \A i, j \in DOMAIN listed : listed[i] = listed[j] => i = j

\* The character a new line will be registered for is one the list offers,
\* although a registration that has read the characters early may answer late, and
\* replace the list by one that lacks a character registered in the meantime.
SelectedIsOffered ==
  selectedCharacter # None => \E i \in DOMAIN listed : listed[i] = selectedCharacter

\* README.md, "① キャラクターを選択する ② セリフを選択する": the lines on offer are
\* those of the character that is selected.
OffersLinesOfSelected ==
  \A i \in DOMAIN selectedDialogues : CharacterOf[selectedDialogues[i]] = selectedCharacter

=============================================================================
