----------------------------- MODULE Conversations -----------------------------
(***************************************************************************)
(* Conversations from the composer to the list and back:                   *)
(* CreateChatController uploads one (ChatService), TopViewController       *)
(* fetches them all, lists them, filters the list and opens one in the     *)
(* player.                                                                 *)
(*                                                                         *)
(* TopViewController is below the composer and the player, and keeps one   *)
(* composer for as long as the app runs.  It fetches when it is loaded and *)
(* after each registration the composer reports; every answer replaces the *)
(* list and dismisses the composer, whoever asked.                         *)
(*                                                                         *)
(* One installation; conversations of other installations appear on the    *)
(* server.  Choosing lines is Composer's and ComposerPlayback's subject:   *)
(* here any line may be appended to the strip.                             *)
(*                                                                         *)
(* A definition marked "Fault" is the next unmarked one with a plausible   *)
(* slip: put in its place, it must break a property named in PROJECT.json. *)
(***************************************************************************)
EXTENDS Integers, Sequences, FiniteSets, Functions

CONSTANTS
  Line,        \* registered lines: a picture, a text and a recording each
  Title,       \* titles a conversation may have
  OwnTitle, OtherTitle,  \* those given on this device, and elsewhere
  Text,        \* what the user types into the search bar
  Blank,       \* the text of a deletion, which is empty
  Matching,    \* Matching[t] is the set of titles that contain the text t
  Launch,      \* names the fetch of viewDidLoad
  None,        \* nothing is being registered; no conversation is open
  FirstColor,  \* the color UserDefaults holds when this begins
  MaxLines,    \* bound on the lines of a conversation
  MaxUploads,  \* bound on the conversations uploaded here
  MaxOthers,   \* bound on those uploaded elsewhere
  MaxCrashes   \* bound on the ends of the process

ASSUME ConversationsAssumption ==
  /\ Blank \in Text
  /\ OwnTitle \subseteq Title /\ OtherTitle \subseteq Title
  /\ Matching \in [Text -> SUBSET Title]
  /\ FirstColor \in 0 .. 5
  /\ {MaxLines, MaxUploads, MaxOthers, MaxCrashes} \subseteq Nat
  /\ MaxLines >= 2  \* the button that registers shows at two lines

VARIABLES
  composer,       \* the composer is presented
  strip,          \* conversationBottomView.dialogues
  registerButton, \* registerButton is to be seen
  registering,    \* title and members taken at the tap, while the keyboard leaves
  unanswered,     \* conversations whose addDocument has not called back
  fetching,       \* who asked for a fetch Firestore has not answered
  answers,        \* answers on their way to the main thread: who asked, and the list
  conversations, searchedConversations,
  player,         \* the conversation that is open, or None
  color,          \* UserDefaults "color"
  clock,          \* number of conversations uploaded anywhere, as the time
  others,         \* how many of them elsewhere
  missed,         \* history: a fetch has failed
  crashes,        \* history: ends of the process
  blobs, outbox, server, rejected, cache   \* see Backend

Number == 1 .. MaxUploads + MaxOthers
Strip == UNION {[1 .. n -> Line] : n \in 0 .. MaxLines}
Conversation ==
  [no : Number, mine : BOOLEAN, title : Title, color : 0 .. 5,
   caracterImageUrls : Strip, audioUrls : Strip]

INSTANCE Backend WITH Devices <- {"this"}, Document <- Conversation

firestoreVars == <<outbox, server, rejected, cache>>
composerVars == <<composer, strip, registerButton, registering>>
listVars == <<fetching, answers, conversations, searchedConversations, player, missed>>
uploadVars == <<unanswered, color, clock>>
vars == <<composerVars, listVars, uploadVars, others, crashes, blobs, firestoreVars>>

Asker == {Launch} \cup Conversation

\* The time stamps are different: one conversation is uploaded at a time.
TypeOK ==
  /\ {composer, registerButton, missed} \subseteq BOOLEAN
  /\ strip \in Strip
  /\ registering = None \/ registering \in [title : Title, caracterImageUrls : Strip]
  /\ unanswered \subseteq Conversation
  /\ fetching \subseteq Asker
  /\ answers \in Seq([by : Asker, list : Seq(Conversation)])
  /\ {conversations, searchedConversations} \subseteq Seq(Conversation)
  /\ player \in Conversation \cup {None}
  /\ color \in 0 .. 5
  /\ clock \in 0 .. MaxUploads + MaxOthers /\ others \in 0 .. MaxOthers
  /\ crashes \in 0 .. MaxCrashes
  /\ server \subseteq Conversation /\ rejected \subseteq Conversation
  /\ outbox \in [{"this"} -> Seq(Conversation)]
  /\ cache \in [{"this"} -> SUBSET Conversation]

\* Applied at launch; the fetch is the one of viewDidLoad.
Init ==
  /\ composer = FALSE /\ strip = <<>> /\ registerButton = FALSE
  /\ registering = None
  /\ fetching = {Launch} /\ answers = <<>> /\ missed = FALSE
  /\ conversations = <<>> /\ searchedConversations = <<>> /\ player = None
  /\ unanswered = {} /\ color = FirstColor /\ clock = 0 /\ others = 0 /\ crashes = 0
  /\ BackendInit

TopIsVisible == ~composer /\ player = None

-----------------------------------------------------------------------------
\* TopViewController: fetching

\* Fault: the order is not descending.
OldestFirst(docs) ==
  {s \in [1 .. Cardinality(docs) -> docs] :
     \A i, j \in DOMAIN s : i < j => s[i].no < s[j].no}

\* order(by: "timeStamp", descending: true); there is exactly one such list.
NewestFirst(docs) ==
  {s \in [1 .. Cardinality(docs) -> docs] :
     \A i, j \in DOMAIN s : i < j => s[i].no > s[j].no}

\* Fault: the cache does not keep what a query has answered.
FetchReadUnremembered ==
  \E by \in fetching, source \in Sources("this") :
    /\ fetching' = fetching \ {by}
    /\ \E list \in NewestFirst(Answer("this", source, Conversation)) :
         answers' = Append(answers, [by |-> by, list |-> list])
    /\ UNCHANGED <<composerVars, conversations, searchedConversations, player, missed,
                   uploadVars, others, crashes, blobs, firestoreVars>>

\* Firestore answers, from the server or from what the device knows.
FetchRead ==
  \E by \in fetching, source \in Sources("this") :
    /\ fetching' = fetching \ {by}
    /\ \E list \in NewestFirst(Answer("this", source, Conversation)) :
         answers' = Append(answers, [by |-> by, list |-> list])
    /\ Remember("this", source, Conversation)
    /\ UNCHANGED <<composerVars, conversations, searchedConversations, player, missed,
                   uploadVars, others, crashes, blobs, outbox, server, rejected>>

\* Without a snapshot nobody is called back.
FetchFails ==
  \E by \in fetching :
    /\ fetching' = fetching \ {by}
    /\ missed' = TRUE
    /\ UNCHANGED <<composerVars, answers, conversations, searchedConversations, player,
                   uploadVars, others, crashes, blobs, firestoreVars>>

\* The rows are loaded anew and the composer is dismissed; the filter stays.
FetchArrives ==
  /\ answers # <<>>
  /\ answers' = Tail(answers)
  /\ conversations' = Head(answers).list
  /\ composer' = FALSE
  /\ UNCHANGED <<strip, registerButton, registering, fetching,
                 searchedConversations, player, missed, uploadVars, others, crashes,
                 blobs, firestoreVars>>

-----------------------------------------------------------------------------
\* TopViewController: the list

Rows == IF searchedConversations = <<>> THEN conversations ELSE searchedConversations

\* The search bar passes on what was typed last, not what it contains; whether
\* a title contains the empty string depends on the version of the library.
\* filter keeps the order, and conversations is newest first.
didChangeText(text) ==
  /\ TopIsVisible
  /\ LET found == NewestFirst({c \in Range(conversations) : c.title \in Matching[text]})
     IN searchedConversations' \in IF text = Blank THEN {<<>>, conversations} ELSE found
  /\ UNCHANGED <<composerVars, fetching, answers, conversations, player, missed,
                 uploadVars, others, crashes, blobs, firestoreVars>>

\* The row of the list that is shown indexes the list that is not.
didTapStartButton(row) ==
  /\ TopIsVisible
  /\ row \in DOMAIN Rows \cap DOMAIN conversations
  /\ player' = conversations[row]
  /\ UNCHANGED <<composerVars, fetching, answers, conversations, searchedConversations,
                 missed, uploadVars, others, crashes, blobs, firestoreVars>>

ClosePlayer ==
  /\ player # None
  /\ player' = None
  /\ UNCHANGED <<composerVars, fetching, answers, conversations, searchedConversations,
                 missed, uploadVars, others, crashes, blobs, firestoreVars>>

-----------------------------------------------------------------------------
\* The composer

\* defaultUI, and a new navigation controller.  A dismissal takes longer than
\* the keyboard: nothing is being registered by now.
didTapCreateButton ==
  /\ TopIsVisible /\ registering = None
  /\ composer' = TRUE /\ strip' = <<>> /\ registerButton' = FALSE
  /\ UNCHANGED <<registering, listVars, uploadVars, others, crashes, blobs, firestoreVars>>

\* UIKit passes no touch to a view while it is animated, so the strip that is read
\* at the end of the animation is the one of the tap.
Touchable == composer /\ registering = None

SelectRow(line) ==
  /\ Touchable /\ Len(strip) < MaxLines
  /\ strip' = Append(strip, line)
  /\ registerButton' = (registerButton \/ Len(strip') >= 2)
  /\ UNCHANGED <<composer, registering, listVars, uploadVars, others, crashes,
                 blobs, firestoreVars>>

didTapCloseButton ==
  /\ Touchable
  /\ composer' = FALSE
  /\ UNCHANGED <<strip, registerButton, registering, listVars, uploadVars,
                 others, crashes, blobs, firestoreVars>>

\* Members, lines and title are taken at once; then the keyboard leaves.
didTapRegisterButton(title) ==
  /\ Touchable /\ registerButton /\ clock - others < MaxUploads
  /\ registering' = [title |-> title, caracterImageUrls |-> strip]
  /\ UNCHANGED <<composer, strip, registerButton, listVars, uploadVars, others,
                 crashes, blobs, firestoreVars>>

NewConversation(own, title, colour, members, audios) ==
  [no |-> clock + 1, mine |-> own, title |-> title, color |-> colour,
   caracterImageUrls |-> members, audioUrls |-> audios]

\* Fault: the sixth color is not followed by the first.
NextColorUnwrapped(number) == number + 1

\* returnCellColor
NextColor(number) == (number + 1) % 6

\* The completion of the animation: uploadConversation, with the recordings of the
\* strip as it is by now.
KeyboardHasLeft ==
  /\ registering # None
  /\ registering' = None
  /\ LET doc == NewConversation(TRUE, registering.title, color,
                                registering.caracterImageUrls, strip)
     IN /\ SetData("this", doc)
        /\ unanswered' = unanswered \cup {doc}
  /\ color' = NextColor(color)
  /\ clock' = clock + 1
  /\ UNCHANGED <<composer, strip, registerButton, listVars, others, crashes, blobs,
                 server, rejected, cache>>

\* Fault: the completion of the composer is not called.
UploadAnsweredSilently ==
  \E doc \in unanswered :
    /\ Decided("this", doc)
    /\ unanswered' = unanswered \ {doc}
    /\ UNCHANGED <<composerVars, listVars, color, clock, others, crashes, blobs,
                   firestoreVars>>

\* The completion of addDocument: an error is printed, a success is reported to
\* TopViewController, which fetches.
UploadAnswered ==
  \E doc \in unanswered :
    /\ Decided("this", doc)
    /\ unanswered' = unanswered \ {doc}
    /\ fetching' = IF doc \in server THEN fetching \cup {doc} ELSE fetching
    /\ UNCHANGED <<composerVars, answers, conversations, searchedConversations, player,
                   missed, color, clock, others, crashes, blobs, firestoreVars>>

-----------------------------------------------------------------------------
\* Around the app

ServerDecides ==
  /\ ServerCommits("this") \/ ServerRejects("this")
  /\ UNCHANGED <<composerVars, listVars, uploadVars, others, crashes, blobs>>

UploadedElsewhere(title) ==
  /\ others < MaxOthers
  /\ others' = others + 1 /\ clock' = clock + 1
  /\ \E line \in Line :
       server' = server \cup
                 {NewConversation(FALSE, title, 0, <<line, line>>, <<line, line>>)}
  /\ UNCHANGED <<composerVars, listVars, unanswered, color, crashes, blobs, outbox,
                 rejected, cache>>

\* The process ends and is launched again.
Relaunch ==
  /\ crashes < MaxCrashes
  /\ crashes' = crashes + 1
  /\ composer' = FALSE /\ strip' = <<>> /\ registerButton' = FALSE
  /\ registering' = None
  /\ fetching' = {Launch} /\ answers' = <<>> /\ missed' = FALSE
  /\ conversations' = <<>> /\ searchedConversations' = <<>> /\ player' = None
  /\ unanswered' = {}
  /\ KeepOnDisk("this")
  /\ UNCHANGED <<color, clock, others, blobs>>

Crash == Relaunch

\* A row of the filtered list past the end of the other one: index out of range.
TapRowWithoutConversation ==
  /\ TopIsVisible
  /\ DOMAIN Rows \ DOMAIN conversations # {}
  /\ Relaunch

-----------------------------------------------------------------------------
Firestore == FetchRead \/ ServerDecides
Callbacks == FetchArrives \/ KeyboardHasLeft \/ UploadAnswered

Next ==
  \/ Firestore \/ FetchFails \/ Callbacks
  \/ \E text \in Text : didChangeText(text)
  \/ \E row \in Number : didTapStartButton(row)
  \/ ClosePlayer
  \/ didTapCreateButton \/ didTapCloseButton
  \/ \E line \in Line : SelectRow(line)
  \/ \E title \in OwnTitle : didTapRegisterButton(title)
  \/ \E title \in OtherTitle : UploadedElsewhere(title)
  \/ Crash \/ TapRowWithoutConversation

\* Firestore answers and decides, and the main queue runs what is ready.
Fairness == WF_vars(FetchRead) /\ WF_vars(ServerDecides) /\ WF_vars(Callbacks)

Spec == Init /\ [][Next]_vars /\ Fairness

-----------------------------------------------------------------------------
\* When every fetch has been answered, the list has every conversation whose
\* registration has been confirmed to this process, or that was registered
\* before it was launched.
ListIsComplete ==
  ~missed /\ fetching = {} /\ answers = <<>> =>
    \A doc \in server \ unanswered : doc.mine => doc \in Range(conversations)

\* An answer never takes a conversation off the list that an earlier one has
\* put there, unless the server has refused it: answers come in the order in
\* which they were read, from the server or from the cache.
ListKeepsWhatItShowed ==
  [][crashes' = crashes =>
       Range(conversations) \ rejected \subseteq Range(conversations')]_vars


\* The filtered list is longer than the list itself, and its last rows end the
\* process when they are tapped, only after an upload was refused that had been
\* listed while it was queued.
LongerOnlyAfterRefusal ==
  Len(searchedConversations) > Len(conversations) =>
    \E i \in DOMAIN searchedConversations : searchedConversations[i] \in rejected

\* A row of the filtered list opens the conversation of that row in the list that
\* is not shown.  It may be another one than the row shows, but, unless an upload
\* was refused, never one that is older: both lists are newest first, and the
\* filtered one has nothing that the other one lacks.
OpensNoOlder ==
  \A row \in DOMAIN searchedConversations \cap DOMAIN conversations :
    conversations[row].no < searchedConversations[row].no =>
      \E i \in DOMAIN searchedConversations : searchedConversations[i] \in rejected

=============================================================================
