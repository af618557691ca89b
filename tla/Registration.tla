----------------------------- MODULE Registration -----------------------------
(***************************************************************************)
(* Registering characters and lines: CharacterService, DialogueService and *)
(* DataUploader (API/), started from RegisterViewController and            *)
(* RegisterDialogueController and answered in CreateChatController.        *)
(*                                                                         *)
(* A job is one tap on the register button: the chain of nested callbacks  *)
(* that uploads the picture and the recording, writes the character and    *)
(* its first line (or a line of a known character), reads the collections  *)
(* back and hands them to the composer.  Jobs of several devices, and of   *)
(* one device, run at once.  A late answer to TopViewController's first    *)
(* fetch dismisses the composer with the register page in it, loader and   *)
(* all, so a second job can begin while the first is still under way.      *)
(*                                                                         *)
(* A definition marked "Fault" is the next unmarked one with a plausible   *)
(* slip: put in its place, it must break a property named in PROJECT.json. *)
(***************************************************************************)
EXTENDS CatalogueDocs, Sequences, Functions

CONSTANTS
  Devices,        \* installations of the app
  Home            \* Home[j] is the device job j runs on

ASSUME HomeAssumption == Home \in [Jobs -> Devices]

VARIABLES
  stage,     \* per job, the call whose callback comes next
  about,     \* per job, the character (named by the job that made it) its line is of
  newInfo,   \* per job, the documents read back, captured by its closures
  composer,  \* per device, CreateChatController: not opened yet, asking for
             \* its first list of characters, or ready
  listed,    \* per device, the characters its characterListView offers
  blobs, outbox, server, rejected, cache   \* see Backend

-----------------------------------------------------------------------------
\* The blobs, named by the job that uploads them.

Picture(j) == [kind |-> "image", job |-> j]
Recording(j) == [kind |-> "audio", job |-> j]
Blob == {Picture(j) : j \in CharacterJobs} \cup {Recording(j) : j \in Jobs}

INSTANCE Backend

firestoreVars == <<outbox, server, rejected, cache>>
vars == <<stage, about, newInfo, composer, listed,
          blobs, outbox, server, rejected, cache>>

\* The blobs a document names by their URL.
\* A line carries the picture of its character.
Media(doc) ==
  IF doc.collection = "characters" THEN {Picture(doc.job)}
  ELSE {Recording(doc.job)} \cup
       (IF about[doc.job] \in CharacterJobs THEN {Picture(about[doc.job])} ELSE {})

Waiting == {
  "putImage",         \* next: ImagePut
  "imageUrl",         \* next: ImageUrlArrives, UrlMissing
  "putAudio",         \* next: AudioPut
  "audioUrl",         \* next: AudioUrlArrives, UrlMissing
  "setCharacter",     \* next: CharacterWritten
  "setDialogue",      \* next: DialogueWritten
  "fetchCharacters",  \* next: CharactersRead, ReadFails
  "fetchDialogues"}   \* next: DialoguesRead, ReadFails

Stage == Waiting \cup {
  "idle",      \* the register button has not been tapped
  "done",      \* the completion has run: loader away, back to the composer
  "stalled",   \* a guard returned without calling anyone back: loader for good
  "dead"}      \* the process died under it

TypeOK ==
  /\ stage \in [Jobs -> Stage]
  /\ about \in [Jobs -> CharacterJobs \cup {NoCharacter}]
  /\ newInfo \in [Jobs -> SUBSET Document]
  /\ composer \in [Devices -> {"closed", "asking", "ready"}]
  /\ listed \in [Devices -> SUBSET CharacterJobs]
  /\ blobs \subseteq Blob
  /\ outbox \in [Devices -> Seq(Document)]
  /\ server \subseteq Document
  /\ rejected \subseteq Document
  /\ cache \in [Devices -> SUBSET Document]

Init ==
  /\ stage = [j \in Jobs |-> "idle"]
  /\ about = [j \in Jobs |-> IF j \in CharacterJobs THEN j ELSE NoCharacter]
  /\ newInfo = [j \in Jobs |-> {}]
  /\ composer = [d \in Devices |-> "closed"]
  /\ listed = [d \in Devices |-> {}]
  /\ BackendInit

Becomes(j, s) == stage' = [stage EXCEPT ![j] = s]
Moves(j, from, to) == stage[j] = from /\ Becomes(j, to)

-----------------------------------------------------------------------------
\* The composer's first list, and the register buttons

OpenComposer(d) ==
  /\ composer[d] = "closed"
  /\ composer' = [composer EXCEPT ![d] = "asking"]
  /\ UNCHANGED <<stage, about, newInfo, listed, blobs, firestoreVars>>

\* The answer is appended to whatever the list shows by then.
ListArrives(d) ==
  /\ composer[d] = "asking"
  /\ composer' = [composer EXCEPT ![d] = "ready"]
  /\ \E source \in Sources(d) :
       /\ listed' = [listed EXCEPT ![d] = @ \cup Named(Answer(d, source, AllCharacters))]
       /\ Remember(d, source, AllCharacters)
  /\ UNCHANGED <<stage, about, newInfo, blobs, outbox, server, rejected>>

\* Without a snapshot the answer is dropped and never asked for again.
ListFails(d) ==
  /\ composer[d] = "asking"
  /\ composer' = [composer EXCEPT ![d] = "ready"]
  /\ UNCHANGED <<stage, about, newInfo, listed, blobs, firestoreVars>>

\* An unpicked image has no JPEG data, and uploadCharacter returns behind the loader.
RegisterCharacter(j) ==
  /\ j \in CharacterJobs
  /\ composer[Home[j]] # "closed"
  /\ stage[j] = "idle"
  /\ \E s \in {"putImage", "stalled"} : Becomes(j, s)
  /\ UNCHANGED <<about, newInfo, composer, listed, blobs, firestoreVars>>

\* A line is about the character selected in the list.
RegisterLine(j) ==
  /\ j \in LineJobs
  /\ Moves(j, "idle", "putAudio")
  /\ \E c \in listed[Home[j]] : about' = [about EXCEPT ![j] = c]
  /\ UNCHANGED <<newInfo, composer, listed, blobs, firestoreVars>>

-----------------------------------------------------------------------------
\* DataUploader: the picture first, then the recording

\* The error of the transfer is not looked at.
ImagePut(j) ==
  /\ Moves(j, "putImage", "imageUrl")
  /\ PutBlob(Picture(j))
  /\ UNCHANGED <<about, newInfo, composer, listed, firestoreVars>>

\* Fault: the chain goes on without looking at the URL.
ImageUrlUnchecked(j) ==
  /\ Moves(j, "imageUrl", "putAudio")
  /\ UNCHANGED <<about, newInfo, composer, listed, blobs, firestoreVars>>

\* Fault: the character is written as soon as its picture has a URL.
ImageUrlWritesCharacter(j) ==
  /\ Picture(j) \in blobs
  /\ Moves(j, "imageUrl", "putAudio")
  /\ SetData(Home[j], CharacterDoc(j))
  /\ UNCHANGED <<about, newInfo, composer, listed, blobs, server, rejected, cache>>

\* A URL exists only for a blob that is stored.
ImageUrlArrives(j) ==
  /\ Picture(j) \in blobs
  /\ Moves(j, "imageUrl", "putAudio")
  /\ UNCHANGED <<about, newInfo, composer, listed, blobs, firestoreVars>>

\* url is nil, because nothing is stored or because asking failed: the guard
\* returns, and the completion that would take the loader away is never called.
UrlMissing(j) ==
  /\ stage[j] \in {"imageUrl", "audioUrl"}
  /\ Becomes(j, "stalled")
  /\ UNCHANGED <<about, newInfo, composer, listed, blobs, firestoreVars>>

AudioPut(j) ==
  /\ Moves(j, "putAudio", "audioUrl")
  /\ PutBlob(Recording(j))
  /\ UNCHANGED <<about, newInfo, composer, listed, firestoreVars>>

\* Fault: a new character's line is written before the character.
AudioUrlWritesLineFirst(j) ==
  /\ Recording(j) \in blobs
  /\ \/ /\ j \in CharacterJobs
        /\ Moves(j, "audioUrl", "setCharacter")
        /\ SetData(Home[j], LineDoc(j))
     \/ /\ j \in LineJobs
        /\ Moves(j, "audioUrl", "setDialogue")
        /\ SetData(Home[j], LineDoc(j))
  /\ UNCHANGED <<about, newInfo, composer, listed, blobs, server, rejected, cache>>

\* The uploader's completion writes the first document of the job.
AudioUrlArrives(j) ==
  /\ Recording(j) \in blobs
  /\ \/ /\ j \in CharacterJobs
        /\ Moves(j, "audioUrl", "setCharacter")
        /\ SetData(Home[j], CharacterDoc(j))
     \/ /\ j \in LineJobs
        /\ Moves(j, "audioUrl", "setDialogue")
        /\ SetData(Home[j], LineDoc(j))
  /\ UNCHANGED <<about, newInfo, composer, listed, blobs, server, rejected, cache>>

-----------------------------------------------------------------------------
\* The services: write, then read everything back

\* Fault: the callback returns when setData reports an error.
CharacterWrittenIfCommitted(j) ==
  /\ Moves(j, "setCharacter", "setDialogue")
  /\ CharacterDoc(j) \in server
  /\ SetData(Home[j], LineDoc(j))
  /\ UNCHANGED <<about, newInfo, composer, listed, blobs, server, rejected, cache>>

\* The error of setData is not looked at: a refused character gets its line too.
CharacterWritten(j) ==
  /\ Moves(j, "setCharacter", "setDialogue")
  /\ Decided(Home[j], CharacterDoc(j))
  /\ SetData(Home[j], LineDoc(j))
  /\ UNCHANGED <<about, newInfo, composer, listed, blobs, server, rejected, cache>>

\* Fault: the collections are read beside the write and not in its callback.
DialogueWrittenAtOnce(j) ==
  /\ Moves(j, "setDialogue",
           IF j \in CharacterJobs THEN "fetchCharacters" ELSE "fetchDialogues")
  /\ UNCHANGED <<about, newInfo, composer, listed, blobs, firestoreVars>>

DialogueWritten(j) ==
  /\ Moves(j, "setDialogue",
           IF j \in CharacterJobs THEN "fetchCharacters" ELSE "fetchDialogues")
  /\ Decided(Home[j], LineDoc(j))
  /\ UNCHANGED <<about, newInfo, composer, listed, blobs, firestoreVars>>

CharactersRead(j) ==
  /\ Moves(j, "fetchCharacters", "fetchDialogues")
  /\ \E source \in Sources(Home[j]) :
       /\ newInfo' = [newInfo EXCEPT ![j] = Answer(Home[j], source, AllCharacters)]
       /\ Remember(Home[j], source, AllCharacters)
  /\ UNCHANGED <<about, composer, listed, blobs, outbox, server, rejected>>

\* The completion: the composer's characters are replaced by the ones the job
\* read (they may be older than those it shows), the loader goes, the page pops.
DialoguesRead(j) ==
  /\ Moves(j, "fetchDialogues", "done")
  /\ \E source \in Sources(Home[j]) :
       /\ newInfo' = [newInfo EXCEPT ![j] = @ \cup Answer(Home[j], source, AllLines)]
       /\ Remember(Home[j], source, AllLines)
  /\ listed' = IF j \in CharacterJobs
               THEN [listed EXCEPT ![Home[j]] = Named(newInfo[j])]
               ELSE listed
  /\ UNCHANGED <<about, composer, blobs, outbox, server, rejected>>

\* Without a snapshot both fetches return without calling anyone back.
ReadFails(j) ==
  /\ stage[j] \in {"fetchCharacters", "fetchDialogues"}
  /\ Becomes(j, "stalled")
  /\ UNCHANGED <<about, newInfo, composer, listed, blobs, firestoreVars>>

-----------------------------------------------------------------------------
\* The environment

ServerDecides(d) ==
  /\ ServerCommits(d) \/ ServerRejects(d)
  /\ UNCHANGED <<stage, about, newInfo, composer, listed, blobs>>

\* The process of d ends (killed, crashed, battery) and with it every closure;
\* what Firestore queued on disk is sent after the next launch.
Crash(d) ==
  /\ stage' = [j \in Jobs |-> IF Home[j] = d /\ stage[j] \in Waiting \cup {"stalled"}
                              THEN "dead" ELSE stage[j]]
  /\ composer' = [composer EXCEPT ![d] = "closed"]
  /\ listed' = [listed EXCEPT ![d] = {}]
  /\ KeepOnDisk(d)
  /\ UNCHANGED <<about, newInfo, blobs>>

-----------------------------------------------------------------------------

Callback(j) ==
  \/ ImagePut(j) \/ ImageUrlArrives(j) \/ UrlMissing(j)
  \/ AudioPut(j) \/ AudioUrlArrives(j)
  \/ CharacterWritten(j) \/ DialogueWritten(j)
  \/ CharactersRead(j) \/ DialoguesRead(j) \/ ReadFails(j)

Next ==
  \/ \E j \in Jobs : RegisterCharacter(j) \/ RegisterLine(j) \/ Callback(j)
  \/ \E d \in Devices :
       OpenComposer(d) \/ ListArrives(d) \/ ListFails(d) \/ ServerDecides(d) \/ Crash(d)

Spec == Init /\ [][Next]_vars

\* Firebase calls every callback back, with an error after its retries if need
\* be, and a device does not stay offline for ever.  Nobody has to tap a button
\* and no process has to crash.
Fairness ==
  /\ \A j \in Jobs : WF_vars(Callback(j))
  /\ \A d \in Devices : WF_vars(ServerDecides(d))

FairSpec == Spec /\ Fairness

-----------------------------------------------------------------------------
\* Safety

\* Everything device d can read, now or from its cache, or offers in its list.
Readable(d) ==
  server \cup Pending(d) \cup cache[d] \cup {CharacterDoc(c) : c \in listed[d]}

\* Every document anyone can read names only blobs that are stored: no screen
\* shows a character or plays a line whose picture or recording never arrived,
\* although the uploader ignores the errors of putData and putFile.
MediaBehindDocs ==
  \A d \in Devices : \A doc \in Readable(d) : Media(doc) \subseteq blobs

\* A line everyone reads is of a character everyone reads, unless the server
\* refused that character: the composer selects lines by characterID, so an
\* orphan is a line no one can ever pick.
NoOrphanLine ==
  \A j \in Jobs :
    LineDoc(j) \in server => CharacterDoc(about[j]) \in server \cup rejected

\* A character without its first line is one whose registration is between its
\* two writes, or was cut there by a crash: nothing else leaves it half made.
NoHalfCharacter ==
  \A j \in CharacterJobs :
    /\ CharacterDoc(j) \in server
    /\ LineDoc(j) \notin server \cup rejected \cup Pending(Home[j])
    => stage[j] \in {"setCharacter", "dead"}

\* When the completion runs, what the job wrote has been decided by the server,
\* and what was not refused is in the lists the composer is given.
CompletionShowsOwn ==
  \A j \in Jobs :
    stage[j] = "done" => OwnDocs(j) \subseteq rejected \cup (newInfo[j] \cap server)

-----------------------------------------------------------------------------
\* Liveness and refinement

\* A job does not wait for ever: it completes, is dropped by a guard, or dies.
Settles == \A j \in Jobs : stage[j] \in Waiting ~> stage[j] \notin Waiting

\* A character that was queued gets its answer even when the app dies first, and
\* its first line follows it, whether the character was committed or refused,
\* unless the app died before the line was written.
FirstLineFollows ==
  \A j \in CharacterJobs :
    CharacterDoc(j) \in Pending(Home[j]) ~>
      /\ CharacterDoc(j) \in server \cup rejected
      /\ \/ LineDoc(j) \in server \cup rejected
         \/ stage[j] = "dead" /\ LineDoc(j) \notin Pending(Home[j])

\* Registration keeps the promises of Catalogue.
CatalogueStatus(s) ==
  CASE s = "idle" -> "idle"
    [] s \in Waiting -> "working"
    [] s = "done" -> "finished"
    [] s \in {"stalled", "dead"} -> "abandoned"

Promise == INSTANCE Catalogue WITH
  status <- [j \in Jobs |-> CatalogueStatus(stage[j])],
  published <- server,
  refused <- rejected

\* The whole upload chain, with its queues, crashes and failures, implements
\* the abstract catalogue.
ImplementsCatalogue == Promise!Spec

=============================================================================
