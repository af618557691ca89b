----------------------------- MODULE CatalogueDocs -----------------------------
(***************************************************************************)
(* The documents of the collections "characters" and "dialogues".  A       *)
(* document is named by the job (one tap on a register button) that writes *)
(* it: document() draws a fresh identifier for each.                       *)
(***************************************************************************)

CONSTANTS
  CharacterJobs,  \* registrations of a new character and its first line
  LineJobs,       \* registrations of one more line of a known character
  NoCharacter     \* what a line is about before its job starts

ASSUME JobsAssumption ==
  /\ CharacterJobs \cap LineJobs = {}
  /\ NoCharacter \notin CharacterJobs

Jobs == CharacterJobs \cup LineJobs

CharacterDoc(j) == [collection |-> "characters", job |-> j]
LineDoc(j) == [collection |-> "dialogues", job |-> j]
AllCharacters == {CharacterDoc(j) : j \in CharacterJobs}
AllLines == {LineDoc(j) : j \in Jobs}
Document == AllCharacters \cup AllLines

\* The documents job j writes.
OwnDocs(j) == IF j \in CharacterJobs THEN {CharacterDoc(j), LineDoc(j)}
                                     ELSE {LineDoc(j)}

\* The jobs behind a set of documents.
Named(docs) == {doc.job : doc \in docs}

=============================================================================
