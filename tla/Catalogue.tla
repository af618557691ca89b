------------------------------- MODULE Catalogue -------------------------------
(***************************************************************************)
(* What registration promises to everyone who reads the shared catalogue,  *)
(* whatever device, queue, picture or network is behind it:                *)
(*   - a document is published or refused once, and only for a job that    *)
(*     began;                                                              *)
(*   - a line is never published before the fate of its character is known;*)
(*   - a job is reported finished only when the fate of all it wrote is    *)
(*     known;                                                              *)
(*   - an abandoned job may still have its documents published, and is     *)
(*     never reported finished.                                            *)
(***************************************************************************)
EXTENDS CatalogueDocs

VARIABLES
  status,     \* per job: idle, working, finished or abandoned
  about,      \* per job, the character its line is of
  published,  \* documents everyone can read
  refused     \* documents nobody will ever read

catalogueVars == <<status, about, published, refused>>

Settled == published \cup refused

Init ==
  /\ status = [j \in Jobs |-> "idle"]
  /\ about = [j \in Jobs |-> IF j \in CharacterJobs THEN j ELSE NoCharacter]
  /\ published = {}
  /\ refused = {}

Begin(j) ==
  /\ status[j] = "idle"
  /\ \E s \in {"working", "abandoned"} : status' = [status EXCEPT ![j] = s]
  /\ IF j \in CharacterJobs
     THEN UNCHANGED about
     ELSE \E c \in CharacterJobs :
            /\ status[c] # "idle"
            /\ about' = [about EXCEPT ![j] = c]
  /\ UNCHANGED <<published, refused>>

Settle(doc) ==
  /\ doc \notin Settled
  /\ status[doc.job] # "idle"
  /\ doc \in AllLines => CharacterDoc(about[doc.job]) \in Settled
  /\ \/ published' = published \cup {doc} /\ UNCHANGED refused
     \/ refused' = refused \cup {doc} /\ UNCHANGED published
  /\ UNCHANGED <<status, about>>

Finish(j) ==
  /\ status[j] = "working"
  /\ OwnDocs(j) \subseteq Settled
  /\ status' = [status EXCEPT ![j] = "finished"]
  /\ UNCHANGED <<about, published, refused>>

\* A crash takes every job of the device with it.
Abandon(jobs) ==
  /\ \A j \in jobs : status[j] = "working"
  /\ status' = [j \in Jobs |-> IF j \in jobs THEN "abandoned" ELSE status[j]]
  /\ UNCHANGED <<about, published, refused>>

Next ==
  \/ \E j \in Jobs : Begin(j) \/ Finish(j)
  \/ \E doc \in Document : Settle(doc)
  \/ \E jobs \in SUBSET Jobs : Abandon(jobs)

Spec == Init /\ [][Next]_catalogueVars

=============================================================================
