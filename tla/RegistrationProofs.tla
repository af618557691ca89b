-------------------------- MODULE RegistrationProofs --------------------------
(***************************************************************************)
(* Proofs about Registration, for every set of devices and jobs: types,    *)
(* documents behind which all blobs are stored, the order of writes, and   *)
(* that the chain implements Catalogue.                                    *)
(***************************************************************************)
EXTENDS Registration, SequenceTheorems, TLAPS

-----------------------------------------------------------------------------
\* Facts about the queue of writes

\* What a queue holds after a write is added to it.
LEMMA AppendRange ==
  ASSUME NEW S, NEW s \in Seq(S), NEW e \in S
  PROVE  /\ Append(s, e) \in Seq(S)
         /\ Range(Append(s, e)) = Range(s) \cup {e}
<1>1. Append(s, e) \in Seq(S)
  BY AppendProperties
<1>2. /\ DOMAIN Append(s, e) = 1 .. Len(s) + 1
      /\ DOMAIN s = 1 .. Len(s)
      /\ Len(s) \in Nat
  BY <1>1, AppendProperties, LenProperties
<1>3. /\ \A i \in 1 .. Len(s) : Append(s, e)[i] = s[i]
      /\ Append(s, e)[Len(s) + 1] = e
  BY AppendProperties
<1>4. Range(Append(s, e)) \subseteq Range(s) \cup {e}
  BY <1>2, <1>3 DEF Range
<1>5. Range(s) \subseteq Range(Append(s, e))
  BY <1>2, <1>3 DEF Range
<1>6. e \in Range(Append(s, e))
  BY <1>2, <1>3 DEF Range
<1> QED
  BY <1>1, <1>4, <1>5, <1>6

\* What a queue holds before and after its oldest write is taken.
LEMMA TailRange ==
  ASSUME NEW S, NEW s \in Seq(S), s # << >>
  PROVE  /\ Head(s) \in S
         /\ Tail(s) \in Seq(S)
         /\ Range(s) = {Head(s)} \cup Range(Tail(s))
<1>1. /\ Head(s) \in S
      /\ Tail(s) \in Seq(S)
      /\ Len(Tail(s)) = Len(s) - 1
      /\ \A i \in 1 .. Len(Tail(s)) : Tail(s)[i] = s[i + 1]
  BY HeadTailProperties
<1>2. /\ Len(s) \in Nat \ {0}
      /\ DOMAIN s = 1 .. Len(s)
      /\ DOMAIN Tail(s) = 1 .. Len(s) - 1
  BY <1>1, LenProperties, EmptySeq
<1>3. Head(s) = s[1]
  OBVIOUS
<1>4. Head(s) \in Range(s)
  BY <1>2, <1>3 DEF Range
<1>5. Range(Tail(s)) \subseteq Range(s)
  BY <1>1, <1>2 DEF Range
<1>6. ASSUME NEW x \in Range(s)
      PROVE  x \in {Head(s)} \cup Range(Tail(s))
  <2>1. PICK i \in 1 .. Len(s) : x = s[i]
    BY <1>2 DEF Range
  <2>2. CASE i = 1
    BY <2>1, <2>2, <1>3
  <2>3. CASE i # 1
    <3>1. i - 1 \in 1 .. Len(s) - 1 /\ (i - 1) + 1 = i
      BY <2>1, <2>3, <1>2
    <3>2. Tail(s)[i - 1] = x
      BY <3>1, <2>1, <1>1
    <3> QED
      BY <3>1, <3>2, <1>2 DEF Range
  <2> QED
    BY <2>2, <2>3
<1> QED
  BY <1>1, <1>4, <1>5, <1>6

-----------------------------------------------------------------------------
\* Facts about documents

LEMMA DocumentTypes ==
  /\ \A j \in CharacterJobs : CharacterDoc(j) \in AllCharacters
  /\ \A j \in Jobs : LineDoc(j) \in AllLines
  /\ AllCharacters \subseteq Document
  /\ AllLines \subseteq Document
  /\ \A j \in Jobs : Home[j] \in Devices
  BY HomeAssumption DEF Jobs, AllCharacters, AllLines, Document

\* A set of characters names jobs that register characters.
LEMMA NamedCharacters ==
  ASSUME NEW docs, docs \subseteq AllCharacters
  PROVE  /\ Named(docs) \subseteq CharacterJobs
         /\ \A c \in Named(docs) : CharacterDoc(c) \in docs
  BY DEF Named, AllCharacters, CharacterDoc

\* Queries answer with documents of the collection they ask for.
LEMMA AnswerTypes ==
  ASSUME TypeOK, NEW d \in Devices, NEW source \in Sources(d), NEW wanted,
         wanted \subseteq Document
  PROVE  /\ source \subseteq Document
         /\ Answer(d, source, wanted) \subseteq wanted
         /\ Remember(d, source, wanted) => cache' \in [Devices -> SUBSET Document]
  BY DEF TypeOK, Sources, Answer, Remember

-----------------------------------------------------------------------------
\* Type correctness

\* The list the composer receives is taken from the characters a job holds, so
\* the types are inductive only with this: between the two reads a registration
\* of a character holds characters only.
ReadBack ==
  \A j \in CharacterJobs :
    stage[j] = "fetchDialogues" => newInfo[j] \subseteq AllCharacters

\* The chain of a line has no picture and no character to write or read.
LineChain ==
  \A j \in LineJobs :
    stage[j] \notin {"putImage", "imageUrl", "setCharacter", "fetchCharacters"}

TypeInv == TypeOK /\ ReadBack /\ LineChain

LEMMA InitTypeInv == Init => TypeInv
<1> SUFFICES ASSUME Init PROVE TypeInv
  OBVIOUS
<1>1. TypeOK
  BY EmptySeq DEF Init, BackendInit, TypeOK, Jobs, Stage, Waiting
<1>2. ReadBack
  BY DEF Init, ReadBack, Jobs
<1>3. LineChain
  BY DEF Init, LineChain, Jobs
<1> QED
  BY <1>1, <1>2, <1>3 DEF TypeInv

\* Queueing a document keeps the queues well typed.
LEMMA SetDataTypes ==
  ASSUME TypeOK, NEW d \in Devices, NEW doc \in Document, SetData(d, doc)
  PROVE  /\ outbox' \in [Devices -> Seq(Document)]
         /\ Pending(d)' = Pending(d) \cup {doc}
         /\ \A e \in Devices : e # d => Pending(e)' = Pending(e)
<1>1. outbox[d] \in Seq(Document)
  BY DEF TypeOK
<1>2. /\ Append(outbox[d], doc) \in Seq(Document)
      /\ Range(Append(outbox[d], doc)) = Range(outbox[d]) \cup {doc}
  BY <1>1, AppendRange
<1> QED
  BY <1>2 DEF SetData, TypeOK, Pending

\* A decision of the server takes the oldest document of one queue.
LEMMA ServerDecidesTypes ==
  ASSUME TypeOK, NEW d \in Devices, ServerDecides(d)
  PROVE  /\ outbox' \in [Devices -> Seq(Document)]
         /\ Head(outbox[d]) \in Document
         /\ Pending(d) = {Head(outbox[d])} \cup Pending(d)'
         /\ \A e \in Devices : e # d => Pending(e)' = Pending(e)
         /\ \/ /\ server' = server \cup {Head(outbox[d])}
               /\ cache' = [cache EXCEPT ![d] = @ \cup {Head(outbox[d])}]
               /\ rejected' = rejected
            \/ /\ rejected' = rejected \cup {Head(outbox[d])}
               /\ server' = server
               /\ cache' = cache
<1>1. /\ outbox[d] \in Seq(Document)
      /\ outbox[d] # << >>
      /\ outbox' = [outbox EXCEPT ![d] = Tail(@)]
  BY DEF TypeOK, ServerDecides, ServerCommits, ServerRejects
<1>2. /\ Head(outbox[d]) \in Document
      /\ Tail(outbox[d]) \in Seq(Document)
      /\ Range(outbox[d]) = {Head(outbox[d])} \cup Range(Tail(outbox[d]))
  BY <1>1, TailRange
<1>3. /\ outbox' \in [Devices -> Seq(Document)]
      /\ outbox'[d] = Tail(outbox[d])
      /\ \A e \in Devices : e # d => outbox'[e] = outbox[e]
  BY <1>1, <1>2 DEF TypeOK
<1> QED
  BY <1>2, <1>3 DEF Pending, ServerDecides, ServerCommits, ServerRejects

LEMMA NextTypeInv == TypeInv /\ [Next]_vars => TypeInv'
<1> SUFFICES ASSUME TypeInv, [Next]_vars PROVE TypeInv'
  OBVIOUS
<1>0. /\ CharacterJobs \subseteq Jobs
      /\ LineJobs \subseteq Jobs
      /\ \A j \in Jobs : j \in CharacterJobs \/ j \in LineJobs
      /\ \A j \in LineJobs : j \notin CharacterJobs
      /\ \A j \in Jobs : Home[j] \in Devices
  BY JobsAssumption, DocumentTypes DEF Jobs
<1> USE <1>0 DEF TypeInv, Moves, Becomes, firestoreVars, Stage, Waiting
<1>1. ASSUME NEW j \in Jobs, RegisterCharacter(j) PROVE TypeInv'
  BY <1>1 DEF RegisterCharacter, TypeOK, ReadBack, LineChain
<1>2. ASSUME NEW j \in Jobs, RegisterLine(j) PROVE TypeInv'
  BY <1>2 DEF RegisterLine, TypeOK, ReadBack, LineChain
<1>3. ASSUME NEW j \in Jobs, ImagePut(j) PROVE TypeInv'
  <2>1. j \in CharacterJobs
    BY <1>3 DEF ImagePut, LineChain
  <2>2. blobs' \subseteq Blob
    BY <1>3, <2>1 DEF ImagePut, PutBlob, TypeOK, Blob
  <2> QED
    BY <1>3, <2>2 DEF ImagePut, TypeOK, ReadBack, LineChain
<1>4. ASSUME NEW j \in Jobs, ImageUrlArrives(j) PROVE TypeInv'
  BY <1>4 DEF ImageUrlArrives, TypeOK, ReadBack, LineChain
<1>5. ASSUME NEW j \in Jobs, UrlMissing(j) PROVE TypeInv'
  BY <1>5 DEF UrlMissing, TypeOK, ReadBack, LineChain
<1>6. ASSUME NEW j \in Jobs, AudioPut(j) PROVE TypeInv'
  <2>1. blobs' \subseteq Blob
    BY <1>6 DEF AudioPut, PutBlob, TypeOK, Blob
  <2> QED
    BY <1>6, <2>1 DEF AudioPut, TypeOK, ReadBack, LineChain
<1>7. ASSUME NEW j \in Jobs, AudioUrlArrives(j) PROVE TypeInv'
  <2>1. \E doc \in Document : SetData(Home[j], doc)
    BY <1>7, DocumentTypes DEF AudioUrlArrives
  <2>2. outbox' \in [Devices -> Seq(Document)]
    BY <2>1, SetDataTypes
  <2> QED
    BY <1>7, <2>2 DEF AudioUrlArrives, TypeOK, ReadBack, LineChain
<1>8. ASSUME NEW j \in Jobs, CharacterWritten(j) PROVE TypeInv'
  <2>1. outbox' \in [Devices -> Seq(Document)]
    BY <1>8, DocumentTypes, SetDataTypes DEF CharacterWritten
  <2> QED
    BY <1>8, <2>1 DEF CharacterWritten, TypeOK, ReadBack, LineChain
<1>9. ASSUME NEW j \in Jobs, DialogueWritten(j) PROVE TypeInv'
  BY <1>9 DEF DialogueWritten, TypeOK, ReadBack, LineChain
<1>10. ASSUME NEW j \in Jobs, CharactersRead(j) PROVE TypeInv'
  <2>1. PICK source \in Sources(Home[j]) :
          /\ newInfo' = [newInfo EXCEPT ![j] = Answer(Home[j], source, AllCharacters)]
          /\ Remember(Home[j], source, AllCharacters)
    BY <1>10 DEF CharactersRead
  <2>2. /\ Answer(Home[j], source, AllCharacters) \subseteq AllCharacters
        /\ cache' \in [Devices -> SUBSET Document]
    BY <2>1, AnswerTypes, DocumentTypes
  <2>3. newInfo' \in [Jobs -> SUBSET Document]
    BY <2>1, <2>2, DocumentTypes DEF TypeOK
  <2>4. ReadBack'
    BY <1>10, <2>1, <2>2 DEF CharactersRead, ReadBack, TypeOK
  <2> QED
    BY <1>10, <2>2, <2>3, <2>4 DEF CharactersRead, TypeOK, LineChain
<1>11. ASSUME NEW j \in Jobs, DialoguesRead(j) PROVE TypeInv'
  <2>1. PICK source \in Sources(Home[j]) :
          /\ newInfo' = [newInfo EXCEPT ![j] = @ \cup Answer(Home[j], source, AllLines)]
          /\ Remember(Home[j], source, AllLines)
    BY <1>11 DEF DialoguesRead
  <2>2. /\ Answer(Home[j], source, AllLines) \subseteq AllLines
        /\ cache' \in [Devices -> SUBSET Document]
    BY <2>1, AnswerTypes, DocumentTypes
  <2>3. newInfo' \in [Jobs -> SUBSET Document]
    BY <2>1, <2>2, DocumentTypes DEF TypeOK
  <2>4. listed' \in [Devices -> SUBSET CharacterJobs]
    <3>1. j \in CharacterJobs => Named(newInfo[j]) \subseteq CharacterJobs
      BY <1>11, NamedCharacters DEF DialoguesRead, ReadBack
    <3> QED
      BY <1>11, <3>1 DEF DialoguesRead, TypeOK
  <2>5. ReadBack'
    BY <1>11, <2>1 DEF DialoguesRead, ReadBack, TypeOK
  <2> QED
    BY <1>11, <2>2, <2>3, <2>4, <2>5 DEF DialoguesRead, TypeOK, LineChain
<1>12. ASSUME NEW j \in Jobs, ReadFails(j) PROVE TypeInv'
  BY <1>12 DEF ReadFails, TypeOK, ReadBack, LineChain
<1>13. ASSUME NEW d \in Devices, OpenComposer(d) PROVE TypeInv'
  BY <1>13 DEF OpenComposer, TypeOK, ReadBack, LineChain
<1>14. ASSUME NEW d \in Devices, ListArrives(d) PROVE TypeInv'
  <2>1. PICK source \in Sources(d) :
          /\ listed' = [listed EXCEPT ![d] =
                          @ \cup Named(Answer(d, source, AllCharacters))]
          /\ Remember(d, source, AllCharacters)
    BY <1>14 DEF ListArrives
  <2>2. /\ Named(Answer(d, source, AllCharacters)) \subseteq CharacterJobs
        /\ cache' \in [Devices -> SUBSET Document]
    BY <2>1, AnswerTypes, NamedCharacters, DocumentTypes
  <2> QED
    BY <1>14, <2>1, <2>2 DEF ListArrives, TypeOK, ReadBack, LineChain
<1>15. ASSUME NEW d \in Devices, ListFails(d) PROVE TypeInv'
  BY <1>15 DEF ListFails, TypeOK, ReadBack, LineChain
<1>16. ASSUME NEW d \in Devices, ServerDecides(d) PROVE TypeInv'
  <2>0. PICK doc \in Document :
          \/ /\ server' = server \cup {doc}
             /\ cache' = [cache EXCEPT ![d] = @ \cup {doc}]
             /\ rejected' = rejected
          \/ /\ rejected' = rejected \cup {doc}
             /\ server' = server
             /\ cache' = cache
    BY <1>16, ServerDecidesTypes
  <2>1. server' \subseteq Document /\ rejected' \subseteq Document
    BY <2>0 DEF TypeOK
  <2>2. cache' \in [Devices -> SUBSET Document]
    <3>1. cache \in [Devices -> SUBSET Document]
      BY DEF TypeOK
    <3>2. cache[d] \cup {doc} \in SUBSET Document
      BY <3>1
    <3>3. CASE cache' = [cache EXCEPT ![d] = @ \cup {doc}]
      BY <3>1, <3>2, <3>3
    <3>4. CASE cache' = cache
      BY <3>1, <3>4
    <3> QED
      BY <2>0, <3>3, <3>4
  <2>3. outbox' \in [Devices -> Seq(Document)]
    BY <1>16, ServerDecidesTypes
  <2> QED
    BY <1>16, <2>1, <2>2, <2>3 DEF ServerDecides, TypeOK, ReadBack, LineChain
<1>17. ASSUME NEW d \in Devices, Crash(d) PROVE TypeInv'
  BY <1>17 DEF Crash, KeepOnDisk, TypeOK, ReadBack, LineChain
<1>18. ASSUME UNCHANGED vars PROVE TypeInv'
  BY <1>18 DEF vars, TypeOK, ReadBack, LineChain
<1> QED
  BY <1>1, <1>2, <1>3, <1>4, <1>5, <1>6, <1>7, <1>8, <1>9, <1>10, <1>11, <1>12,
     <1>13, <1>14, <1>15, <1>16, <1>17, <1>18 DEF Next, Callback

\* Every variable keeps its type in every reachable state.
THEOREM TypeCorrect == Spec => []TypeOK
<1>1. TypeInv => TypeOK
  BY DEF TypeInv
<1> QED
  BY InitTypeInv, NextTypeInv, <1>1, PTL DEF Spec

-----------------------------------------------------------------------------
\* No document without its blobs

\* The URL guards of the uploader are what makes the invariant: a job past a
\* guard has its blob in Storage, and blobs are never removed.
PictureUploaded ==
  \A j \in CharacterJobs :
    stage[j] \in {"putAudio", "audioUrl", "setCharacter"} => Picture(j) \in blobs

RecordingUploaded ==
  \A j \in Jobs : stage[j] = "setCharacter" => Recording(j) \in blobs

\* The character a line is of was offered in a list, hence readable.
AboutUploaded ==
  /\ \A j \in CharacterJobs : about[j] = j
  /\ \A j \in LineJobs : about[j] \in CharacterJobs => Picture(about[j]) \in blobs

\* What a job has read back is handed to the composer later.
HeldUploaded == \A j \in Jobs : \A doc \in newInfo[j] : Media(doc) \subseteq blobs

MediaInv ==
  /\ PictureUploaded
  /\ RecordingUploaded
  /\ AboutUploaded
  /\ HeldUploaded
  /\ MediaBehindDocs

\* What a query answers was readable on its device, and so is what it caches.
LEMMA AnswerReadable ==
  ASSUME TypeOK, NEW d \in Devices, NEW source \in Sources(d), NEW wanted
  PROVE  /\ Answer(d, source, wanted) \subseteq Readable(d)
         /\ Remember(d, source, wanted) =>
              \A e \in Devices : cache'[e] \subseteq Readable(e)
<1>1. source \subseteq Readable(d) /\ Pending(d) \subseteq Readable(d)
  BY DEF Sources, Readable
<1>2. \A e \in Devices : cache[e] \subseteq Readable(e)
  BY DEF Readable
<1>3. ASSUME Remember(d, source, wanted), NEW e \in Devices
      PROVE  cache'[e] \subseteq Readable(e)
  <2>1. cache'[e] = IF e = d THEN cache[d] \cup (source \cap wanted) ELSE cache[e]
    BY <1>3 DEF Remember, TypeOK
  <2> QED
    BY <2>1, <1>1, <1>2
<1> QED
  BY <1>1, <1>3 DEF Answer

\* A document keeps its blobs while blobs are only added and no line changes
\* the character it is of.
LEMMA MediaKept ==
  ASSUME NEW doc, Media(doc) \subseteq blobs, blobs \subseteq blobs', about' = about
  PROVE  Media(doc)' \subseteq blobs'
  BY DEF Media

\* A step preserves MediaBehindDocs when what becomes readable somewhere was
\* readable somewhere before, or has its blobs.
LEMMA ReadableKept ==
  ASSUME MediaBehindDocs, blobs \subseteq blobs', about' = about,
         \A d \in Devices : \A doc \in Readable(d)' :
           \/ \E e \in Devices : doc \in Readable(e)
           \/ Media(doc) \subseteq blobs
  PROVE  MediaBehindDocs'
<1> SUFFICES ASSUME NEW d \in Devices, NEW doc \in Readable(d)'
             PROVE  Media(doc)' \subseteq blobs'
  BY DEF MediaBehindDocs
<1>1. Media(doc) \subseteq blobs
  BY DEF MediaBehindDocs
<1> QED
  BY <1>1, MediaKept

\* What the other jobs hold keeps its blobs too.
LEMMA HeldKept ==
  ASSUME HeldUploaded, blobs \subseteq blobs', about' = about,
         \A j \in Jobs : \A doc \in newInfo'[j] :
           doc \in newInfo[j] \/ Media(doc) \subseteq blobs
  PROVE  HeldUploaded'
<1> SUFFICES ASSUME NEW j \in Jobs, NEW doc \in newInfo'[j]
             PROVE  Media(doc)' \subseteq blobs'
  BY DEF HeldUploaded
<1>1. Media(doc) \subseteq blobs
  BY DEF HeldUploaded
<1> QED
  BY <1>1, MediaKept

\* The media of a job's own documents.
LEMMA OwnMedia ==
  ASSUME AboutUploaded
  PROVE  /\ \A j \in CharacterJobs : Media(CharacterDoc(j)) = {Picture(j)}
         /\ \A j \in CharacterJobs : Media(LineDoc(j)) = {Recording(j), Picture(j)}
         /\ \A j \in LineJobs :
              Recording(j) \in blobs => Media(LineDoc(j)) \subseteq blobs
  BY DEF AboutUploaded, Media, CharacterDoc, LineDoc

LEMMA InitMediaInv == Init => MediaInv
<1> SUFFICES ASSUME Init PROVE MediaInv
  OBVIOUS
<1>1. PictureUploaded /\ RecordingUploaded /\ AboutUploaded /\ HeldUploaded
  BY JobsAssumption DEF Init, Jobs, PictureUploaded, RecordingUploaded, AboutUploaded,
     HeldUploaded
<1>2. \A d \in Devices : Readable(d) = {}
  BY DEF Init, BackendInit, Readable, Pending, Range
<1>3. MediaBehindDocs
  BY <1>2 DEF MediaBehindDocs
<1> QED
  BY <1>1, <1>3 DEF MediaInv

\* A step of job j that leaves blobs, lists, caches and decisions alone.
LEMMA StageStep ==
  ASSUME TypeInv, MediaInv, NEW j \in Jobs, NEW s \in Stage, Becomes(j, s),
         UNCHANGED <<about, newInfo, listed, blobs, outbox, server, cache>>,
         s \in {"putAudio", "audioUrl", "setCharacter"} /\ j \in CharacterJobs
           => Picture(j) \in blobs,
         s = "setCharacter" => Recording(j) \in blobs
  PROVE  MediaInv'
<1>1. PictureUploaded' /\ RecordingUploaded'
  BY DEF Becomes, TypeInv, TypeOK, MediaInv, PictureUploaded, RecordingUploaded, Jobs
<1>2. AboutUploaded'
  BY DEF MediaInv, AboutUploaded
<1>3. HeldUploaded'
  BY HeldKept DEF MediaInv
<1>4. \A d \in Devices : Readable(d)' = Readable(d)
  BY DEF Readable, Pending
<1>5. MediaBehindDocs'
  BY <1>4, ReadableKept DEF MediaInv
<1> QED
  BY <1>1, <1>2, <1>3, <1>5 DEF MediaInv

\* A step of job j that queues a document whose blobs are stored.
LEMMA WriteStep ==
  ASSUME TypeInv, MediaInv, NEW j \in Jobs, NEW s \in {"setCharacter", "setDialogue"},
         NEW doc \in Document, Becomes(j, s), SetData(Home[j], doc),
         UNCHANGED <<about, newInfo, listed, blobs, server, cache>>,
         s = "setCharacter" => Recording(j) \in blobs /\ Picture(j) \in blobs,
         Media(doc) \subseteq blobs
  PROVE  MediaInv'
<1>1. PictureUploaded' /\ RecordingUploaded'
  BY DEF Becomes, TypeInv, TypeOK, MediaInv, PictureUploaded, RecordingUploaded, Jobs
<1>2. AboutUploaded'
  BY DEF MediaInv, AboutUploaded
<1>3. HeldUploaded'
  BY HeldKept DEF MediaInv
<1>4. \A d \in Devices : Pending(d)' \subseteq Pending(d) \cup {doc}
  BY SetDataTypes, DocumentTypes DEF TypeInv
<1>5. \A d \in Devices : Readable(d)' \subseteq Readable(d) \cup {doc}
  BY <1>4 DEF Readable
<1>6. MediaBehindDocs'
  BY <1>5, ReadableKept DEF MediaInv
<1> QED
  BY <1>1, <1>2, <1>3, <1>6 DEF MediaInv

\* A transfer adds a blob or nothing.
LEMMA PutStep ==
  ASSUME TypeInv, MediaInv, NEW j \in Jobs, NEW s \in {"imageUrl", "audioUrl"},
         NEW b, Becomes(j, s), PutBlob(b),
         UNCHANGED <<about, newInfo, listed, outbox, server, cache>>,
         s = "audioUrl" => stage[j] = "putAudio"
  PROVE  MediaInv'
<1>0. blobs \subseteq blobs'
  BY DEF PutBlob
<1>1. PictureUploaded' /\ RecordingUploaded'
  BY <1>0 DEF Becomes, TypeInv, TypeOK, MediaInv, PictureUploaded, RecordingUploaded, Jobs
<1>2. AboutUploaded'
  BY <1>0 DEF MediaInv, AboutUploaded
<1>3. HeldUploaded'
  BY <1>0, HeldKept DEF MediaInv
<1>4. \A d \in Devices : Readable(d)' = Readable(d)
  BY DEF Readable, Pending
<1>5. MediaBehindDocs'
  BY <1>0, <1>4, ReadableKept DEF MediaInv
<1> QED
  BY <1>1, <1>2, <1>3, <1>5 DEF MediaInv

LEMMA RegisterLineStep ==
  ASSUME TypeInv, MediaInv, NEW j \in Jobs, RegisterLine(j)
  PROVE  MediaInv'
<1>1. PICK c \in listed[Home[j]] : about' = [about EXCEPT ![j] = c]
  BY DEF RegisterLine
<1>2. c \in CharacterJobs /\ Home[j] \in Devices
  BY <1>1, DocumentTypes DEF TypeInv, TypeOK
<1>3. Picture(c) \in blobs
  <2>1. CharacterDoc(c) \in Readable(Home[j])
    BY <1>1 DEF Readable
  <2>2. Media(CharacterDoc(c)) \subseteq blobs
    BY <2>1, <1>2 DEF MediaInv, MediaBehindDocs
  <2> QED
    BY <2>2, <1>2, OwnMedia DEF MediaInv
<1>4. j \in LineJobs /\ j \notin CharacterJobs /\ blobs' = blobs
  BY JobsAssumption DEF RegisterLine
<1>5. PictureUploaded' /\ RecordingUploaded'
  BY <1>4 DEF RegisterLine, Moves, Becomes, TypeInv, TypeOK, MediaInv, PictureUploaded,
     RecordingUploaded, Jobs
<1>6. AboutUploaded'
  BY <1>1, <1>3, <1>4 DEF MediaInv, AboutUploaded, TypeInv, TypeOK, Jobs
<1>7. \A k \in Jobs : about'[k] = IF k = j THEN c ELSE about[k]
  BY <1>1 DEF TypeInv, TypeOK
<1>8. ASSUME NEW doc \in Document, Media(doc) \subseteq blobs
      PROVE  Media(doc)' \subseteq blobs'
  <2>1. doc.job \in Jobs
    BY DEF Document, AllCharacters, AllLines, CharacterDoc, LineDoc, Jobs
  <2> QED
    BY <2>1, <1>3, <1>4, <1>7, <1>8 DEF Media
<1>9. HeldUploaded'
  <2>1. newInfo' = newInfo /\ \A k \in Jobs : newInfo[k] \subseteq Document
    BY DEF RegisterLine, TypeInv, TypeOK
  <2> QED
    BY <2>1, <1>8 DEF MediaInv, HeldUploaded
<1>10. MediaBehindDocs'
  <2>1. \A d \in Devices : Readable(d)' = Readable(d)
    BY DEF RegisterLine, Readable, Pending, firestoreVars
  <2>2. \A d \in Devices : Readable(d) \subseteq Document
    <3>1. ASSUME NEW d \in Devices PROVE Pending(d) \subseteq Document
      BY RangeOfSeq DEF Pending, TypeInv, TypeOK
    <3> QED
      BY <3>1, DocumentTypes DEF Readable, TypeInv, TypeOK
  <2> QED
    BY <2>1, <2>2, <1>8 DEF MediaInv, MediaBehindDocs
<1> QED
  BY <1>5, <1>6, <1>9, <1>10 DEF MediaInv

\* The two steps in which the composer's list grows or is replaced.
LEMMA ListArrivesStep ==
  ASSUME TypeInv, MediaInv, NEW d \in Devices, ListArrives(d)
  PROVE  MediaInv'
<1>1. PICK source \in Sources(d) :
        /\ listed' = [listed EXCEPT ![d] =
                        @ \cup Named(Answer(d, source, AllCharacters))]
        /\ Remember(d, source, AllCharacters)
  BY DEF ListArrives
<1>2. UNCHANGED <<stage, about, newInfo, blobs, outbox, server>>
  BY DEF ListArrives
<1>3. /\ Answer(d, source, AllCharacters) \subseteq AllCharacters
      /\ Answer(d, source, AllCharacters) \subseteq Readable(d)
      /\ \A e \in Devices : cache'[e] \subseteq Readable(e)
  BY <1>1, AnswerTypes, AnswerReadable, DocumentTypes DEF TypeInv
<1>4. \A c \in Named(Answer(d, source, AllCharacters)) :
        CharacterDoc(c) \in Answer(d, source, AllCharacters)
  BY <1>3, NamedCharacters
<1>5. \A e \in Devices : \A c \in listed'[e] : CharacterDoc(c) \in Readable(e)
  <2> SUFFICES ASSUME NEW e \in Devices, NEW c \in listed'[e]
               PROVE  CharacterDoc(c) \in Readable(e)
    OBVIOUS
  <2>1. CASE c \in listed[e]
    BY <2>1 DEF Readable
  <2>2. CASE c \notin listed[e]
    <3>1. e = d /\ c \in Named(Answer(d, source, AllCharacters))
      BY <1>1, <2>2 DEF TypeInv, TypeOK
    <3> QED
      BY <3>1, <1>3, <1>4
  <2> QED
    BY <2>1, <2>2
<1>6. \A e \in Devices : Readable(e)' \subseteq Readable(e)
  BY <1>2, <1>3, <1>5 DEF Readable, Pending
<1>7. MediaBehindDocs'
  BY <1>2, <1>6, ReadableKept DEF MediaInv
<1>8. HeldUploaded'
  BY <1>2, HeldKept DEF MediaInv
<1> QED
  BY <1>2, <1>7, <1>8 DEF MediaInv, PictureUploaded, RecordingUploaded, AboutUploaded

LEMMA CharactersReadStep ==
  ASSUME TypeInv, MediaInv, NEW j \in Jobs, CharactersRead(j)
  PROVE  MediaInv'
<1>1. PICK source \in Sources(Home[j]) :
        /\ newInfo' = [newInfo EXCEPT ![j] = Answer(Home[j], source, AllCharacters)]
        /\ Remember(Home[j], source, AllCharacters)
  BY DEF CharactersRead
<1>2. /\ Becomes(j, "fetchDialogues")
      /\ UNCHANGED <<about, listed, blobs, outbox, server>>
      /\ Home[j] \in Devices
  BY DocumentTypes DEF CharactersRead, Moves
<1>3. /\ Answer(Home[j], source, AllCharacters) \subseteq Readable(Home[j])
      /\ \A e \in Devices : cache'[e] \subseteq Readable(e)
  BY <1>1, <1>2, AnswerReadable DEF TypeInv
<1>4. \A e \in Devices : Readable(e)' \subseteq Readable(e)
  BY <1>2, <1>3 DEF Readable, Pending
<1>5. MediaBehindDocs'
  BY <1>2, <1>4, ReadableKept DEF MediaInv
<1>6. HeldUploaded'
  <2>1. \A doc \in Readable(Home[j]) : Media(doc) \subseteq blobs
    BY <1>2 DEF MediaInv, MediaBehindDocs
  <2>2. ASSUME NEW k \in Jobs, NEW doc \in newInfo'[k]
        PROVE  doc \in newInfo[k] \/ Media(doc) \subseteq blobs
    <3>1. CASE k = j
      <4>1. newInfo'[k] = Answer(Home[j], source, AllCharacters)
        BY <1>1, <3>1 DEF TypeInv, TypeOK
      <4> QED
        BY <4>1, <1>3, <2>1, <2>2
    <3>2. CASE k # j
      BY <1>1, <3>2, <2>2 DEF TypeInv, TypeOK
    <3> QED
      BY <3>1, <3>2
  <2> QED
    BY <2>2, <1>2, HeldKept DEF MediaInv
<1>7. PictureUploaded' /\ RecordingUploaded'
  BY <1>2 DEF Becomes, TypeInv, TypeOK, MediaInv, PictureUploaded, RecordingUploaded, Jobs
<1>8. AboutUploaded'
  BY <1>2 DEF MediaInv, AboutUploaded
<1> QED
  BY <1>5, <1>6, <1>7, <1>8 DEF MediaInv

LEMMA DialoguesReadStep ==
  ASSUME TypeInv, MediaInv, NEW j \in Jobs, DialoguesRead(j)
  PROVE  MediaInv'
<1>1. PICK source \in Sources(Home[j]) :
        /\ newInfo' = [newInfo EXCEPT ![j] = @ \cup Answer(Home[j], source, AllLines)]
        /\ Remember(Home[j], source, AllLines)
  BY DEF DialoguesRead
<1>2. /\ stage[j] = "fetchDialogues"
      /\ Becomes(j, "done")
      /\ UNCHANGED <<about, blobs, outbox, server>>
      /\ Home[j] \in Devices
  BY DocumentTypes DEF DialoguesRead, Moves
<1>3. /\ Answer(Home[j], source, AllLines) \subseteq Readable(Home[j])
      /\ \A e \in Devices : cache'[e] \subseteq Readable(e)
  BY <1>1, <1>2, AnswerReadable DEF TypeInv
<1>4. ASSUME NEW e \in Devices, NEW c \in listed'[e]
      PROVE  CharacterDoc(c) \in Readable(e) \/ Media(CharacterDoc(c)) \subseteq blobs
  <2>1. CASE c \in listed[e]
    BY <2>1 DEF Readable
  <2>2. CASE c \notin listed[e]
    <3>1. j \in CharacterJobs /\ c \in Named(newInfo[j])
      BY <2>2, <1>4 DEF DialoguesRead, TypeInv, TypeOK
    <3>2. CharacterDoc(c) \in newInfo[j]
      BY <3>1, <1>2, NamedCharacters DEF TypeInv, ReadBack
    <3> QED
      BY <3>2 DEF MediaInv, HeldUploaded
  <2> QED
    BY <2>1, <2>2
<1>5. MediaBehindDocs'
  <2>1. ASSUME NEW e \in Devices, NEW doc \in Readable(e)'
        PROVE  doc \in Readable(e) \/ Media(doc) \subseteq blobs
    <3>1. CASE doc \in server' \cup Pending(e)' \cup cache'[e]
      BY <3>1, <1>2, <1>3 DEF Readable, Pending
    <3>2. CASE \E c \in listed'[e] : doc = CharacterDoc(c)
      BY <3>2, <1>4
    <3> QED
      BY <2>1, <3>1, <3>2 DEF Readable, CharacterDoc
  <2> QED
    BY <2>1, <1>2, ReadableKept DEF MediaInv
<1>6. HeldUploaded'
  <2>1. \A doc \in Readable(Home[j]) : Media(doc) \subseteq blobs
    BY <1>2 DEF MediaInv, MediaBehindDocs
  <2>2. ASSUME NEW k \in Jobs, NEW doc \in newInfo'[k]
        PROVE  doc \in newInfo[k] \/ Media(doc) \subseteq blobs
    <3>1. CASE k = j
      <4>1. newInfo'[k] = newInfo[k] \cup Answer(Home[j], source, AllLines)
        BY <1>1, <3>1 DEF TypeInv, TypeOK
      <4> QED
        BY <4>1, <1>3, <2>1, <2>2
    <3>2. CASE k # j
      BY <1>1, <3>2, <2>2 DEF TypeInv, TypeOK
    <3> QED
      BY <3>1, <3>2
  <2> QED
    BY <2>2, <1>2, HeldKept DEF MediaInv
<1>7. PictureUploaded' /\ RecordingUploaded'
  BY <1>2 DEF Becomes, TypeInv, TypeOK, MediaInv, PictureUploaded, RecordingUploaded, Jobs
<1>8. AboutUploaded'
  BY <1>2 DEF MediaInv, AboutUploaded
<1> QED
  BY <1>5, <1>6, <1>7, <1>8 DEF MediaInv

LEMMA ServerDecidesStep ==
  ASSUME TypeInv, MediaInv, NEW d \in Devices, ServerDecides(d)
  PROVE  MediaInv'
<1>1. PICK doc \in Pending(d) :
        /\ \A e \in Devices : Pending(e)' \subseteq Pending(e)
        /\ \/ /\ server' = server \cup {doc}
              /\ cache' = [cache EXCEPT ![d] = @ \cup {doc}]
           \/ server' = server /\ cache' = cache
  BY ServerDecidesTypes DEF TypeInv
<1>2. UNCHANGED <<stage, about, newInfo, listed, blobs>>
  BY DEF ServerDecides
<1>3. doc \in Readable(d)
  BY <1>1 DEF Readable
<1>4. \A e \in Devices : cache'[e] \subseteq cache[e] \cup {doc}
  BY <1>1 DEF TypeInv, TypeOK
<1>5. \A e \in Devices : Readable(e)' \subseteq Readable(e) \cup {doc}
  BY <1>1, <1>2, <1>4 DEF Readable
<1>6. MediaBehindDocs'
  BY <1>2, <1>3, <1>5, ReadableKept DEF MediaInv
<1>7. HeldUploaded'
  BY <1>2, HeldKept DEF MediaInv
<1> QED
  BY <1>2, <1>6, <1>7 DEF MediaInv, PictureUploaded, RecordingUploaded, AboutUploaded

LEMMA CrashStep ==
  ASSUME TypeInv, MediaInv, NEW d \in Devices, Crash(d)
  PROVE  MediaInv'
<1>1. UNCHANGED <<about, newInfo, blobs, outbox, server, cache>>
  BY DEF Crash, KeepOnDisk
<1>2. \A e \in Devices : Readable(e)' \subseteq Readable(e)
  BY <1>1 DEF Crash, Readable, Pending, TypeInv, TypeOK
<1>3. MediaBehindDocs'
  BY <1>1, <1>2, ReadableKept DEF MediaInv
<1>4. HeldUploaded'
  BY <1>1, HeldKept DEF MediaInv
<1>5. PictureUploaded' /\ RecordingUploaded'
  BY <1>1 DEF Crash, MediaInv, PictureUploaded, RecordingUploaded, Jobs
<1> QED
  BY <1>1, <1>3, <1>4, <1>5 DEF MediaInv, AboutUploaded

LEMMA NextMediaInv == TypeInv /\ MediaInv /\ [Next]_vars => MediaInv'
<1> SUFFICES ASSUME TypeInv, MediaInv, [Next]_vars PROVE MediaInv'
  OBVIOUS
<1> USE DEF Moves, firestoreVars, Stage, Waiting
<1>1. ASSUME NEW j \in Jobs, RegisterCharacter(j) PROVE MediaInv'
  BY <1>1, StageStep DEF RegisterCharacter
<1>2. ASSUME NEW j \in Jobs, RegisterLine(j) PROVE MediaInv'
  BY <1>2, RegisterLineStep
<1>3. ASSUME NEW j \in Jobs, ImagePut(j) PROVE MediaInv'
  BY <1>3, PutStep DEF ImagePut
<1>4. ASSUME NEW j \in Jobs, ImageUrlArrives(j) PROVE MediaInv'
  BY <1>4, StageStep DEF ImageUrlArrives
<1>5. ASSUME NEW j \in Jobs, UrlMissing(j) PROVE MediaInv'
  BY <1>5, StageStep DEF UrlMissing
<1>6. ASSUME NEW j \in Jobs, AudioPut(j) PROVE MediaInv'
  BY <1>6, PutStep DEF AudioPut
<1>7. ASSUME NEW j \in Jobs, AudioUrlArrives(j) PROVE MediaInv'
  <2>1. CASE j \in CharacterJobs
    <3>1. /\ Becomes(j, "setCharacter")
          /\ SetData(Home[j], CharacterDoc(j))
          /\ stage[j] = "audioUrl"
          /\ Recording(j) \in blobs
          /\ UNCHANGED <<about, newInfo, listed, blobs, server, cache>>
      BY <1>7, <2>1, JobsAssumption DEF AudioUrlArrives
    <3>2. Picture(j) \in blobs /\ Media(CharacterDoc(j)) \subseteq blobs
      BY <2>1, <3>1, OwnMedia DEF MediaInv, PictureUploaded
    <3> QED
      BY <2>1, <3>1, <3>2, WriteStep, DocumentTypes
  <2>2. CASE j \in LineJobs
    <3>1. /\ Becomes(j, "setDialogue")
          /\ SetData(Home[j], LineDoc(j))
          /\ Recording(j) \in blobs
          /\ UNCHANGED <<about, newInfo, listed, blobs, server, cache>>
      BY <1>7, <2>2, JobsAssumption DEF AudioUrlArrives
    <3>2. Media(LineDoc(j)) \subseteq blobs
      BY <2>2, <3>1, OwnMedia DEF MediaInv
    <3> QED
      BY <3>1, <3>2, WriteStep, DocumentTypes
  <2> QED
    BY <2>1, <2>2 DEF Jobs
<1>8. ASSUME NEW j \in Jobs, CharacterWritten(j) PROVE MediaInv'
  <2>1. /\ Becomes(j, "setDialogue")
        /\ SetData(Home[j], LineDoc(j))
        /\ stage[j] = "setCharacter"
        /\ UNCHANGED <<about, newInfo, listed, blobs, server, cache>>
    BY <1>8 DEF CharacterWritten
  <2>2. j \in CharacterJobs
    BY <2>1 DEF TypeInv, LineChain, Jobs
  <2>3. Media(LineDoc(j)) \subseteq blobs
    BY <2>1, <2>2, OwnMedia DEF MediaInv, PictureUploaded, RecordingUploaded
  <2> QED
    BY <2>1, <2>3, WriteStep, DocumentTypes
<1>9. ASSUME NEW j \in Jobs, DialogueWritten(j) PROVE MediaInv'
  <2>1. PICK s \in {"fetchCharacters", "fetchDialogues"} : Becomes(j, s)
    BY <1>9 DEF DialogueWritten
  <2> QED
    BY <1>9, <2>1, StageStep DEF DialogueWritten
<1>10. ASSUME NEW j \in Jobs, CharactersRead(j) PROVE MediaInv'
  BY <1>10, CharactersReadStep
<1>11. ASSUME NEW j \in Jobs, DialoguesRead(j) PROVE MediaInv'
  BY <1>11, DialoguesReadStep
<1>12. ASSUME NEW j \in Jobs, ReadFails(j) PROVE MediaInv'
  BY <1>12, StageStep DEF ReadFails
<1>13. ASSUME NEW d \in Devices, OpenComposer(d) \/ ListFails(d) PROVE MediaInv'
  <2>1. UNCHANGED <<stage, about, newInfo, listed, blobs, outbox, server, cache>>
    BY <1>13 DEF OpenComposer, ListFails
  <2> QED
    BY <2>1 DEF MediaInv, PictureUploaded, RecordingUploaded, AboutUploaded, HeldUploaded,
       MediaBehindDocs, Readable, Pending, Media
<1>14. ASSUME NEW d \in Devices, ListArrives(d) PROVE MediaInv'
  BY <1>14, ListArrivesStep
<1>15. ASSUME NEW d \in Devices, ServerDecides(d) PROVE MediaInv'
  BY <1>15, ServerDecidesStep
<1>16. ASSUME NEW d \in Devices, Crash(d) PROVE MediaInv'
  BY <1>16, CrashStep
<1>17. ASSUME UNCHANGED vars PROVE MediaInv'
  BY <1>17 DEF vars, MediaInv, PictureUploaded, RecordingUploaded, AboutUploaded,
     HeldUploaded, MediaBehindDocs, Readable, Pending, Media
<1> QED
  BY <1>1, <1>2, <1>3, <1>4, <1>5, <1>6, <1>7, <1>8, <1>9, <1>10, <1>11, <1>12,
     <1>13, <1>14, <1>15, <1>16, <1>17 DEF Next, Callback

\* Whatever fails, crashes or overlaps, every document a device can read, and
\* every character it offers, has its picture and its recording in Storage.
THEOREM MediaSafe == Spec => []MediaBehindDocs
<1>1. Init => TypeInv /\ MediaInv
  BY InitTypeInv, InitMediaInv
<1>2. TypeInv /\ MediaInv /\ [Next]_vars => (TypeInv /\ MediaInv)'
  BY NextTypeInv, NextMediaInv
<1>3. MediaInv => MediaBehindDocs
  BY DEF MediaInv
<1> QED
  BY <1>1, <1>2, <1>3, PTL DEF Spec

-----------------------------------------------------------------------------
\* The order of writes

\* Writes the server has decided, and writes as a device knows them.
Gone == server \cup rejected
Written(d) == Gone \cup Pending(d)

\* The stages before the first write of a job.
Early == {"idle", "putImage", "imageUrl", "putAudio", "audioUrl"}

\* No two places of a queue hold the same write.
Distinct(s) == \A i, k \in DOMAIN s : s[i] = s[k] => i = k

\* Each y in a queue is behind some x.
Before(s, x, y) ==
  \A i \in DOMAIN s : s[i] = y => \E k \in DOMAIN s : k < i /\ s[k] = x

\* A write is queued on the device of its job only, and only once.
OwnQueue ==
  \A d \in Devices :
    /\ \A doc \in Pending(d) : Home[doc.job] = d /\ doc \notin Gone
    /\ Distinct(outbox[d])

\* A stage tells what its job has written, and what of that is decided.
Progress ==
  \A j \in Jobs :
    /\ stage[j] \in Early =>
         {CharacterDoc(j), LineDoc(j)} \cap Written(Home[j]) = {}
    /\ stage[j] = "setCharacter" =>
         CharacterDoc(j) \in Written(Home[j]) /\ LineDoc(j) \notin Written(Home[j])
    /\ stage[j] = "setDialogue" => LineDoc(j) \in Written(Home[j])
    /\ stage[j] \in {"fetchCharacters", "fetchDialogues", "done"} => LineDoc(j) \in Gone

\* The first line is written when its character is decided; a character without a
\* line is between its two writes, or its job has died there.
FirstLine ==
  \A j \in CharacterJobs :
    /\ LineDoc(j) \in Written(Home[j]) => CharacterDoc(j) \in Gone
    /\ CharacterDoc(j) \in Written(Home[j]) =>
         stage[j] \in {"setCharacter", "dead"} \/ LineDoc(j) \in Written(Home[j])

\* What a device has cached, offers in its list, or has read for its list.
Seen ==
  /\ \A d \in Devices : cache[d] \subseteq server
  /\ \A d \in Devices : \A c \in listed[d] : CharacterDoc(c) \in Written(d)
  /\ \A j \in Jobs : newInfo[j] \subseteq Written(Home[j])

\* A line is about a character its device has seen.
AboutSeen ==
  /\ \A j \in CharacterJobs : about[j] = j
  /\ \A j \in LineJobs : stage[j] # "idle" => CharacterDoc(about[j]) \in Written(Home[j])

\* A line is in the queue behind its character, unless that is decided.
InLine ==
  \A j \in Jobs :
    \/ CharacterDoc(about[j]) \in Gone
    \/ Before(outbox[Home[j]], CharacterDoc(about[j]), LineDoc(j))

\* A device has in its cache what it has written itself.
OwnCached == \A doc \in server : doc \in cache[Home[doc.job]]

\* A registration that reads the lines back has its own character already.
ReadOwn ==
  \A j \in CharacterJobs :
    stage[j] = "fetchDialogues" => CharacterDoc(j) \in rejected \cup (newInfo[j] \cap server)

\* All of it; the last two parts are the properties the runs check.
OrderInv ==
  /\ OwnQueue /\ Progress /\ FirstLine /\ Seen /\ AboutSeen /\ InLine
  /\ OwnCached /\ ReadOwn /\ NoOrphanLine /\ CompletionShowsOwn

\* Documents of different jobs, and a character and a line, are different.
LEMMA DocumentsDiffer ==
  /\ \A j : CharacterDoc(j).job = j /\ LineDoc(j).job = j
  /\ \A j, k : CharacterDoc(j) = CharacterDoc(k) => j = k
  /\ \A j, k : LineDoc(j) = LineDoc(k) => j = k
  /\ \A j, k : CharacterDoc(j) # LineDoc(k)
<1>1. \A j : CharacterDoc(j).job = j /\ LineDoc(j).job = j
  BY DEF CharacterDoc, LineDoc
<1>2. \A j : CharacterDoc(j).collection = "characters" /\ LineDoc(j).collection = "dialogues"
  BY DEF CharacterDoc, LineDoc
<1> QED
  BY <1>1, <1>2

\* What holds of a queue when a write is put behind it.
LEMMA AppendOrder ==
  ASSUME NEW S, NEW s \in Seq(S), NEW e \in S
  PROVE  /\ Distinct(s) /\ e \notin Range(s) => Distinct(Append(s, e))
         /\ \A x, y : Before(s, x, y) /\ (e = y => x \in Range(s)) =>
                        Before(Append(s, e), x, y)
<1>1. /\ DOMAIN Append(s, e) = 1 .. Len(s) + 1
      /\ DOMAIN s = 1 .. Len(s)
      /\ Len(s) \in Nat
  BY AppendProperties, LenProperties
<1>2. /\ \A i \in 1 .. Len(s) : Append(s, e)[i] = s[i]
      /\ Append(s, e)[Len(s) + 1] = e
  BY AppendProperties
<1>3. ASSUME Distinct(s), e \notin Range(s) PROVE Distinct(Append(s, e))
  BY <1>1, <1>2, <1>3 DEF Distinct, Range
<1>4. ASSUME NEW x, NEW y, Before(s, x, y), e = y => x \in Range(s)
      PROVE  Before(Append(s, e), x, y)
  <2> SUFFICES ASSUME NEW i \in 1 .. Len(s) + 1, Append(s, e)[i] = y
               PROVE  \E k \in 1 .. Len(s) + 1 : k < i /\ Append(s, e)[k] = x
    BY <1>1 DEF Before
  <2>1. CASE i \in 1 .. Len(s)
    <3>1. \E k \in 1 .. Len(s) : k < i /\ s[k] = x
      BY <1>1, <1>2, <1>4, <2>1 DEF Before
    <3> QED
      BY <1>1, <1>2, <3>1
  <2>2. CASE i = Len(s) + 1
    <3>1. \E k \in 1 .. Len(s) : s[k] = x
      BY <1>1, <1>2, <1>4, <2>2 DEF Range
    <3> QED
      BY <1>1, <1>2, <2>2, <3>1
  <2> QED
    BY <1>1, <2>1, <2>2
<1> QED
  BY <1>3, <1>4

\* What holds of a queue when its oldest write is taken.
LEMMA TailOrder ==
  ASSUME NEW S, NEW s \in Seq(S), s # << >>
  PROVE  /\ Distinct(s) => Distinct(Tail(s)) /\ Head(s) \notin Range(Tail(s))
         /\ \A x, y : Before(s, x, y) => Head(s) # y
         /\ \A x, y : Before(s, x, y) /\ Head(s) # x => Before(Tail(s), x, y)
<1>1. /\ Len(Tail(s)) = Len(s) - 1
      /\ \A i \in 1 .. Len(Tail(s)) : Tail(s)[i] = s[i + 1]
      /\ Tail(s) \in Seq(S)
  BY HeadTailProperties
<1>2. /\ Len(s) \in Nat \ {0}
      /\ DOMAIN s = 1 .. Len(s)
      /\ DOMAIN Tail(s) = 1 .. Len(s) - 1
      /\ Head(s) = s[1]
  BY <1>1, LenProperties, EmptySeq
<1>3. \A i \in DOMAIN Tail(s) : i + 1 \in DOMAIN s /\ i + 1 > 1 /\ Tail(s)[i] = s[i + 1]
  BY <1>1, <1>2
<1>4. 1 \in DOMAIN s
  BY <1>2
<1>5. ASSUME Distinct(s) PROVE Distinct(Tail(s)) /\ Head(s) \notin Range(Tail(s))
  <2>1. ASSUME NEW i \in DOMAIN Tail(s), NEW k \in DOMAIN Tail(s), Tail(s)[i] = Tail(s)[k]
        PROVE  i = k
    <3>1. i + 1 = k + 1
      BY <1>3, <1>5, <2>1 DEF Distinct
    <3> QED
      BY <1>2, <3>1
  <2>2. ASSUME NEW i \in DOMAIN Tail(s) PROVE Tail(s)[i] # Head(s)
    <3>1. i + 1 # 1
      BY <1>2
    <3> QED
      BY <1>2, <1>3, <1>4, <1>5, <3>1 DEF Distinct
  <2> QED
    BY <2>1, <2>2 DEF Distinct, Range
<1>6. ASSUME NEW x, NEW y, Before(s, x, y) PROVE Head(s) # y
  BY <1>2, <1>4, <1>6 DEF Before
<1>7. ASSUME NEW x, NEW y, Before(s, x, y), Head(s) # x PROVE Before(Tail(s), x, y)
  <2> SUFFICES ASSUME NEW i \in DOMAIN Tail(s), Tail(s)[i] = y
               PROVE  \E k \in DOMAIN Tail(s) : k < i /\ Tail(s)[k] = x
    BY DEF Before
  <2>1. PICK k \in DOMAIN s : k < i + 1 /\ s[k] = x
    BY <1>3, <1>7 DEF Before
  <2>2. k - 1 \in DOMAIN Tail(s) /\ k - 1 < i /\ (k - 1) + 1 = k
    BY <1>2, <1>7, <2>1
  <2>3. Tail(s)[k - 1] = x
    BY <1>3, <2>1, <2>2
  <2> QED
    BY <2>2, <2>3
<1> QED
  BY <1>5, <1>6, <1>7

\* No write has been made in the initial states.
LEMMA InitOrderInv == Init => OrderInv
<1> SUFFICES ASSUME Init PROVE OrderInv
  OBVIOUS
<1>1. \A d \in Devices : outbox[d] = << >> /\ Pending(d) = {} /\ Written(d) = {}
  BY EmptySeq DEF Init, BackendInit, Pending, Range, Written, Gone
<1>2. /\ \A j \in Jobs : Home[j] \in Devices /\ stage[j] = "idle" /\ newInfo[j] = {}
      /\ \A j \in CharacterJobs : j \in Jobs
      /\ \A j \in LineJobs : j \in Jobs
  BY DocumentTypes DEF Init, Jobs
<1>3. OwnQueue /\ InLine
  BY <1>1, <1>2, EmptySeq DEF OwnQueue, InLine, Distinct, Before
<1>4. Progress /\ FirstLine /\ ReadOwn
  BY <1>1, <1>2 DEF Progress, FirstLine, ReadOwn
<1>5. Seen /\ AboutSeen
  BY <1>1, <1>2 DEF Init, BackendInit, Seen, AboutSeen, Jobs
<1>6. OwnCached /\ NoOrphanLine /\ CompletionShowsOwn
  BY <1>2 DEF Init, BackendInit, OwnCached, NoOrphanLine, CompletionShowsOwn
<1> QED
  BY <1>3, <1>4, <1>5, <1>6 DEF OrderInv

\* Steps that only move stages on, towards a write or away from all of them, and
\* that may forget a list.
Forward(j) ==
  \/ stage'[j] = stage[j]
  \/ stage[j] \in Early /\ stage'[j] \in Early \ {"idle"} /\ (stage[j] = "idle" => j \in CharacterJobs)
  \/ stage[j] # "idle" /\ stage'[j] = "dead"
  \/ stage[j] \notin {"setCharacter", "dead"} /\ stage'[j] = "stalled" /\ (stage[j] = "idle" => j \in CharacterJobs)
  \/ /\ stage[j] = "setDialogue" /\ LineDoc(j) \in Gone
     /\ stage'[j] = IF j \in CharacterJobs THEN "fetchCharacters" ELSE "fetchDialogues"

LEMMA QuietStep ==
  ASSUME OrderInv, UNCHANGED <<firestoreVars, about, newInfo>>,
         \A d \in Devices : listed'[d] \subseteq listed[d],
         \A j \in Jobs : Forward(j)
  PROVE  OrderInv'
<1>0. /\ \A j \in Jobs : Home[j] \in Devices
      /\ \A j \in CharacterJobs : j \in Jobs
      /\ \A j \in LineJobs : j \in Jobs /\ j \notin CharacterJobs
  BY JobsAssumption, DocumentTypes DEF Jobs
<1>1. /\ UNCHANGED <<outbox, server, rejected, cache, about, newInfo, Gone>>
      /\ \A d : Pending(d)' = Pending(d) /\ Written(d)' = Written(d)
  BY DEF firestoreVars, Written, Gone, Pending
<1>2. OwnQueue' /\ InLine' /\ OwnCached' /\ NoOrphanLine'
  BY <1>1 DEF OrderInv, OwnQueue, InLine, OwnCached, NoOrphanLine
<1>3. Progress'
  BY <1>0, <1>1 DEF OrderInv, Progress, Forward, Early
<1>4. FirstLine'
  BY <1>0, <1>1 DEF OrderInv, FirstLine, Progress, Forward, Early
<1>5. Seen'
  BY <1>1 DEF OrderInv, Seen
<1>6. AboutSeen'
  BY <1>0, <1>1 DEF OrderInv, AboutSeen, Forward
<1>7. ReadOwn'
  BY <1>0, <1>1 DEF OrderInv, ReadOwn, Forward, Early
<1>8. CompletionShowsOwn'
  BY <1>0, <1>1 DEF OrderInv, CompletionShowsOwn, Forward, Early
<1> QED
  BY <1>2, <1>3, <1>4, <1>5, <1>6, <1>7, <1>8 DEF OrderInv

\* A write is put into a queue: everything written before stays so.
LEMMA WriteEffect ==
  ASSUME TypeOK, NEW d \in Devices, NEW doc \in Document, SetData(d, doc),
         UNCHANGED <<server, rejected>>
  PROVE  /\ outbox[d] \in Seq(Document) /\ outbox'[d] = Append(outbox[d], doc)
         /\ \A e \in Devices : e # d =>
              outbox'[e] = outbox[e] /\ Written(e)' = Written(e) /\ Pending(e)' = Pending(e)
         /\ Pending(d)' = Pending(d) \cup {doc}
         /\ Written(d)' = Written(d) \cup {doc}
         /\ Gone' = Gone
<1>1. /\ Pending(d)' = Pending(d) \cup {doc}
      /\ \A e \in Devices : e # d => Pending(e)' = Pending(e)
  BY SetDataTypes
<1>2. Gone' = Gone
  BY DEF Gone
<1> QED
  BY <1>1, <1>2 DEF SetData, TypeOK, Written

\* The write of a document keeps the queues in order.
LEMMA WriteKeepsQueues ==
  ASSUME TypeOK, OwnQueue, InLine, NEW j \in Jobs, NEW doc \in Document,
         SetData(Home[j], doc), UNCHANGED <<server, rejected, about>>,
         doc.job = j, doc \notin Written(Home[j]),
         doc = LineDoc(j) => CharacterDoc(about[j]) \in Written(Home[j])
  PROVE  OwnQueue' /\ InLine'
<1> DEFINE d == Home[j]
<1>0. d \in Devices
  BY DocumentTypes
<1>1. /\ outbox[d] \in Seq(Document) /\ outbox'[d] = Append(outbox[d], doc)
      /\ \A e \in Devices : e # d => outbox'[e] = outbox[e] /\ Pending(e)' = Pending(e)
      /\ Pending(d)' = Pending(d) \cup {doc}
      /\ Gone' = Gone
  BY <1>0, WriteEffect
<1>2. doc \notin Range(outbox[d]) /\ doc \notin Gone
  BY DEF Written, Pending
<1>3. Distinct(outbox'[d])
  BY <1>0, <1>1, <1>2, AppendOrder DEF OwnQueue
<1>4. OwnQueue'
  <2> SUFFICES ASSUME NEW e \in Devices
               PROVE  /\ \A x \in Pending(e)' : Home[x.job] = e /\ x \notin Gone'
                      /\ Distinct(outbox'[e])
    BY DEF OwnQueue, Distinct
  <2>1. CASE e = d
    BY <1>1, <1>2, <1>3, <2>1 DEF OwnQueue
  <2>2. CASE e # d
    BY <1>1, <2>2 DEF OwnQueue
  <2> QED
    BY <2>1, <2>2
<1>5. ASSUME NEW k \in Jobs
      PROVE  \/ CharacterDoc(about[k]) \in Gone
             \/ Before(outbox'[Home[k]], CharacterDoc(about[k]), LineDoc(k))
  <2>1. CASE CharacterDoc(about[k]) \in Gone
    BY <2>1
  <2>2. CASE CharacterDoc(about[k]) \notin Gone /\ Home[k] = d
    <3>1. Before(outbox[d], CharacterDoc(about[k]), LineDoc(k))
      BY <2>2 DEF InLine
    <3>2. doc = LineDoc(k) => CharacterDoc(about[k]) \in Range(outbox[d])
      BY <2>2, DocumentsDiffer DEF Written, Pending
    <3>3. \A x, y : Before(outbox[d], x, y) /\ (doc = y => x \in Range(outbox[d])) =>
                      Before(Append(outbox[d], doc), x, y)
      BY <1>1, AppendOrder
    <3>4. Before(Append(outbox[d], doc), CharacterDoc(about[k]), LineDoc(k))
      BY <3>1, <3>2, <3>3
    <3> QED
      BY <1>1, <2>2, <3>4
  <2>3. CASE CharacterDoc(about[k]) \notin Gone /\ Home[k] # d
    BY <1>1, <2>3, DocumentTypes DEF InLine
  <2> QED
    BY <2>1, <2>2, <2>3
<1> QED
  BY <1>1, <1>4, <1>5 DEF InLine

\* The first write of a job.
LEMMA AudioUrlArrivesOrder ==
  ASSUME TypeInv, OrderInv, NEW j \in Jobs, AudioUrlArrives(j) PROVE OrderInv'
<1> DEFINE doc == IF j \in CharacterJobs THEN CharacterDoc(j) ELSE LineDoc(j)
<1>0. /\ \A k \in Jobs : Home[k] \in Devices
      /\ \A k \in CharacterJobs : k \in Jobs
      /\ \A k \in LineJobs : k \in Jobs /\ k \notin CharacterJobs
      /\ \A k \in Jobs : k \in CharacterJobs \/ k \in LineJobs
  BY JobsAssumption, DocumentTypes DEF Jobs
<1>1. /\ stage[j] = "audioUrl" /\ doc \in Document /\ doc.job = j
      /\ SetData(Home[j], doc)
      /\ stage'[j] = IF j \in CharacterJobs THEN "setCharacter" ELSE "setDialogue"
      /\ \A k \in Jobs : k # j => stage'[k] = stage[k]
      /\ UNCHANGED <<about, newInfo, listed, server, rejected, cache>>
  BY <1>0, DocumentTypes, DocumentsDiffer DEF AudioUrlArrives, Moves, Becomes, TypeInv, TypeOK
<1> HIDE DEF doc
<1>2. doc \notin Written(Home[j])
  BY <1>1 DEF doc, OrderInv, Progress, Early
<1>3. doc = LineDoc(j) => CharacterDoc(about[j]) \in Written(Home[j])
  BY <1>0, <1>1, DocumentsDiffer DEF doc, OrderInv, AboutSeen
<1>4. /\ \A e \in Devices : e # Home[j] => Written(e)' = Written(e)
      /\ Written(Home[j])' = Written(Home[j]) \cup {doc}
      /\ Gone' = Gone
  BY <1>0, <1>1, WriteEffect DEF TypeInv
<1>5. OwnQueue' /\ InLine'
  BY <1>1, <1>2, <1>3, WriteKeepsQueues DEF OrderInv, TypeInv
<1>6. Progress'
  BY <1>0, <1>1, <1>2, <1>4, DocumentsDiffer DEF doc, OrderInv, Progress, Early
<1>7. FirstLine'
  BY <1>0, <1>1, <1>2, <1>4, DocumentsDiffer DEF doc, OrderInv, Progress, FirstLine, Early
<1>8. Seen'
  BY <1>0, <1>1, <1>4 DEF OrderInv, Seen
<1>9. AboutSeen'
  BY <1>0, <1>1, <1>4 DEF OrderInv, AboutSeen
<1>10. OwnCached' /\ NoOrphanLine'
  BY <1>1 DEF OrderInv, OwnCached, NoOrphanLine
<1>11. ReadOwn' /\ CompletionShowsOwn'
  BY <1>0, <1>1 DEF OrderInv, ReadOwn, CompletionShowsOwn
<1> QED
  BY <1>5, <1>6, <1>7, <1>8, <1>9, <1>10, <1>11 DEF OrderInv

\* The first line of a character is written when the character is decided.
LEMMA CharacterWrittenOrder ==
  ASSUME TypeInv, OrderInv, NEW j \in Jobs, CharacterWritten(j) PROVE OrderInv'
<1> DEFINE doc == LineDoc(j)
<1>0. /\ \A k \in Jobs : Home[k] \in Devices
      /\ \A k \in CharacterJobs : k \in Jobs
      /\ \A k \in LineJobs : k \in Jobs /\ k \notin CharacterJobs
      /\ \A k \in Jobs : k \in CharacterJobs \/ k \in LineJobs
  BY JobsAssumption, DocumentTypes DEF Jobs
<1>1. /\ stage[j] = "setCharacter" /\ stage'[j] = "setDialogue"
      /\ doc \in Document /\ doc.job = j
      /\ SetData(Home[j], doc) /\ CharacterDoc(j) \notin Pending(Home[j])
      /\ \A k \in Jobs : k # j => stage'[k] = stage[k]
      /\ UNCHANGED <<about, newInfo, listed, server, rejected, cache>>
  BY DocumentTypes, DocumentsDiffer
     DEF CharacterWritten, Decided, Moves, Becomes, TypeInv, TypeOK
<1>2. j \in CharacterJobs /\ about[j] = j
  BY <1>0, <1>1 DEF TypeInv, LineChain, OrderInv, AboutSeen
<1>3. doc \notin Written(Home[j]) /\ CharacterDoc(j) \in Written(Home[j])
      /\ CharacterDoc(j) \in Gone
  BY <1>1 DEF OrderInv, Progress, Written
<1> HIDE DEF doc
<1>4. /\ \A e \in Devices : e # Home[j] => Written(e)' = Written(e)
      /\ Written(Home[j])' = Written(Home[j]) \cup {doc}
      /\ Gone' = Gone
  BY <1>0, <1>1, WriteEffect DEF TypeInv
<1>5. OwnQueue' /\ InLine'
  BY <1>1, <1>2, <1>3, WriteKeepsQueues DEF OrderInv, TypeInv
<1>6. Progress'
  BY <1>0, <1>1, <1>3, <1>4, DocumentsDiffer DEF doc, OrderInv, Progress, Early
<1>7. FirstLine'
  BY <1>0, <1>1, <1>3, <1>4, DocumentsDiffer DEF doc, OrderInv, Progress, FirstLine
<1>8. Seen'
  BY <1>0, <1>1, <1>4 DEF OrderInv, Seen
<1>9. AboutSeen'
  BY <1>0, <1>1, <1>4 DEF OrderInv, AboutSeen
<1>10. OwnCached' /\ NoOrphanLine'
  BY <1>1 DEF OrderInv, OwnCached, NoOrphanLine
<1>11. ReadOwn' /\ CompletionShowsOwn'
  BY <1>0, <1>1 DEF OrderInv, ReadOwn, CompletionShowsOwn
<1> QED
  BY <1>5, <1>6, <1>7, <1>8, <1>9, <1>10, <1>11 DEF OrderInv

\* A line is about one of the characters on the list.
LEMMA RegisterLineOrder ==
  ASSUME TypeInv, OrderInv, NEW j \in Jobs, RegisterLine(j) PROVE OrderInv'
<1>0. /\ \A k \in Jobs : Home[k] \in Devices
      /\ \A k \in CharacterJobs : k \in Jobs
      /\ \A k \in LineJobs : k \in Jobs /\ k \notin CharacterJobs
  BY JobsAssumption, DocumentTypes DEF Jobs
<1>1. /\ j \in LineJobs /\ stage[j] = "idle" /\ stage'[j] = "putAudio"
      /\ \A k \in Jobs : k # j => stage'[k] = stage[k] /\ about'[k] = about[k]
      /\ about'[j] \in listed[Home[j]]
      /\ UNCHANGED <<newInfo, listed, outbox, server, rejected, cache>>
  BY DEF RegisterLine, Moves, Becomes, firestoreVars, TypeInv, TypeOK
<1>2. \A d : Written(d)' = Written(d) /\ Pending(d)' = Pending(d)
  BY <1>1 DEF Written, Gone, Pending
<1>3. Gone' = Gone
  BY <1>1 DEF Gone
<1>4. LineDoc(j) \notin Written(Home[j])
  BY <1>1 DEF OrderInv, Progress, Early
<1>5. OwnQueue'
  BY <1>1, <1>2, <1>3 DEF OrderInv, OwnQueue, Distinct
<1>6. InLine'
  <2>1. Before(outbox[Home[j]], CharacterDoc(about'[j]), LineDoc(j))
    BY <1>4 DEF Written, Pending, Before, Range
  <2> QED
    BY <1>1, <1>3, <2>1 DEF OrderInv, InLine
<1>7. Progress' /\ FirstLine' /\ ReadOwn' /\ CompletionShowsOwn'
  BY <1>0, <1>1, <1>2, <1>3
     DEF OrderInv, Progress, FirstLine, ReadOwn, CompletionShowsOwn, Early
<1>8. Seen' /\ OwnCached'
  BY <1>1, <1>2 DEF OrderInv, Seen, OwnCached
<1>9. AboutSeen'
  <2>1. CharacterDoc(about'[j]) \in Written(Home[j])
    BY <1>0, <1>1 DEF OrderInv, Seen
  <2> QED
    BY <1>0, <1>1, <1>2, <2>1 DEF OrderInv, AboutSeen
<1>10. NoOrphanLine'
  BY <1>1, <1>4 DEF OrderInv, NoOrphanLine, Written, Gone
<1> QED
  BY <1>5, <1>6, <1>7, <1>8, <1>9, <1>10 DEF OrderInv

\* The server takes the oldest write of a queue, which nobody has decided before.
LEMMA DecideEffect ==
  ASSUME TypeOK, OwnQueue, NEW d \in Devices, ServerDecides(d)
  PROVE  \E doc \in Document :
           /\ outbox[d] \in Seq(Document) /\ outbox[d] # << >>
           /\ doc = Head(outbox[d]) /\ outbox'[d] = Tail(outbox[d])
           /\ Pending(d) = {doc} \cup Pending(d)' /\ doc \notin Pending(d)'
           /\ Home[doc.job] = d /\ doc \notin Gone
           /\ \A e \in Devices : e # d => outbox'[e] = outbox[e] /\ Pending(e)' = Pending(e)
           /\ Gone' = Gone \cup {doc}
           /\ \A e \in Devices : Written(e)' = Written(e) \cup {doc}
           /\ \/ /\ server' = server \cup {doc} /\ rejected' = rejected
                 /\ cache' = [cache EXCEPT ![d] = @ \cup {doc}]
              \/ /\ rejected' = rejected \cup {doc} /\ server' = server
                 /\ cache' = cache
<1> DEFINE doc == Head(outbox[d])
<1>1. /\ outbox[d] \in Seq(Document) /\ outbox[d] # << >>
      /\ outbox'[d] = Tail(outbox[d])
      /\ \A e \in Devices : e # d => outbox'[e] = outbox[e]
  BY DEF TypeOK, ServerDecides, ServerCommits, ServerRejects
<1>2. /\ doc \in Document
      /\ Pending(d) = {doc} \cup Pending(d)'
      /\ \A e \in Devices : e # d => Pending(e)' = Pending(e)
      /\ \/ /\ server' = server \cup {doc} /\ rejected' = rejected
            /\ cache' = [cache EXCEPT ![d] = @ \cup {doc}]
         \/ /\ rejected' = rejected \cup {doc} /\ server' = server
            /\ cache' = cache
  BY ServerDecidesTypes
<1> HIDE DEF doc
<1>3. doc \notin Pending(d)'
  <2>1. Distinct(outbox[d])
    BY DEF OwnQueue
  <2>2. doc \notin Range(Tail(outbox[d]))
    BY <1>1, <2>1, TailOrder DEF doc
  <2> QED
    BY <1>1, <2>2 DEF Pending
<1>4. Home[doc.job] = d /\ doc \notin Gone
  BY <1>2 DEF OwnQueue
<1>5. Gone' = Gone \cup {doc}
  BY <1>2 DEF Gone
<1>6. \A e \in Devices : Written(e)' = Written(e) \cup {doc}
  BY <1>2, <1>5 DEF Written
<1> QED
  BY <1>1, <1>2, <1>3, <1>4, <1>5, <1>6 DEF doc

\* A decision comes for the oldest write: a line's character is decided by then.
LEMMA ServerDecidesOrder ==
  ASSUME TypeInv, OrderInv, NEW d \in Devices, ServerDecides(d) PROVE OrderInv'
<1>0. /\ \A k \in Jobs : Home[k] \in Devices
      /\ \A k \in CharacterJobs : k \in Jobs
      /\ \A k \in LineJobs : k \in Jobs /\ k \notin CharacterJobs
      /\ UNCHANGED <<stage, about, newInfo, listed>>
  BY JobsAssumption, DocumentTypes DEF Jobs, ServerDecides
<1>1. PICK doc \in Document :
        /\ outbox[d] \in Seq(Document) /\ outbox[d] # << >>
        /\ doc = Head(outbox[d]) /\ outbox'[d] = Tail(outbox[d])
        /\ Pending(d) = {doc} \cup Pending(d)' /\ doc \notin Pending(d)'
        /\ Home[doc.job] = d /\ doc \notin Gone
        /\ \A e \in Devices : e # d => outbox'[e] = outbox[e] /\ Pending(e)' = Pending(e)
        /\ Gone' = Gone \cup {doc}
        /\ \A e \in Devices : Written(e)' = Written(e) \cup {doc}
        /\ \/ /\ server' = server \cup {doc} /\ rejected' = rejected
              /\ cache' = [cache EXCEPT ![d] = @ \cup {doc}]
           \/ /\ rejected' = rejected \cup {doc} /\ server' = server
              /\ cache' = cache
  BY DecideEffect DEF TypeInv, OrderInv
<1>2. doc \in Written(d)
  BY <1>1 DEF Written
<1>3. \A k \in Jobs : /\ LineDoc(k) \in Written(Home[k])' <=> LineDoc(k) \in Written(Home[k])
                      /\ CharacterDoc(k) \in Written(Home[k])' <=>
                         CharacterDoc(k) \in Written(Home[k])
  BY <1>0, <1>1, <1>2, DocumentsDiffer
<1>4. OwnQueue'
  <2>1. Distinct(outbox'[d])
    <3>1. Distinct(outbox[d])
      BY DEF OrderInv, OwnQueue
    <3> QED
      BY <1>1, <3>1, TailOrder
  <2> SUFFICES ASSUME NEW e \in Devices
               PROVE  /\ \A x \in Pending(e)' : Home[x.job] = e /\ x \notin Gone'
                      /\ Distinct(outbox'[e])
    BY DEF OwnQueue, Distinct
  <2>2. CASE e = d
    BY <1>1, <2>1, <2>2 DEF OrderInv, OwnQueue
  <2>3. CASE e # d
    BY <1>1, <2>3 DEF OrderInv, OwnQueue
  <2> QED
    BY <2>2, <2>3
<1>5. Progress' /\ FirstLine'
  <2>1. Gone \subseteq Gone'
    BY <1>1
  <2>2. ASSUME NEW k \in Jobs
        PROVE  /\ stage[k] \in Early =>
                    {CharacterDoc(k), LineDoc(k)} \cap Written(Home[k])' = {}
               /\ stage[k] = "setCharacter" =>
                    CharacterDoc(k) \in Written(Home[k])' /\ LineDoc(k) \notin Written(Home[k])'
               /\ stage[k] = "setDialogue" => LineDoc(k) \in Written(Home[k])'
               /\ stage[k] \in {"fetchCharacters", "fetchDialogues", "done"} =>
                    LineDoc(k) \in Gone'
    BY <1>3, <2>1 DEF OrderInv, Progress
  <2>3. Progress'
    BY <1>0, <2>2 DEF Progress
  <2>4. ASSUME NEW k \in CharacterJobs
        PROVE  /\ LineDoc(k) \in Written(Home[k])' => CharacterDoc(k) \in Gone'
               /\ CharacterDoc(k) \in Written(Home[k])' =>
                    stage[k] \in {"setCharacter", "dead"} \/ LineDoc(k) \in Written(Home[k])'
    BY <1>0, <1>3, <2>1 DEF OrderInv, FirstLine
  <2>5. FirstLine'
    BY <1>0, <2>4 DEF FirstLine
  <2> QED
    BY <2>3, <2>5
<1>6. AboutSeen'
  BY <1>0, <1>1 DEF OrderInv, AboutSeen
<1>7. Seen'
  <2>1. \A e \in Devices : cache'[e] \subseteq server'
    <3>1. \A e \in Devices : cache[e] \subseteq server
      BY DEF OrderInv, Seen
    <3>2. CASE server' = server /\ cache' = cache
      BY <3>1, <3>2
    <3>3. CASE server' = server \cup {doc} /\ cache' = [cache EXCEPT ![d] = @ \cup {doc}]
      <4> SUFFICES ASSUME NEW e \in Devices PROVE cache'[e] \subseteq server'
        OBVIOUS
      <4>1. cache'[e] \subseteq cache[e] \cup {doc}
        BY <3>3 DEF TypeInv, TypeOK
      <4> QED
        BY <3>1, <3>3, <4>1
    <3> QED
      BY <1>1, <3>2, <3>3
  <2>2. \A e \in Devices : \A c \in listed'[e] : CharacterDoc(c) \in Written(e)'
    BY <1>0, <1>1 DEF OrderInv, Seen
  <2>3. \A k \in Jobs : newInfo'[k] \subseteq Written(Home[k])'
    BY <1>0, <1>1 DEF OrderInv, Seen
  <2> QED
    BY <1>0, <2>1, <2>2, <2>3 DEF Seen
<1>8. OwnCached'
  <2>1. CASE server' = server /\ cache' = cache
    BY <2>1 DEF OrderInv, OwnCached
  <2>2. CASE server' = server \cup {doc} /\ cache' = [cache EXCEPT ![d] = @ \cup {doc}]
    <3> SUFFICES ASSUME NEW x \in server' PROVE x \in cache'[Home[x.job]]
      BY DEF OwnCached
    <3>1. x = doc \/ x \in cache[Home[x.job]]
      BY <2>2 DEF OrderInv, OwnCached
    <3>2. CASE Home[x.job] = d
      BY <1>1, <2>2, <3>1, <3>2 DEF TypeInv, TypeOK
    <3>3. CASE Home[x.job] # d
      BY <1>1, <2>2, <3>1, <3>3 DEF TypeInv, TypeOK
    <3> QED
      BY <3>2, <3>3
  <2> QED
    BY <1>1, <2>1, <2>2
<1>9. ReadOwn' /\ CompletionShowsOwn'
  BY <1>0, <1>1 DEF OrderInv, ReadOwn, CompletionShowsOwn
<1>10. InLine'
  <2> SUFFICES ASSUME NEW k \in Jobs, CharacterDoc(about[k]) \notin Gone'
               PROVE  Before(outbox'[Home[k]], CharacterDoc(about[k]), LineDoc(k))
    BY <1>0 DEF InLine
  <2>1. Before(outbox[Home[k]], CharacterDoc(about[k]), LineDoc(k))
    BY <1>1 DEF OrderInv, InLine
  <2>2. CASE Home[k] = d
    <3>1. \A x, y : Before(outbox[d], x, y) /\ Head(outbox[d]) # x =>
                    Before(Tail(outbox[d]), x, y)
      BY <1>1, TailOrder
    <3> QED
      BY <1>1, <2>1, <2>2, <3>1
  <2>3. CASE Home[k] # d
    BY <1>0, <1>1, <2>1, <2>3
  <2> QED
    BY <2>2, <2>3
<1>11. NoOrphanLine'
  <2> SUFFICES ASSUME NEW k \in Jobs, LineDoc(k) \in server'
               PROVE  CharacterDoc(about[k]) \in Gone'
    BY <1>0 DEF NoOrphanLine, Gone
  <2>1. CASE LineDoc(k) \in server
    BY <1>1, <2>1 DEF OrderInv, NoOrphanLine, Gone
  <2>2. CASE LineDoc(k) \notin server
    <3>1. doc = LineDoc(k) /\ Home[k] = d
      BY <1>1, <2>2, DocumentsDiffer
    <3>2. ~Before(outbox[d], CharacterDoc(about[k]), LineDoc(k))
      BY <1>1, <3>1, TailOrder
    <3> QED
      BY <1>1, <3>1, <3>2 DEF OrderInv, InLine
  <2> QED
    BY <2>1, <2>2
<1> QED
  BY <1>4, <1>5, <1>6, <1>7, <1>8, <1>9, <1>10, <1>11 DEF OrderInv

\* What a query answers and leaves in the cache: nothing the server does not
\* have or the device has not written, and all of the device's own that it has.
LEMMA ReadKeeps ==
  ASSUME TypeOK, Seen, OwnCached, NEW d \in Devices, NEW source \in Sources(d),
         NEW wanted, wanted \subseteq Document,
         Remember(d, source, wanted), UNCHANGED <<server, rejected, outbox>>
  PROVE  /\ \A e \in Devices : cache'[e] \subseteq server'
         /\ OwnCached'
         /\ Answer(d, source, wanted) \subseteq Written(d)
         /\ \A doc \in server \cap wanted :
              Home[doc.job] = d => doc \in Answer(d, source, wanted)
         /\ Gone' = Gone
         /\ \A e : Written(e)' = Written(e) /\ Pending(e)' = Pending(e)
<1>1. source \subseteq server
  BY DEF Sources, Seen
<1>2. \A e \in Devices : cache'[e] =
        IF e = d THEN cache[d] \cup (source \cap wanted) ELSE cache[e]
  BY DEF Remember, TypeOK
<1>3. \A e \in Devices : cache'[e] \subseteq server'
  BY <1>1, <1>2 DEF Seen
<1>4. \A doc \in server : Home[doc.job] \in Devices
  BY DocumentTypes, DocumentsDiffer DEF TypeOK, Document, AllCharacters, AllLines, Jobs
<1>5. OwnCached'
  BY <1>2, <1>4 DEF OwnCached
<1>6. Answer(d, source, wanted) \subseteq Written(d)
  BY <1>1 DEF Answer, Written, Gone
<1>7. ASSUME NEW doc \in server \cap wanted, Home[doc.job] = d
      PROVE  doc \in Answer(d, source, wanted)
  BY <1>7 DEF Sources, Answer, OwnCached
<1>8. Gone' = Gone /\ \A e : Written(e)' = Written(e) /\ Pending(e)' = Pending(e)
  BY DEF Gone, Written, Pending
<1> QED
  BY <1>3, <1>5, <1>6, <1>7, <1>8

\* The list receives characters the device may know.
LEMMA ListArrivesOrder ==
  ASSUME TypeInv, OrderInv, NEW d \in Devices, ListArrives(d) PROVE OrderInv'
<1>1. PICK source \in Sources(d) :
        /\ listed' = [listed EXCEPT ![d] =
                        @ \cup Named(Answer(d, source, AllCharacters))]
        /\ Remember(d, source, AllCharacters)
  BY DEF ListArrives
<1>2. UNCHANGED <<stage, about, newInfo, outbox, server, rejected>>
  BY DEF ListArrives
<1>3. /\ \A e \in Devices : cache'[e] \subseteq server'
      /\ OwnCached'
      /\ Answer(d, source, AllCharacters) \subseteq Written(d)
      /\ Gone' = Gone
      /\ \A e : Written(e)' = Written(e) /\ Pending(e)' = Pending(e)
  BY <1>1, <1>2, ReadKeeps, DocumentTypes DEF TypeInv, OrderInv
<1>4. \A c \in Named(Answer(d, source, AllCharacters)) : CharacterDoc(c) \in Written(d)
  <2>1. Answer(d, source, AllCharacters) \subseteq AllCharacters
    BY DEF Answer
  <2> QED
    BY <1>3, <2>1, NamedCharacters
<1>5. Seen'
  <2>1. ASSUME NEW e \in Devices, NEW c \in listed'[e] PROVE CharacterDoc(c) \in Written(e)'
    <3>1. c \in listed[e] \/ (e = d /\ c \in Named(Answer(d, source, AllCharacters)))
      BY <1>1, <2>1 DEF TypeInv, TypeOK
    <3> QED
      BY <1>3, <1>4, <2>1, <3>1 DEF OrderInv, Seen
  <2> QED
    BY <1>2, <1>3, <2>1 DEF OrderInv, Seen
<1>6. OwnQueue' /\ InLine'
  BY <1>2, <1>3 DEF OrderInv, OwnQueue, InLine, Distinct, Before
<1>7. Progress' /\ FirstLine' /\ AboutSeen'
  BY <1>2, <1>3 DEF OrderInv, Progress, FirstLine, AboutSeen
<1>8. ReadOwn' /\ NoOrphanLine' /\ CompletionShowsOwn'
  BY <1>2 DEF OrderInv, ReadOwn, NoOrphanLine, CompletionShowsOwn
<1> QED
  BY <1>3, <1>5, <1>6, <1>7, <1>8 DEF OrderInv

\* A registration that reads the characters back finds its own.
LEMMA CharactersReadOrder ==
  ASSUME TypeInv, OrderInv, NEW j \in Jobs, CharactersRead(j) PROVE OrderInv'
<1> DEFINE d == Home[j]
<1>0. /\ d \in Devices
      /\ \A k \in CharacterJobs : k \in Jobs
      /\ \A k \in LineJobs : k \in Jobs /\ k \notin CharacterJobs
      /\ \A k \in Jobs : k \in CharacterJobs \/ k \in LineJobs
  BY JobsAssumption, DocumentTypes DEF Jobs
<1>1. PICK source \in Sources(d) :
        /\ newInfo' = [newInfo EXCEPT ![j] = Answer(d, source, AllCharacters)]
        /\ Remember(d, source, AllCharacters)
  BY DEF CharactersRead
<1>2. /\ stage[j] = "fetchCharacters" /\ stage'[j] = "fetchDialogues"
      /\ \A k \in Jobs : k # j => stage'[k] = stage[k]
      /\ UNCHANGED <<about, listed, outbox, server, rejected>>
  BY DEF CharactersRead, Moves, Becomes, TypeInv, TypeOK
<1>3. /\ \A e \in Devices : cache'[e] \subseteq server'
      /\ OwnCached'
      /\ Answer(d, source, AllCharacters) \subseteq Written(d)
      /\ \A doc \in server \cap AllCharacters :
           Home[doc.job] = d => doc \in Answer(d, source, AllCharacters)
      /\ Gone' = Gone
      /\ \A e : Written(e)' = Written(e) /\ Pending(e)' = Pending(e)
  BY <1>0, <1>1, <1>2, ReadKeeps, DocumentTypes DEF TypeInv, OrderInv
<1>4. j \in CharacterJobs
  BY <1>0, <1>2 DEF TypeInv, LineChain
<1>5. /\ newInfo'[j] = Answer(d, source, AllCharacters)
      /\ \A k \in Jobs : k # j => newInfo'[k] = newInfo[k]
  BY <1>1 DEF TypeInv, TypeOK
<1>6. LineDoc(j) \in Gone /\ CharacterDoc(j) \in Gone
  BY <1>2, <1>4 DEF OrderInv, Progress, FirstLine, Written
<1>7. CharacterDoc(j) \in rejected \cup (newInfo'[j] \cap server)
  BY <1>3, <1>4, <1>5, <1>6, DocumentTypes, DocumentsDiffer DEF Gone
<1>8. ReadOwn'
  BY <1>0, <1>2, <1>5, <1>7 DEF OrderInv, ReadOwn
<1>9. Seen'
  <2>1. \A k \in Jobs : newInfo'[k] \subseteq Written(Home[k])
    BY <1>3, <1>5 DEF OrderInv, Seen
  <2> QED
    BY <1>2, <1>3, <2>1 DEF OrderInv, Seen
<1>10. OwnQueue' /\ InLine'
  BY <1>2, <1>3 DEF OrderInv, OwnQueue, InLine, Distinct, Before
<1>11. Progress' /\ FirstLine' /\ AboutSeen'
  BY <1>0, <1>2, <1>3, <1>6 DEF OrderInv, Progress, FirstLine, AboutSeen, Early, Written
<1>12. NoOrphanLine' /\ CompletionShowsOwn'
  BY <1>2, <1>5 DEF OrderInv, NoOrphanLine, CompletionShowsOwn
<1> QED
  BY <1>3, <1>8, <1>9, <1>10, <1>11, <1>12 DEF OrderInv

\* A job that completes has read back what it wrote.
LEMMA DialoguesReadOrder ==
  ASSUME TypeInv, OrderInv, NEW j \in Jobs, DialoguesRead(j) PROVE OrderInv'
<1> DEFINE d == Home[j]
<1>0. /\ d \in Devices
      /\ \A k \in CharacterJobs : k \in Jobs
      /\ \A k \in LineJobs : k \in Jobs /\ k \notin CharacterJobs
      /\ \A k \in Jobs : k \in CharacterJobs \/ k \in LineJobs
  BY JobsAssumption, DocumentTypes DEF Jobs
<1>1. PICK source \in Sources(d) :
        /\ newInfo' = [newInfo EXCEPT ![j] = @ \cup Answer(d, source, AllLines)]
        /\ Remember(d, source, AllLines)
  BY DEF DialoguesRead
<1>2. /\ stage[j] = "fetchDialogues" /\ stage'[j] = "done"
      /\ \A k \in Jobs : k # j => stage'[k] = stage[k]
      /\ UNCHANGED <<about, outbox, server, rejected>>
  BY DEF DialoguesRead, Moves, Becomes, TypeInv, TypeOK
<1>3. /\ \A e \in Devices : cache'[e] \subseteq server'
      /\ OwnCached'
      /\ Answer(d, source, AllLines) \subseteq Written(d)
      /\ \A doc \in server \cap AllLines :
           Home[doc.job] = d => doc \in Answer(d, source, AllLines)
      /\ Gone' = Gone
      /\ \A e : Written(e)' = Written(e) /\ Pending(e)' = Pending(e)
  BY <1>0, <1>1, <1>2, ReadKeeps, DocumentTypes DEF TypeInv, OrderInv
<1>4. /\ newInfo'[j] = newInfo[j] \cup Answer(d, source, AllLines)
      /\ \A k \in Jobs : k # j => newInfo'[k] = newInfo[k]
  BY <1>1 DEF TypeInv, TypeOK
<1>5. LineDoc(j) \in Gone
  BY <1>2 DEF OrderInv, Progress
<1>6. LineDoc(j) \in rejected \cup (newInfo'[j] \cap server)
  BY <1>3, <1>4, <1>5, DocumentTypes, DocumentsDiffer DEF Gone
<1>7. j \in CharacterJobs => CharacterDoc(j) \in rejected \cup (newInfo'[j] \cap server)
  BY <1>2, <1>4 DEF OrderInv, ReadOwn
<1>8. CompletionShowsOwn'
  <2> SUFFICES ASSUME NEW k \in Jobs, stage'[k] = "done"
               PROVE  OwnDocs(k) \subseteq rejected \cup (newInfo'[k] \cap server)
    BY <1>2 DEF CompletionShowsOwn
  <2>1. CASE k = j
    BY <1>6, <1>7, <2>1 DEF OwnDocs
  <2>2. CASE k # j
    BY <1>2, <1>4, <2>2 DEF OrderInv, CompletionShowsOwn
  <2> QED
    BY <2>1, <2>2
<1>9. Seen'
  <2>1. \A k \in Jobs : newInfo'[k] \subseteq Written(Home[k])
    BY <1>3, <1>4 DEF OrderInv, Seen
  <2>2. j \in CharacterJobs => \A c \in Named(newInfo[j]) : CharacterDoc(c) \in Written(d)
    BY <1>2, NamedCharacters DEF TypeInv, ReadBack, OrderInv, Seen
  <2>3. ASSUME NEW e \in Devices, NEW c \in listed'[e] PROVE CharacterDoc(c) \in Written(e)
    <3>1. c \in listed[e] \/ (e = d /\ j \in CharacterJobs /\ c \in Named(newInfo[j]))
      BY <2>3 DEF DialoguesRead, TypeInv, TypeOK
    <3> QED
      BY <2>2, <2>3, <3>1 DEF OrderInv, Seen
  <2> QED
    BY <1>3, <2>1, <2>3 DEF Seen
<1>10. OwnQueue' /\ InLine'
  BY <1>2, <1>3 DEF OrderInv, OwnQueue, InLine, Distinct, Before
<1>11. Progress' /\ FirstLine' /\ AboutSeen'
  BY <1>0, <1>2, <1>3, <1>5 DEF OrderInv, Progress, FirstLine, AboutSeen, Early
<1>12. NoOrphanLine' /\ ReadOwn'
  BY <1>0, <1>2, <1>4 DEF OrderInv, NoOrphanLine, ReadOwn
<1> QED
  BY <1>3, <1>8, <1>9, <1>10, <1>11, <1>12 DEF OrderInv

\* Every step keeps the order of writes: the stages tell what was written, the
\* queues and caches what of it is decided and seen.
LEMMA NextOrderInv == TypeInv /\ OrderInv /\ [Next]_vars => OrderInv'
<1> SUFFICES ASSUME TypeInv, OrderInv, [Next]_vars PROVE OrderInv'
  OBVIOUS
<1>0. /\ \A j \in Jobs : Home[j] \in Devices
      /\ \A j \in CharacterJobs : j \in Jobs
      /\ \A j \in LineJobs : j \in Jobs /\ j \notin CharacterJobs
      /\ \A j \in Jobs : j \in CharacterJobs \/ j \in LineJobs
  BY JobsAssumption, DocumentTypes DEF Jobs
<1> USE DEF Moves, Becomes, TypeInv, TypeOK, Forward, Early
<1>1. ASSUME NEW j \in Jobs, RegisterCharacter(j) PROVE OrderInv'
  <2>1. \A k \in Jobs : Forward(k)
    BY <1>1 DEF RegisterCharacter
  <2> QED
    BY <1>1, <2>1, QuietStep DEF RegisterCharacter
<1>2. ASSUME NEW j \in Jobs, ImagePut(j) PROVE OrderInv'
  <2>1. \A k \in Jobs : Forward(k)
    BY <1>2 DEF ImagePut
  <2> QED
    BY <1>2, <2>1, QuietStep DEF ImagePut
<1>3. ASSUME NEW j \in Jobs, ImageUrlArrives(j) PROVE OrderInv'
  <2>1. \A k \in Jobs : Forward(k)
    BY <1>3 DEF ImageUrlArrives
  <2> QED
    BY <1>3, <2>1, QuietStep DEF ImageUrlArrives
<1>4. ASSUME NEW j \in Jobs, UrlMissing(j) PROVE OrderInv'
  <2>1. \A k \in Jobs : Forward(k)
    BY <1>4 DEF UrlMissing
  <2> QED
    BY <1>4, <2>1, QuietStep DEF UrlMissing
<1>5. ASSUME NEW j \in Jobs, AudioPut(j) PROVE OrderInv'
  <2>1. \A k \in Jobs : Forward(k)
    BY <1>5 DEF AudioPut
  <2> QED
    BY <1>5, <2>1, QuietStep DEF AudioPut
<1>6. ASSUME NEW j \in Jobs, DialogueWritten(j) PROVE OrderInv'
  <2>1. LineDoc(j) \in Gone
    BY <1>6 DEF DialogueWritten, Decided, OrderInv, Progress, Written
  <2>2. \A k \in Jobs : Forward(k)
    BY <1>6, <2>1 DEF DialogueWritten
  <2> QED
    BY <1>6, <2>2, QuietStep DEF DialogueWritten
<1>7. ASSUME NEW j \in Jobs, ReadFails(j) PROVE OrderInv'
  <2>1. \A k \in Jobs : Forward(k)
    BY <1>7 DEF ReadFails
  <2> QED
    BY <1>7, <2>1, QuietStep DEF ReadFails
<1>8. ASSUME NEW d \in Devices, OpenComposer(d) \/ ListFails(d) PROVE OrderInv'
  <2>1. \A k \in Jobs : Forward(k)
    BY <1>8 DEF OpenComposer, ListFails
  <2> QED
    BY <1>8, <2>1, QuietStep DEF OpenComposer, ListFails
<1>9. ASSUME NEW d \in Devices, Crash(d) PROVE OrderInv'
  <2>1. \A k \in Jobs : Forward(k)
    BY <1>9 DEF Crash, Waiting
  <2>2. \A e \in Devices : listed'[e] \subseteq listed[e]
    BY <1>9 DEF Crash
  <2> QED
    BY <1>9, <2>1, <2>2, QuietStep DEF Crash, KeepOnDisk, firestoreVars
<1>10. ASSUME UNCHANGED vars PROVE OrderInv'
  BY <1>10, QuietStep DEF vars, firestoreVars
<1> QED
  BY <1>1, <1>2, <1>3, <1>4, <1>5, <1>6, <1>7, <1>8, <1>9, <1>10,
     AudioUrlArrivesOrder, CharacterWrittenOrder, RegisterLineOrder,
     ServerDecidesOrder, ListArrivesOrder, CharactersReadOrder, DialoguesReadOrder
     DEF Next, Callback

\* The order of writes is an invariant of the whole chain.
LEMMA OrderCorrect == Spec => [](TypeInv /\ OrderInv)
<1>1. Init => TypeInv /\ OrderInv
  BY InitTypeInv, InitOrderInv
<1>2. TypeInv /\ OrderInv /\ [Next]_vars => (TypeInv /\ OrderInv)'
  BY NextTypeInv, NextOrderInv
<1> QED
  BY <1>1, <1>2, PTL DEF Spec

\* A line that everyone reads is of a character whose fate is known: a device's
\* queue keeps the line behind its character, through crashes and refusals, and a
\* line of a character of another device is only begun when that is committed.
THEOREM NoOrphanCorrect == Spec => []NoOrphanLine
<1>1. OrderInv => NoOrphanLine
  BY DEF OrderInv
<1> QED
  BY <1>1, OrderCorrect, PTL

\* Only a crash, or the moment between the two writes, leaves a character everyone
\* reads without the first line its registration writes for it.
THEOREM NoHalfCorrect == Spec => []NoHalfCharacter
<1>1. OrderInv => NoHalfCharacter
  BY DocumentTypes DEF OrderInv, FirstLine, NoHalfCharacter, Written, Gone
<1> QED
  BY <1>1, OrderCorrect, PTL

\* When uploadCharacter or uploadDialogue calls its completion, what the job wrote
\* is decided, and what was committed is in what the completion is given, even if
\* both reads were answered from the cache.
THEOREM CompletionCorrect == Spec => []CompletionShowsOwn
<1>1. OrderInv => CompletionShowsOwn
  BY DEF OrderInv
<1> QED
  BY <1>1, OrderCorrect, PTL

-----------------------------------------------------------------------------
\* The chain implements the catalogue

\* The catalogue speaks of the same jobs and documents.
LEMMA SameDocuments ==
  /\ Promise!Jobs = Jobs
  /\ Promise!Document = Document
  /\ Promise!AllLines = AllLines
  /\ \A j : Promise!CharacterDoc(j) = CharacterDoc(j) /\ Promise!OwnDocs(j) = OwnDocs(j)
BY DEF Promise!Jobs, Promise!Document, Promise!AllLines, Promise!AllCharacters,
       Promise!CharacterDoc, Promise!LineDoc, Promise!OwnDocs,
       Jobs, Document, AllLines, AllCharacters, CharacterDoc, LineDoc, OwnDocs

\* The status of a stage.
LEMMA StatusOfStage ==
  /\ CatalogueStatus("idle") = "idle"
  /\ \A s \in Waiting : CatalogueStatus(s) = "working"
  /\ CatalogueStatus("done") = "finished"
  /\ CatalogueStatus("stalled") = "abandoned"
  /\ CatalogueStatus("dead") = "abandoned"
<1>1. \A s \in Waiting : CatalogueStatus(s) = "working"
  BY DEF CatalogueStatus, Waiting
<1> QED
  BY <1>1 DEF CatalogueStatus, Waiting

\* The status of every job.
StatusOf == [j \in Jobs |-> CatalogueStatus(stage[j])]

\* A step of one job's stage is a step of its status.
LEMMA StatusStep ==
  ASSUME TypeOK, NEW j \in Jobs, NEW s, Becomes(j, s)
  PROVE  StatusOf' = [StatusOf EXCEPT ![j] = CatalogueStatus(s)]
<1>1. /\ stage'[j] = s
      /\ \A k \in Jobs : k # j => stage'[k] = stage[k]
  BY DEF Becomes, TypeOK
<1> QED
  BY <1>1 DEF StatusOf

\* A job that moves from one call to the next is still working.
LEMMA WorkingStep ==
  ASSUME TypeOK, NEW j \in Jobs, NEW s \in Waiting, stage[j] \in Waiting, Becomes(j, s)
  PROVE  StatusOf' = StatusOf
<1>1. StatusOf' = [StatusOf EXCEPT ![j] = "working"]
  BY StatusStep, StatusOfStage
<1>2. StatusOf[j] = "working"
  BY StatusOfStage DEF StatusOf
<1> QED
  BY <1>1, <1>2 DEF StatusOf

\* A document that is written somewhere is of a job that began.
LEMMA WrittenBegan ==
  ASSUME OrderInv, NEW d \in Devices, NEW j \in Jobs, NEW doc \in Written(d),
         doc \in {CharacterDoc(j), LineDoc(j)}
  PROVE  doc \in Written(Home[j]) /\ stage[j] # "idle"
<1>1. doc.job = j
  BY DocumentsDiffer
<1>2. doc \in Written(Home[j])
  BY <1>1 DEF OrderInv, OwnQueue, Written
<1> QED
  BY <1>2 DEF OrderInv, Progress, Early

\* The initial states are initial states of the catalogue.
LEMMA InitCatalogue == Init => Promise!Init
BY StatusOfStage, SameDocuments DEF Init, BackendInit, Promise!Init

\* A line is begun for a character whose job began.
LEMMA BeginsLine ==
  ASSUME TypeInv, OrderInv, NEW j \in Jobs, RegisterLine(j) PROVE Promise!Begin(j)
<1>1. PICK c \in listed[Home[j]] : about' = [about EXCEPT ![j] = c]
  BY DEF RegisterLine
<1>2. c \in CharacterJobs /\ c \in Jobs /\ CharacterDoc(c) \in Written(Home[j])
  BY <1>1, DocumentTypes DEF TypeInv, TypeOK, OrderInv, Seen, Jobs
<1>3. StatusOf[c] # "idle"
  <2>1. stage[c] # "idle" /\ stage[c] \in Stage
    BY <1>2, WrittenBegan, DocumentTypes DEF TypeInv, TypeOK
  <2> QED
    BY <1>2, <2>1, StatusOfStage DEF StatusOf, Stage
<1>4. StatusOf[j] = "idle"
  BY StatusOfStage DEF RegisterLine, Moves, StatusOf
<1>5. StatusOf' = [StatusOf EXCEPT ![j] = "working"]
  <2>1. CatalogueStatus("putAudio") = "working"
    BY StatusOfStage DEF Waiting
  <2> QED
    BY <2>1, StatusStep DEF RegisterLine, Moves, TypeInv
<1>6. j \notin CharacterJobs
  BY JobsAssumption DEF RegisterLine
<1>7. UNCHANGED <<server, rejected>>
  BY DEF RegisterLine, firestoreVars
<1> QED
  BY <1>1, <1>2, <1>3, <1>4, <1>5, <1>6, <1>7, SameDocuments DEF Promise!Begin, StatusOf

\* A registration of a character begins, or is dropped at once without a picture.
LEMMA BeginsCharacter ==
  ASSUME TypeInv, NEW j \in Jobs, RegisterCharacter(j) PROVE Promise!Begin(j)
<1>1. PICK s \in {"putImage", "stalled"} : Becomes(j, s)
  BY DEF RegisterCharacter
<1>2. StatusOf' = [StatusOf EXCEPT ![j] = CatalogueStatus(s)]
  BY <1>1, StatusStep DEF TypeInv
<1>3. CatalogueStatus(s) \in {"working", "abandoned"}
  BY <1>1, StatusOfStage DEF Waiting
<1>4. StatusOf[j] = "idle"
  BY StatusOfStage DEF RegisterCharacter, StatusOf
<1>5. j \in CharacterJobs /\ UNCHANGED <<about, server, rejected>>
  BY DEF RegisterCharacter, firestoreVars
<1> QED
  BY <1>2, <1>3, <1>4, <1>5, SameDocuments DEF Promise!Begin, StatusOf

\* The oldest write of a queue is not decided yet, and its character is.
LEMMA SettlesOldest ==
  ASSUME TypeInv, OrderInv, NEW d \in Devices, ServerDecides(d)
  PROVE  \E doc \in Document : Promise!Settle(doc)
<1>1. PICK doc \in Document :
        /\ outbox[d] \in Seq(Document) /\ outbox[d] # << >>
        /\ doc = Head(outbox[d])
        /\ doc \in Pending(d)
        /\ Home[doc.job] = d /\ doc \notin Gone
        /\ \/ server' = server \cup {doc} /\ rejected' = rejected
           \/ rejected' = rejected \cup {doc} /\ server' = server
  BY DecideEffect DEF TypeInv, OrderInv
<1>2. PICK j \in Jobs : doc \in {CharacterDoc(j), LineDoc(j)}
  BY DEF Document, AllCharacters, AllLines, Jobs
<1>3. doc.job = j
  BY <1>2, DocumentsDiffer
<1>4. StatusOf[j] # "idle"
  <2>1. doc \in Written(d)
    BY <1>1 DEF Written
  <2>2. stage[j] # "idle" /\ stage[j] \in Stage
    BY <1>2, <2>1, WrittenBegan DEF TypeInv, TypeOK
  <2> QED
    BY <2>2, StatusOfStage DEF StatusOf, Stage
<1>5. doc \in AllLines => CharacterDoc(about[j]) \in Gone
  <2> SUFFICES ASSUME doc \in AllLines PROVE CharacterDoc(about[j]) \in Gone
    OBVIOUS
  <2>1. doc = LineDoc(j)
    BY <1>2, DocumentsDiffer DEF AllLines
  <2>2. ~Before(outbox[d], CharacterDoc(about[j]), LineDoc(j))
    BY <1>1, <2>1, TailOrder
  <2> QED
    BY <1>1, <1>3, <2>2 DEF OrderInv, InLine
<1>6. UNCHANGED <<stage, about>>
  BY DEF ServerDecides
<1>7. StatusOf' = StatusOf
  BY <1>6 DEF StatusOf
<1> QED
  BY <1>1, <1>3, <1>4, <1>5, <1>6, <1>7, SameDocuments
     DEF Promise!Settle, Promise!Settled, StatusOf, Gone

\* A job completes when all it wrote is decided.
LEMMA FinishesJob ==
  ASSUME TypeInv, OrderInv, NEW j \in Jobs, DialoguesRead(j) PROVE Promise!Finish(j)
<1>1. stage[j] = "fetchDialogues" /\ Becomes(j, "done")
      /\ UNCHANGED <<about, server, rejected>>
  BY DEF DialoguesRead, Moves
<1>2. StatusOf' = [StatusOf EXCEPT ![j] = "finished"]
  BY <1>1, StatusStep, StatusOfStage DEF TypeInv
<1>3. StatusOf[j] = "working"
  BY <1>1, StatusOfStage DEF StatusOf, Waiting
<1>4. OwnDocs(j) \subseteq server \cup rejected
  BY <1>1 DEF OrderInv, Progress, ReadOwn, OwnDocs, Gone
<1> QED
  BY <1>1, <1>2, <1>3, <1>4, SameDocuments DEF Promise!Finish, Promise!Settled, StatusOf

\* A guard that returns abandons its job.
LEMMA AbandonsOne ==
  ASSUME TypeInv, NEW j \in Jobs, UrlMissing(j) \/ ReadFails(j)
  PROVE  Promise!Abandon({j})
<1>1. stage[j] \in Waiting /\ Becomes(j, "stalled")
      /\ UNCHANGED <<about, server, rejected>>
  BY DEF UrlMissing, ReadFails, Waiting, firestoreVars
<1>2. StatusOf' = [StatusOf EXCEPT ![j] = "abandoned"]
  BY <1>1, StatusStep, StatusOfStage DEF TypeInv
<1>3. StatusOf[j] = "working"
  BY <1>1, StatusOfStage DEF StatusOf
<1>4. StatusOf' = [k \in Jobs |-> IF k \in {j} THEN "abandoned" ELSE StatusOf[k]]
  BY <1>2 DEF StatusOf
<1> QED
  BY <1>1, <1>3, <1>4, SameDocuments DEF Promise!Abandon, StatusOf

\* A crash abandons what the device was working on.
LEMMA AbandonsMany ==
  ASSUME TypeInv, NEW d \in Devices, Crash(d)
  PROVE  \E jobs \in SUBSET Jobs : Promise!Abandon(jobs)
<1> DEFINE jobs == {k \in Jobs : Home[k] = d /\ stage[k] \in Waiting}
<1>1. \A k \in jobs : StatusOf[k] = "working"
  BY StatusOfStage DEF StatusOf
<1>2. \A k \in Jobs : StatusOf'[k] = IF k \in jobs THEN "abandoned" ELSE StatusOf[k]
  <2> SUFFICES ASSUME NEW k \in Jobs
               PROVE  CatalogueStatus(stage'[k]) =
                        IF k \in jobs THEN "abandoned" ELSE CatalogueStatus(stage[k])
    BY DEF StatusOf
  <2>1. CASE Home[k] = d /\ stage[k] \in Waiting
    BY <2>1, StatusOfStage DEF Crash
  <2>2. CASE Home[k] = d /\ stage[k] = "stalled"
    BY <2>2, StatusOfStage DEF Crash, Waiting
  <2>3. CASE ~(Home[k] = d /\ stage[k] \in Waiting \cup {"stalled"})
    BY <2>3 DEF Crash
  <2> QED
    BY <2>1, <2>2, <2>3
<1>3. StatusOf' = [k \in Jobs |-> IF k \in jobs THEN "abandoned" ELSE StatusOf[k]]
  BY <1>2 DEF StatusOf
<1>4. UNCHANGED <<about, server, rejected>>
  BY DEF Crash, KeepOnDisk
<1> HIDE DEF jobs
<1>5. Promise!Abandon(jobs)
  BY <1>1, <1>3, <1>4, SameDocuments DEF Promise!Abandon, StatusOf
<1> QED
  BY <1>5 DEF jobs

\* The other steps are not seen in the catalogue.
LEMMA UnseenStep ==
  ASSUME TypeInv, NEW j \in Jobs,
         \/ ImagePut(j) \/ ImageUrlArrives(j) \/ AudioPut(j) \/ AudioUrlArrives(j)
         \/ CharacterWritten(j) \/ DialogueWritten(j) \/ CharactersRead(j)
  PROVE  UNCHANGED Promise!catalogueVars
<1>1. UNCHANGED <<about, server, rejected>>
  BY DEF ImagePut, ImageUrlArrives, AudioPut, AudioUrlArrives, CharacterWritten,
         DialogueWritten, CharactersRead, firestoreVars
<1>2. \E s \in Waiting : stage[j] \in Waiting /\ Becomes(j, s)
  BY DEF ImagePut, ImageUrlArrives, AudioPut, AudioUrlArrives, CharacterWritten,
         DialogueWritten, CharactersRead, Moves, Waiting
<1>3. StatusOf' = StatusOf
  BY <1>2, WorkingStep DEF TypeInv
<1> QED
  BY <1>1, <1>3 DEF Promise!catalogueVars, StatusOf

\* Every step is a step of the catalogue or is not seen in it.
LEMMA NextCatalogue ==
  TypeInv /\ OrderInv /\ [Next]_vars => [Promise!Next]_(Promise!catalogueVars)
<1> SUFFICES ASSUME TypeInv, OrderInv, [Next]_vars
             PROVE  Promise!Next \/ UNCHANGED Promise!catalogueVars
  OBVIOUS
<1>1. ASSUME NEW j \in Jobs, RegisterCharacter(j) \/ RegisterLine(j) \/ DialoguesRead(j)
      PROVE  Promise!Next
  BY <1>1, BeginsCharacter, BeginsLine, FinishesJob, SameDocuments DEF Promise!Next
<1>2. ASSUME NEW j \in Jobs, UrlMissing(j) \/ ReadFails(j) PROVE Promise!Next
  BY <1>2, AbandonsOne, SameDocuments DEF Promise!Next
<1>3. ASSUME NEW d \in Devices, ServerDecides(d) \/ Crash(d) PROVE Promise!Next
  BY <1>3, SettlesOldest, AbandonsMany, SameDocuments DEF Promise!Next
<1>4. ASSUME UNCHANGED <<stage, about, server, rejected>>
      PROVE  UNCHANGED Promise!catalogueVars
  BY <1>4 DEF Promise!catalogueVars
<1>5. ASSUME NEW d \in Devices, OpenComposer(d) \/ ListArrives(d) \/ ListFails(d)
      PROVE  UNCHANGED <<stage, about, server, rejected>>
  BY <1>5 DEF OpenComposer, ListArrives, ListFails, firestoreVars
<1>6. UNCHANGED vars => UNCHANGED <<stage, about, server, rejected>>
  BY DEF vars
<1> QED
  BY <1>1, <1>2, <1>3, <1>4, <1>5, <1>6, UnseenStep DEF Next, Callback

\* Whatever the devices, their queues, crashes, refusals and failed transfers do,
\* everyone who reads the catalogue sees what Catalogue promises: each document
\* decided once, a line after its character, a job finished after its documents.
THEOREM CatalogueCorrect == Spec => ImplementsCatalogue
<1>1. TypeInv /\ OrderInv /\ [Next]_vars => [Promise!Next]_(Promise!catalogueVars)
  BY NextCatalogue
<1> QED
  BY <1>1, InitCatalogue, OrderCorrect, PTL DEF Spec, ImplementsCatalogue, Promise!Spec

=============================================================================
