------------------------- MODULE FirestoreWritesProofs -------------------------
(***************************************************************************)
(* Proofs about the write pipeline, for any number of documents, faults    *)
(* and pending writes.                                                     *)
(*                                                                         *)
(* Inv ties the four places a write may be in to each other: every batch   *)
(* in the pipeline is on disk, in the order of the identifiers; the        *)
(* results on their way followed by the requests are the pipeline          *)
(* (Match), as long as the stream has not ended; when it has, the results  *)
(* left are still those of the first batches (Answered), and whatever was  *)
(* answered is on the server.  A callback is kept under an identifier, so  *)
(* Inv also needs that no two of the batches on disk and of the callbacks  *)
(* share one, which rests on how the next identifier is found at launch.   *)
(*                                                                         *)
(* That all this amounts to the queue of Backend (BackendImplemented)      *)
(* needs QueueInv beside it: the pipeline skips no batch (ShortInv), so a  *)
(* request on the wire is for the oldest open batch, and requests of a     *)
(* stream that was given up come in the same order (AdriftInv), each for a *)
(* batch that is due when those before it have arrived.  Every step then   *)
(* adds to the open batches, takes the oldest, or leaves them (OpenStep).  *)
(***************************************************************************)
EXTENDS FirestoreWrites, SequenceTheorems, WellFoundedInduction, FiniteSetTheorems, TLAPS

\* A set of numbers has a least one.
LEMMA LeastNatural ==
  ASSUME NEW T, T \subseteq Nat, T # {}
  PROVE \E x \in T : \A y \in T : x <= y
  <1> DEFINE R == OpToRel(<, Nat)
  <1>1. \E x \in T : \A y \in T : ~(<<y, x>> \in R)
    <2>1. IsWellFoundedOn(R, Nat)
      BY NatLessThanWellFounded
    <2> HIDE DEF R
    <2> QED BY <2>1, WFMin
  <1>2. \A x, y \in Nat : y < x => <<y, x>> \in R
    BY DEF OpToRel
  <1>3. PICK x \in T : \A y \in T : ~(<<y, x>> \in R)
    BY <1>1
  <1> HIDE DEF R
  <1>4. \A y \in T : ~(y < x)
    BY <1>2, <1>3
  <1> QED BY <1>4

\* Among numbered batches one has the highest number.
LEMMA GreatestBatch ==
  ASSUME NEW S, S \subseteq Batch, S # {}, NEW n \in Nat, \A b \in S : b.id < n
  PROVE  \E b \in S : \A c \in S : c.id <= b.id
  <1> DEFINE Gaps == {n - b.id : b \in S}
  <1>1. Gaps \subseteq Nat /\ Gaps # {}
    BY DEF Batch
  <1>2. PICK x \in Gaps : \A y \in Gaps : x <= y
    BY <1>1, LeastNatural
  <1>3. PICK b \in S : x = n - b.id
    BY <1>2
  <1>4. ASSUME NEW c \in S PROVE c.id <= b.id
    <2>1. n - c.id \in Gaps /\ b.id \in Nat /\ c.id \in Nat
      BY DEF Batch
    <2> HIDE DEF Gaps
    <2>2. n - b.id <= n - c.id
      BY <1>2, <1>3, <2>1
    <2> QED BY <2>1, <2>2
  <1> QED BY <1>4

\* LoadNextBatchIdFromDb: whatever is left on disk, the next identifier is above
\* all of it, if all of it is below some number.
LEMMA NextNumber ==
  ASSUME NEW m, m \subseteq Batch, NEW n \in Nat, \A b \in m : b.id < n
  PROVE /\ LoadNextBatchId(m) \in Nat
        /\ \A b \in m : b.id < LoadNextBatchId(m)
  <1>1. CASE m = {}
    BY <1>1 DEF LoadNextBatchId
  <1>2. CASE m # {}
    <2>1. \E b \in m : \A c \in m : c.id <= b.id
      BY <1>2, GreatestBatch
    <2> DEFINE last == CHOOSE c \in m : \A d \in m : d.id <= c.id
    <2>2. last \in m /\ \A d \in m : d.id <= last.id
      BY <2>1
    <2>3. LoadNextBatchId(m) = last.id + 1
      BY <1>2 DEF LoadNextBatchId
    <2> QED BY <2>2, <2>3 DEF Batch
  <1> QED BY <1>1, <1>2

\* What travels on the stream.
Message == Document \cup {Hello}

\* In the order of the identifiers.
Ascending(p) == \A i, j \in 1 .. Len(p) : i < j => p[i].id < p[j].id
\* On disk, all of it.
Held(p, m) == \A i \in 1 .. Len(p) : p[i] \in m

\* The answers and then the requests name the batches of p one by one.
Match(answers, sent, p) ==
  /\ Len(p) = Len(answers) + Len(sent)
  /\ \A i \in 1 .. Len(p) :
       p[i].doc = IF i <= Len(answers) THEN answers[i] ELSE sent[i - Len(answers)]

\* The answers name the first batches of p, and each is among docs.
Answered(answers, p, docs) ==
  /\ Len(answers) <= Len(p)
  /\ \A i \in 1 .. Len(answers) : answers[i] = p[i].doc /\ answers[i] \in docs

\* The requests for some batches, one for each.
LEMMA DocsFacts ==
  ASSUME NEW p \in Seq(Batch)
  PROVE /\ Docs(p) \in Seq(Document) /\ Docs(p) \in Seq(Message) /\ Len(Docs(p)) = Len(p)
        /\ \A i \in 1 .. Len(p) : Docs(p)[i] = p[i].doc
  <1>1. Len(p) \in Nat /\ DOMAIN p = 1 .. Len(p)
    BY LenProperties
  <1>2. \A i \in 1 .. Len(p) : p[i].doc \in Document
    <2>1. \A i \in 1 .. Len(p) : p[i] \in Batch
      BY ElementOfSeq
    <2> QED BY <2>1 DEF Batch
  <1>3. Docs(p) \in [1 .. Len(p) -> Document]
    BY <1>1, <1>2 DEF Docs
  <1>4. Docs(p) \in Seq(Document) /\ Len(Docs(p)) = Len(p)
    BY <1>1, <1>3
  <1> QED BY <1>1, <1>4, SeqMonotonic DEF Docs, Message

\* What FillWritePipeline takes is on disk, in order, and later than the pipeline.
LEMMA NewBatches ==
  ASSUME NEW m, m \subseteq Batch, IsFiniteSet(m), NEW p,
         NEW new \in Orders(NextBatches(m, p))
  PROVE /\ new \in Seq(Batch) /\ Held(new, m) /\ Ascending(new)
        /\ \A i \in 1 .. Len(new) : new[i].id > LastRetrieved(p)
  <1> DEFINE S == NextBatches(m, p)
  <1>1. S \subseteq m /\ \A b \in S : b.id > LastRetrieved(p)
    BY DEF NextBatches
  <1>2. Cardinality(S) \in Nat
    BY <1>1, FS_Subset, FS_CardinalityType
  <1>3. /\ new \in [1 .. Cardinality(S) -> S]
        /\ \A i, j \in DOMAIN new : i < j => new[i].id < new[j].id
    BY DEF Orders
  <1> HIDE DEF S
  <1>4. new \in Seq(S) /\ Len(new) = Cardinality(S) /\ DOMAIN new = 1 .. Len(new)
    BY <1>2, <1>3
  <1>5. new \in Seq(Batch)
    BY <1>1, <1>4, SeqMonotonic
  <1> QED BY <1>1, <1>3, <1>4, <1>5 DEF Held, Ascending

\* Later batches, added at the end, keep the pipeline in order.
LEMMA Joined ==
  ASSUME NEW p \in Seq(Batch), NEW new \in Seq(Batch), NEW m,
         Held(p, m), Held(new, m), Ascending(p), Ascending(new),
         \A i \in 1 .. Len(new) : new[i].id > LastRetrieved(p)
  PROVE p \o new \in Seq(Batch) /\ Held(p \o new, m) /\ Ascending(p \o new)
  <1>1. /\ p \o new \in Seq(Batch) /\ Len(p \o new) = Len(p) + Len(new)
        /\ Len(p) \in Nat /\ Len(new) \in Nat
        /\ \A i \in 1 .. Len(p) + Len(new) :
             (p \o new)[i] = IF i <= Len(p) THEN p[i] ELSE new[i - Len(p)]
    BY ConcatProperties, LenProperties
  <1>2. ASSUME NEW i \in 1 .. Len(p), NEW j \in 1 .. Len(new) PROVE p[i].id < new[j].id
    <2>1. p # <<>> /\ LastRetrieved(p) = p[Len(p)].id /\ Len(p) \in 1 .. Len(p)
      BY <1>1 DEF LastRetrieved
    <2>2. p[i].id = p[Len(p)].id \/ p[i].id < p[Len(p)].id
      BY <2>1 DEF Ascending
    <2>3. p[i] \in Batch /\ p[Len(p)] \in Batch /\ new[j] \in Batch
      BY <2>1, ElementOfSeq
    <2>4. p[Len(p)].id < new[j].id
      BY <2>1
    <2>5. p[i].id \in Nat /\ p[Len(p)].id \in Nat /\ new[j].id \in Nat
      BY <2>3 DEF Batch
    <2> QED BY <2>2, <2>4, <2>5
  <1> DEFINE q == p \o new
  <1> HIDE DEF q
  <1>3. Held(q, m)
    BY <1>1 DEF Held, q
  <1>4. Ascending(q)
    <2> SUFFICES ASSUME NEW i \in 1 .. Len(q), NEW j \in 1 .. Len(q), i < j
                 PROVE q[i].id < q[j].id
      BY DEF Ascending
    <2>1. CASE j <= Len(p)
      BY <1>1, <2>1 DEF Ascending, q
    <2>2. CASE i <= Len(p) /\ ~(j <= Len(p))
      BY <1>1, <1>2, <2>2 DEF q
    <2>3. CASE ~(i <= Len(p)) /\ ~(j <= Len(p))
      <3>1. /\ i - Len(p) \in 1 .. Len(new) /\ j - Len(p) \in 1 .. Len(new)
            /\ i - Len(p) < j - Len(p)
            /\ q[i] = new[i - Len(p)] /\ q[j] = new[j - Len(p)]
        BY <1>1, <2>3 DEF q
      <3> QED BY <3>1 DEF Ascending
    <2> QED BY <1>1, <2>1, <2>2, <2>3 DEF q
  <1> QED BY <1>1, <1>3, <1>4 DEF q

\* Without its first batch the pipeline is still on disk when the disk has lost it.
LEMMA TailKeeps ==
  ASSUME NEW p \in Seq(Batch), p # <<>>, NEW m, Held(p, m), Ascending(p)
  PROVE /\ Tail(p) \in Seq(Batch) /\ Held(Tail(p), Remove(m, Head(p)))
        /\ Ascending(Tail(p)) /\ Head(p) = p[1] /\ Head(p) \in m
  <1>1. /\ Tail(p) \in Seq(Batch) /\ Len(Tail(p)) = Len(p) - 1 /\ Len(p) \in Nat \ {0}
        /\ \A i \in 1 .. Len(Tail(p)) : Tail(p)[i] = p[i + 1]
        /\ Head(p) = p[1]
    BY HeadTailProperties, EmptySeq, LenProperties
  <1>2. \A i \in 1 .. Len(p) : p[i].id \in Nat
    <2>1. \A i \in 1 .. Len(p) : p[i] \in Batch
      BY ElementOfSeq
    <2> QED BY <2>1 DEF Batch
  <1>3. \A i \in 1 .. Len(Tail(p)) : i + 1 \in 1 .. Len(p) /\ 1 < i + 1 /\ 1 \in 1 .. Len(p)
    BY <1>1
  <1>4. \A i \in 1 .. Len(Tail(p)) : Tail(p)[i] \in m /\ Tail(p)[i].id # Head(p).id
    BY <1>1, <1>2, <1>3 DEF Held, Ascending
  <1>5. Ascending(Tail(p))
    BY <1>1, <1>3 DEF Ascending
  <1> QED BY <1>1, <1>4, <1>5 DEF Held, Remove

\* Sending what is added to the pipeline keeps the match.
LEMMA MatchFill ==
  ASSUME NEW answers \in Seq(Message), NEW sent \in Seq(Message),
         NEW p \in Seq(Batch), NEW new \in Seq(Batch), Match(answers, sent, p)
  PROVE Match(answers, sent \o Docs(new), p \o new)
  <1>1. /\ Docs(new) \in Seq(Message) /\ Len(Docs(new)) = Len(new)
        /\ \A i \in 1 .. Len(new) : Docs(new)[i] = new[i].doc
    BY DocsFacts
  <1>2. Len(answers) \in Nat /\ Len(sent) \in Nat /\ Len(p) \in Nat /\ Len(new) \in Nat
    BY LenProperties
  <1>3. /\ Len(sent \o Docs(new)) = Len(sent) + Len(new)
        /\ \A i \in 1 .. Len(sent) + Len(new) :
             (sent \o Docs(new))[i] = IF i <= Len(sent) THEN sent[i] ELSE Docs(new)[i - Len(sent)]
    <2> DEFINE docs == Docs(new)
    <2>1. docs \in Seq(Message) /\ Len(docs) = Len(new)
      BY <1>1
    <2> HIDE DEF docs
    <2>2. /\ Len(sent \o docs) = Len(sent) + Len(docs)
          /\ \A i \in 1 .. Len(sent) + Len(docs) :
               (sent \o docs)[i] = IF i <= Len(sent) THEN sent[i] ELSE docs[i - Len(sent)]
      BY <2>1, ConcatProperties
    <2> QED BY <2>1, <2>2 DEF docs
  <1>4. /\ Len(p \o new) = Len(p) + Len(new)
        /\ \A i \in 1 .. Len(p) + Len(new) :
             (p \o new)[i] = IF i <= Len(p) THEN p[i] ELSE new[i - Len(p)]
    BY ConcatProperties
  <1> DEFINE s2 == sent \o Docs(new)
             p2 == p \o new
  <1>5. ASSUME NEW i \in 1 .. Len(p2)
        PROVE p2[i].doc = IF i <= Len(answers) THEN answers[i] ELSE s2[i - Len(answers)]
    <2> HIDE DEF s2, p2
    <2>1. CASE i <= Len(p)
      BY <1>2, <1>3, <1>4, <2>1 DEF Match, s2, p2
    <2>2. CASE ~(i <= Len(p))
      <3>1. i - Len(p) \in 1 .. Len(new) /\ p2[i] = new[i - Len(p)]
        BY <1>2, <1>4, <2>2 DEF p2
      <3>2. /\ ~(i <= Len(answers)) /\ Len(p) = Len(answers) + Len(sent)
            /\ i - Len(answers) \in 1 .. Len(sent) + Len(new)
            /\ ~(i - Len(answers) <= Len(sent))
            /\ (i - Len(answers)) - Len(sent) = i - Len(p)
        BY <1>2, <1>4, <2>2 DEF Match, p2
      <3>3. s2[i - Len(answers)] = Docs(new)[i - Len(p)]
        BY <1>3, <3>2 DEF s2
      <3> QED BY <1>1, <3>1, <3>2, <3>3
    <2> QED BY <2>1, <2>2
  <1> QED BY <1>2, <1>3, <1>4, <1>5 DEF Match

\* Reading one result and dropping one batch keeps the match.
LEMMA MatchTail ==
  ASSUME NEW answers \in Seq(Message), NEW sent \in Seq(Message), NEW p \in Seq(Batch),
         answers # <<>>, p # <<>>, Match(answers, sent, p)
  PROVE Match(Tail(answers), sent, Tail(p))
  <1>1. /\ Len(Tail(p)) = Len(p) - 1 /\ Len(p) \in Nat \ {0}
        /\ \A i \in 1 .. Len(Tail(p)) : Tail(p)[i] = p[i + 1]
    BY HeadTailProperties, EmptySeq
  <1>2. /\ Len(Tail(answers)) = Len(answers) - 1 /\ Len(answers) \in Nat \ {0}
        /\ \A i \in 1 .. Len(Tail(answers)) : Tail(answers)[i] = answers[i + 1]
    BY HeadTailProperties, EmptySeq
  <1>3. Len(sent) \in Nat
    BY LenProperties
  <1> QED BY <1>1, <1>2, <1>3 DEF Match

\* The server turning a request into a result keeps the match.
LEMMA MatchMove ==
  ASSUME NEW answers \in Seq(Message), NEW sent \in Seq(Message), NEW p \in Seq(Batch),
         sent # <<>>, Match(answers, sent, p)
  PROVE Match(Append(answers, Head(sent)), Tail(sent), p)
  <1> DEFINE more == Append(answers, Head(sent))
             rest == Tail(sent)
  <1>1. /\ Len(rest) = Len(sent) - 1 /\ Len(sent) \in Nat \ {0}
        /\ \A i \in 1 .. Len(rest) : rest[i] = sent[i + 1]
        /\ Head(sent) \in Message /\ Head(sent) = sent[1]
    BY HeadTailProperties, EmptySeq
  <1>2. /\ Len(more) = Len(answers) + 1 /\ Len(answers) \in Nat
        /\ \A i \in 1 .. Len(answers) : more[i] = answers[i]
        /\ more[Len(answers) + 1] = Head(sent)
    BY <1>1, AppendProperties, LenProperties
  <1>3. Len(p) \in Nat
    BY LenProperties
  <1> HIDE DEF more, rest
  <1>4. Len(p) = Len(more) + Len(rest)
    BY <1>1, <1>2, <1>3 DEF Match
  <1>5. ASSUME NEW i \in 1 .. Len(p)
        PROVE p[i].doc = IF i <= Len(more) THEN more[i] ELSE rest[i - Len(more)]
    <2>1. CASE i <= Len(answers)
      BY <1>1, <1>2, <1>3, <2>1 DEF Match
    <2>2. CASE i = Len(answers) + 1
      <3>1. ~(i <= Len(answers)) /\ i - Len(answers) = 1
        BY <1>2, <2>2
      <3> QED BY <1>1, <1>2, <2>2, <3>1 DEF Match
    <2>3. CASE i > Len(answers) + 1
      <3> DEFINE k == i - Len(more)
      <3>1. /\ ~(i <= Len(answers)) /\ ~(i <= Len(more))
            /\ k \in 1 .. Len(rest) /\ k + 1 = i - Len(answers)
        BY <1>1, <1>2, <1>3, <2>3 DEF Match
      <3> HIDE DEF k
      <3>2. p[i].doc = rest[k]
        BY <1>1, <3>1 DEF Match
      <3> QED BY <3>1, <3>2 DEF k
    <2> QED BY <1>2, <1>3, <2>1, <2>2, <2>3
  <1>6. Match(more, rest, p)
    BY <1>4, <1>5 DEF Match
  <1> QED BY <1>6 DEF more, rest

\* A result the server adds is that of the next batch not answered.
LEMMA AnsweredMove ==
  ASSUME NEW answers \in Seq(Message), NEW sent \in Seq(Message), NEW p \in Seq(Batch),
         sent # <<>>, Match(answers, sent, p), NEW docs, NEW more,
         Answered(answers, p, docs), docs \subseteq more, Head(sent) \in more
  PROVE Answered(Append(answers, Head(sent)), p, more)
  <1>1. Len(sent) \in Nat \ {0} /\ Head(sent) \in Message /\ Head(sent) = sent[1]
    BY HeadTailProperties, EmptySeq
  <1>2. /\ Len(Append(answers, Head(sent))) = Len(answers) + 1 /\ Len(answers) \in Nat
        /\ \A i \in 1 .. Len(answers) : Append(answers, Head(sent))[i] = answers[i]
        /\ Append(answers, Head(sent))[Len(answers) + 1] = Head(sent)
    BY <1>1, AppendProperties, LenProperties
  <1>3. Len(p) \in Nat
    BY LenProperties
  <1>4. p[Len(answers) + 1].doc = Head(sent)
    <2>1. /\ Len(answers) + 1 \in 1 .. Len(p) /\ ~(Len(answers) + 1 <= Len(answers))
          /\ (Len(answers) + 1) - Len(answers) = 1
      BY <1>1, <1>2, <1>3 DEF Match
    <2> QED BY <1>1, <2>1 DEF Match
  <1> QED BY <1>1, <1>2, <1>3, <1>4 DEF Match, Answered

\* Reading one result and dropping one batch keeps the rest answered.
LEMMA AnsweredTail ==
  ASSUME NEW answers \in Seq(Message), NEW p \in Seq(Batch), NEW docs,
         answers # <<>>, p # <<>>, Answered(answers, p, docs)
  PROVE /\ Answered(Tail(answers), Tail(p), docs)
        /\ Head(p).doc \in docs
  <1>1. /\ Len(Tail(p)) = Len(p) - 1 /\ Len(p) \in Nat \ {0}
        /\ \A i \in 1 .. Len(Tail(p)) : Tail(p)[i] = p[i + 1]
        /\ Head(p) = p[1]
    BY HeadTailProperties, EmptySeq
  <1>2. /\ Len(Tail(answers)) = Len(answers) - 1 /\ Len(answers) \in Nat \ {0}
        /\ \A i \in 1 .. Len(Tail(answers)) : Tail(answers)[i] = answers[i + 1]
    BY HeadTailProperties, EmptySeq
  <1> QED BY <1>1, <1>2 DEF Answered

\* Adding to the pipeline takes nothing from what is answered.
LEMMA AnsweredFill ==
  ASSUME NEW answers \in Seq(Message), NEW p \in Seq(Batch), NEW new \in Seq(Batch),
         NEW docs, Answered(answers, p, docs)
  PROVE Answered(answers, p \o new, docs)
  <1>1. Len(answers) \in Nat /\ Len(p) \in Nat /\ Len(new) \in Nat
    BY LenProperties
  <1>2. /\ Len(p \o new) = Len(p) + Len(new)
        /\ \A i \in 1 .. Len(p) + Len(new) :
             (p \o new)[i] = IF i <= Len(p) THEN p[i] ELSE new[i - Len(p)]
    BY ConcatProperties
  <1> QED BY <1>1, <1>2 DEF Answered

\* The whole pipeline sent, and nothing answered, is a match.
LEMMA AnsweredMatches ==
  ASSUME NEW p \in Seq(Batch)
  PROVE Match(<<>>, Docs(p), p)
  <1>1. Len(p) \in Nat /\ Len(Docs(p)) = Len(p)
        /\ \A i \in 1 .. Len(p) : Docs(p)[i] = p[i].doc
    BY DocsFacts, LenProperties
  <1> QED BY <1>1 DEF Match

\* What is sent names a document, so it is not the greeting.
LEMMA MatchDocs ==
  ASSUME NEW answers \in Seq(Message), NEW sent \in Seq(Message), NEW p \in Seq(Batch),
         sent # <<>>, Match(answers, sent, p)
  PROVE Head(sent) \in Document
  <1>1. Len(sent) \in Nat \ {0} /\ Head(sent) = sent[1]
    BY HeadTailProperties, EmptySeq
  <1>2. Len(answers) \in Nat /\ Len(p) \in Nat
    BY LenProperties
  <1>3. /\ Len(answers) + 1 \in 1 .. Len(p) /\ ~(Len(answers) + 1 <= Len(answers))
        /\ (Len(answers) + 1) - Len(answers) = 1
    BY <1>1, <1>2 DEF Match
  <1>4. p[Len(answers) + 1] \in Batch
    BY <1>3, ElementOfSeq
  <1>5. p[Len(answers) + 1].doc = Head(sent)
    BY <1>1, <1>3 DEF Match
  <1> QED BY <1>4, <1>5 DEF Batch

\* What the server has it keeps.
LEMMA AnsweredMore ==
  ASSUME NEW answers, NEW p, NEW docs, NEW more, docs \subseteq more,
         Answered(answers, p, docs)
  PROVE Answered(answers, p, more)
  BY DEF Answered

\* The queue, the callbacks and the number the next batch will have.
DiskInv ==
  /\ mutations \subseteq Batch /\ IsFiniteSet(mutations)
  /\ nextBatchId \in Nat /\ callbacks \subseteq Batch
  /\ \A b \in mutations \cup callbacks : b.id < nextBatchId
  /\ \A b \in mutations, c \in mutations \cup callbacks : b.id = c.id => b = c

\* A process that does not run keeps nothing in memory.
RunInv == ~running => callbacks = {} /\ stream = "initial"

\* The pipeline is on disk, in order.
PipelineInv ==
  pipeline \in Seq(Batch) /\ Held(pipeline, mutations) /\ Ascending(pipeline)

\* Requests and results, before the handshake, after it, and without a stream.
WireInv ==
  /\ requests \in Seq(Message) /\ responses \in Seq(Message)
  /\ stream # "open" => ~handshake /\ requests = <<>> /\ responses = <<>>
  /\ ~handshake => \/ requests = <<>> /\ responses = <<>>
                   \/ requests = <<Hello>> /\ responses = <<>>
                   \/ requests = <<>> /\ responses = <<Hello>>
  /\ handshake /\ verdict = "none" => Match(responses, requests, pipeline)
  /\ handshake => Answered(responses, pipeline, server)

\* What the app may know of a write.
Known == {"unwritten", "waiting", "written", "failed"}

\* Success is told of what the server has only.
ToldInv == told \in [Document -> Known] /\ WrittenIsCommitted

\* The inductive invariant, together with RunInv.
Inv == DiskInv /\ PipelineInv /\ WireInv /\ ToldInv

\* What only a running process changes.
LEMMA NextRunInv == ASSUME RunInv, [Next]_vars PROVE RunInv'
  <1>1. CASE \E doc \in Document : SetData(doc)
    BY <1>1 DEF SetData, RunInv
  <1>2. CASE ClientSteps
    <2>1. CASE Launch
      BY <2>1 DEF Launch, RunInv
    <2>2. CASE ReadMutationResult \/ StreamFailsRejecting
      <3>1. stream = "open"
        BY <2>2 DEF ReadMutationResult, StreamFailsRejecting, StatusArrives
      <3>2. running' = running
        BY <2>2 DEF ReadMutationResult, StreamFailsRejecting, Settle
      <3>3. running
        BY <3>1 DEF RunInv
      <3>4. running'
        BY <3>2, <3>3
      <3> QED BY <3>4 DEF RunInv
    <2>3. CASE StreamOpens \/ BackoffElapses \/ ReadHandshake \/ StreamFailsRetrying
      BY <2>3 DEF StreamOpens, BackoffElapses, ReadHandshake, StreamFailsRetrying,
                  StatusArrives, RunInv
    <2> QED BY <1>2, <2>1, <2>2, <2>3 DEF ClientSteps
  <1>3. CASE ServerSteps \/ StreamBreaks \/ LateRequestArrives
    BY <1>3 DEF ServerSteps, ServerAnswersHandshake, ServerCommits, ServerRefuses,
                StreamBreaks, LateRequestArrives, client, RunInv
  <1>4. CASE IdleTimeout \/ NetworkChanges \/ Crash
    <2>1. CASE IdleTimeout \/ Crash
      BY <2>1 DEF IdleTimeout, Crash, RunInv
    <2>2. CASE NetworkChanges
      <3>1. running /\ running' = running
        BY <2>2 DEF NetworkChanges
      <3>2. running'
        BY <3>1
      <3> QED BY <3>2 DEF RunInv
    <2> QED BY <1>4, <2>1, <2>2
  <1>5. CASE UNCHANGED vars
    BY <1>5 DEF vars, client, RunInv
  <1> QED BY <1>1, <1>2, <1>3, <1>4, <1>5 DEF Next

\* At the first launch everything is empty.
LEMMA InitInv == Init => Inv
  <1> SUFFICES ASSUME Init PROVE Inv
    OBVIOUS
  <1>1. DiskInv
    BY FS_EmptySet DEF Init, DiskInv
  <1>2. PipelineInv
    BY DEF Init, PipelineInv, Held, Ascending
  <1>3. WireInv
    BY DEF Init, WireInv
  <1>4. ToldInv
    BY DEF Init, ToldInv, Known, WrittenIsCommitted
  <1> QED BY <1>1, <1>2, <1>3, <1>4 DEF Inv

\* What a filled pipeline is, in the next state.
LEMMA Filled ==
  ASSUME NEW m, m \subseteq Batch, IsFiniteSet(m),
         NEW p \in Seq(Batch), Held(p, m), Ascending(p),
         NEW new \in Orders(NextBatches(m, p))
  PROVE /\ new \in Seq(Batch) /\ p \o new \in Seq(Batch)
        /\ Held(p \o new, m) /\ Ascending(p \o new)
        /\ Docs(new) \in Seq(Message)
  BY NewBatches, Joined, DocsFacts

\* No two batches share an identifier.
Numbered(m) == \A b, c \in m : b.id = c.id => b = c

\* A pipeline that is empty although it was filled shows an empty queue: there is
\* room for the oldest batch.
LEMMA FilledIsEmpty ==
  ASSUME NEW m, m \subseteq Batch, IsFiniteSet(m), Numbered(m),
         NEW p \in Seq(Batch), NEW new \in Orders(NextBatches(m, p)), p \o new = <<>>
  PROVE p = <<>> /\ new = <<>> /\ m = {}
  <1>1. new \in Seq(Batch)
    BY NewBatches
  <1>2. p = <<>> /\ new = <<>>
    BY <1>1, ConcatEqualIffEmpty
  <1>3. NextBatches(m, p) = {b \in m : /\ b.id > -1
                                       /\ Cardinality({c \in {d \in m : d.id > -1} : c.id <= b.id})
                                            <= MaxPendingWrites}
    <2>1. LastRetrieved(p) = -1 /\ MaxPendingWrites - Len(p) = MaxPendingWrites
      BY <1>2, EmptySeq, WritesAssumption DEF LastRetrieved, kBatchIdUnknown, WritesAssumption
    <2> QED BY <2>1 DEF NextBatches
  <1>4. \A b \in m : b.id \in Nat
    BY DEF Batch
  <1>5. ASSUME m # {} PROVE FALSE
    <2> DEFINE ids == {b.id : b \in m}
    <2>1. ids \subseteq Nat /\ ids # {}
      BY <1>4, <1>5
    <2>2. PICK least \in ids : \A i \in ids : least <= i
      BY <2>1, LeastNatural
    <2>3. PICK b \in m : b.id = least
      BY <2>2
    <2>4. \A c \in m : b.id <= c.id
      BY <2>2, <2>3
    <2>5. {c \in {d \in m : d.id > -1} : c.id <= b.id} = {b}
      <3>1. \A c \in m : c.id <= b.id => c = b
        BY <1>4, <2>3, <2>4 DEF Numbered
      <3> QED BY <1>4, <2>3, <3>1
    <2>6. Cardinality({b}) = 1
      BY FS_Singleton
    <2>7. b \in NextBatches(m, p)
      <3>1. 1 <= MaxPendingWrites
        BY WritesAssumption DEF WritesAssumption
      <3> QED BY <1>3, <1>4, <2>3, <2>5, <2>6, <3>1
    <2>8. Cardinality(NextBatches(m, p)) \in Nat \ {0}
      <3> DEFINE S == NextBatches(m, p)
      <3>1. IsFiniteSet(S) /\ S # {}
        BY <1>3, <2>7, FS_Subset
      <3> HIDE DEF S
      <3>2. Cardinality(S) \in Nat /\ Cardinality(S) # 0
        BY <3>1, FS_CardinalityType, FS_EmptySet
      <3> QED BY <3>2 DEF S
    <2>9. DOMAIN new = 1 .. Cardinality(NextBatches(m, p))
      BY DEF Orders
    <2>10. DOMAIN new = {}
      BY <1>2
    <2>11. 1 \in DOMAIN new
      BY <2>8, <2>9
    <2> QED BY <2>10, <2>11
  <1> QED BY <1>2, <1>5

\* What the idle timer says of the stream, the pipeline and the queue.
IdleInv ==
  /\ running /\ pipeline = <<>> => mutations = {}
  /\ Started(stream) /\ ~handshake => pipeline # <<>>
  /\ idleTimer => stream = "open" /\ handshake /\ pipeline = <<>>

\* Every way of filling the pipeline leaves it so.
LEMMA FillIdle ==
  ASSUME Inv, IdleInv, DiskInv', NEW p \in Seq(Batch), NEW s, NEW sent, NEW greeted,
         FillWritePipeline(mutations', p, s, greeted, sent), handshake' <=> greeted,
         Started(s) /\ ~greeted => p # <<>>,
         s = "open" /\ idleTimer => p = <<>> /\ greeted
  PROVE IdleInv'
  <1>1. PICK new \in Orders(NextBatches(mutations', p)) :
           /\ pipeline' = p \o new
           /\ idleTimer' = IdleTimerSet(new, s, greeted)
           /\ stream' = IF pipeline' # <<>> /\ ~Started(s) THEN Start(s) ELSE s
    BY DEF FillWritePipeline
  <1>2. mutations' \subseteq Batch /\ IsFiniteSet(mutations') /\ Numbered(mutations')
    BY DEF DiskInv, Numbered
  <1>3. new \in Seq(Batch)
    BY <1>2, NewBatches
  <1>4. ASSUME pipeline' = <<>> PROVE mutations' = {} /\ p = <<>>
    <2> DEFINE m == mutations'
    <2>1. /\ m \subseteq Batch /\ IsFiniteSet(m) /\ Numbered(m)
          /\ new \in Orders(NextBatches(m, p)) /\ p \o new = <<>>
      BY <1>1, <1>2, <1>4
    <2> HIDE DEF m
    <2>2. m = {} /\ p = <<>>
      BY <2>1, FilledIsEmpty
    <2> QED BY <2>2 DEF m
  <1>5. Started(stream') /\ ~greeted => pipeline' # <<>>
    <2>1. pipeline' = <<>> => stream' = s /\ p = <<>>
      BY <1>1, <1>4
    <2>2. pipeline' = <<>> => (Started(stream') <=> Started(s))
      BY <2>1 DEF Started
    <2> QED BY <2>1, <2>2
  <1>6. ASSUME idleTimer' PROVE stream' = "open" /\ greeted /\ pipeline' = <<>>
    <2>1. s = "open" /\ IF pipeline' = <<>> THEN TRUE
                        ELSE idleTimer /\ ~(new # <<>> /\ Sends(s, greeted))
      BY <1>1, <1>6 DEF IdleTimerSet
    <2>2. stream' = "open"
      BY <1>1, <2>1 DEF Started
    <2>3. CASE pipeline' = <<>>
      BY <1>4, <2>1, <2>2, <2>3 DEF Started
    <2>4. CASE pipeline' # <<>>
      <3>1. p = <<>> /\ greeted /\ new = <<>>
        BY <2>1, <2>4 DEF Sends
      <3>2. pipeline' = <<>>
        BY <1>1, <1>3, <3>1, ConcatEmptySeq
      <3> QED BY <2>4, <3>2
    <2> QED BY <2>3, <2>4
  <1>7. Started(stream') /\ ~handshake' => pipeline' # <<>>
    BY <1>5
  <1>8. idleTimer' => stream' = "open" /\ handshake' /\ pipeline' = <<>>
    BY <1>6
  <1> QED BY <1>4, <1>7, <1>8 DEF IdleInv

\* A new write: on disk under a new identifier, and sent if there is room.
LEMMA SetDataInv == ASSUME Inv, NEW doc \in Document, SetData(doc) PROVE Inv'
  <1> DEFINE batch == [id |-> nextBatchId, doc |-> doc]
  <1>1. batch \in Batch /\ nextBatchId \in Nat
    BY DEF Batch, Inv, DiskInv
  <1>2. /\ mutations' = {b \in mutations : b.id # nextBatchId} \cup {batch}
        /\ nextBatchId' = nextBatchId + 1 /\ callbacks' = callbacks \cup {batch}
        /\ running' = running /\ running
    BY DEF SetData, Put
  <1>3. mutations \subseteq mutations' /\ \A b \in mutations : b \in Batch /\ b.id \in Nat
    BY <1>2 DEF Inv, DiskInv, Batch
  <1>4. mutations' \subseteq Batch /\ IsFiniteSet(mutations')
    <2>1. IsFiniteSet({b \in mutations : b.id # nextBatchId})
      BY FS_Subset DEF Inv, DiskInv
    <2> QED BY <1>1, <1>2, <2>1, FS_AddElement DEF Inv, DiskInv
  <1>5. DiskInv'
    BY <1>1, <1>2, <1>3, <1>4 DEF Inv, DiskInv, Batch
  <1>6. Held(pipeline, mutations')
    BY <1>3 DEF Inv, PipelineInv, Held
  <1>7. PICK new \in Orders(NextBatches(mutations', pipeline)) :
           /\ pipeline' = pipeline \o new
           /\ requests' = IF Sends(stream, handshake) THEN requests \o Docs(new) ELSE requests
           /\ stream' = IF pipeline' # <<>> /\ ~Started(stream) THEN Start(stream) ELSE stream
           /\ UNCHANGED <<handshake, responses, verdict, server>>
    BY DEF SetData, FillWritePipeline
  <1>8. /\ new \in Seq(Batch) /\ pipeline' \in Seq(Batch)
        /\ Held(pipeline', mutations') /\ Ascending(pipeline') /\ Docs(new) \in Seq(Message)
    BY <1>4, <1>6, <1>7, Filled DEF Inv, PipelineInv
  <1>9. PipelineInv'
    BY <1>8 DEF PipelineInv
  <1>10. WireInv'
    <2>1. stream = "open" <=> stream' = "open"
      BY <1>7 DEF Started, Start
    <2>2. requests' \in Seq(Message)
      BY <1>7, <1>8, ConcatProperties DEF Inv, WireInv
    <2>3. CASE handshake
      <3>1. requests' = requests \o Docs(new) /\ stream = "open"
        BY <1>7, <2>3 DEF Inv, WireInv, Sends
      <3>2. verdict = "none" => Match(responses, requests', pipeline')
        BY <1>7, <1>8, <2>3, <3>1, MatchFill DEF Inv, WireInv, PipelineInv
      <3>3. Answered(responses, pipeline', server)
        BY <1>7, <1>8, <2>3, AnsweredFill DEF Inv, WireInv, PipelineInv
      <3> QED BY <1>7, <2>1, <2>2, <2>3, <3>1, <3>2, <3>3 DEF Inv, WireInv
    <2>4. CASE ~handshake
      BY <1>7, <2>1, <2>2, <2>4 DEF Inv, WireInv, Sends
    <2> QED BY <2>3, <2>4
  <1>11. ToldInv'
    <2>1. told \in [Document -> Known] /\ told' = [told EXCEPT ![doc] = "waiting"] /\ server' = server
      BY <1>7 DEF SetData, Inv, ToldInv
    <2>2. \A d \in Document : told'[d] = IF d = doc THEN "waiting" ELSE told[d]
      BY <2>1
    <2>3. told' \in [Document -> Known]
      BY <2>1 DEF Known
    <2>4. \A d \in Document : told'[d] = "written" => d \in server
      BY <2>2 DEF Inv, ToldInv, WrittenIsCommitted
    <2> QED BY <2>1, <2>3, <2>4 DEF ToldInv, WrittenIsCommitted
  <1> QED BY <1>5, <1>9, <1>10, <1>11 DEF Inv

\* Either way a batch is settled, the disk, the pipeline and the callbacks stay
\* in order, and nobody hears of another write than the one at the front.
LEMMA SettleFacts ==
  ASSUME Inv, NEW outcome \in {"written", "failed"}, NEW s, NEW greeted, NEW sent \in Seq(Message),
         pipeline # <<>>, Settle(outcome, s, greeted, sent),
         outcome = "written" => Head(pipeline).doc \in server
  PROVE /\ DiskInv' /\ PipelineInv' /\ ToldInv'
        /\ requests' \in Seq(Message)
        /\ \E new \in Seq(Batch) :
             /\ pipeline' = Tail(pipeline) \o new
             /\ requests' = IF Sends(s, greeted) THEN sent \o Docs(new) ELSE sent
        /\ stream' = IF pipeline' # <<>> /\ ~Started(s) THEN Start(s) ELSE s
        /\ UNCHANGED server
  <1> DEFINE batch == Head(pipeline)
  <1>1. /\ mutations' = Remove(mutations, batch)
        /\ told' = [d \in Document |-> IF \E c \in callbacks : c.id = batch.id /\ c.doc = d
                                       THEN outcome ELSE told[d]]
        /\ callbacks' = {c \in callbacks : c.id # batch.id}
        /\ UNCHANGED <<nextBatchId, running, server>>
    BY DEF Settle, NotifyUser
  <1>2. /\ Tail(pipeline) \in Seq(Batch) /\ Held(Tail(pipeline), mutations')
        /\ Ascending(Tail(pipeline)) /\ batch \in mutations
    BY <1>1, TailKeeps DEF Inv, PipelineInv
  <1>3. mutations' \subseteq mutations /\ mutations' \subseteq Batch /\ IsFiniteSet(mutations')
    <2>1. mutations' \subseteq mutations
      BY <1>1 DEF Remove
    <2> QED BY <2>1, FS_Subset DEF Inv, DiskInv
  <1>4. DiskInv'
    BY <1>1, <1>3 DEF Inv, DiskInv
  <1>5. PICK new \in Orders(NextBatches(mutations', Tail(pipeline))) :
           /\ pipeline' = Tail(pipeline) \o new
           /\ requests' = IF Sends(s, greeted) THEN sent \o Docs(new) ELSE sent
           /\ stream' = IF pipeline' # <<>> /\ ~Started(s) THEN Start(s) ELSE s
    BY DEF Settle, FillWritePipeline
  <1>6. /\ new \in Seq(Batch) /\ pipeline' \in Seq(Batch)
        /\ Held(pipeline', mutations') /\ Ascending(pipeline') /\ Docs(new) \in Seq(Message)
    BY <1>2, <1>3, <1>5, Filled
  <1>7. requests' \in Seq(Message)
    BY <1>5, <1>6, ConcatProperties
  <1>8. ToldInv'
    <2>1. \A c \in callbacks : c.id = batch.id => c = batch
      BY <1>2 DEF Inv, DiskInv
    <2>2. told' \in [Document -> Known]
      <3>1. outcome \in Known /\ \A d \in Document : told[d] \in Known
        BY DEF Known, Inv, ToldInv
      <3> QED BY <1>1, <3>1
    <2>3. ASSUME NEW d \in Document, told'[d] = "written" PROVE d \in server'
      <3>1. CASE \E c \in callbacks : c.id = batch.id /\ c.doc = d
        <4>1. told'[d] = outcome /\ d = batch.doc
          BY <1>1, <2>1, <3>1
        <4> QED BY <1>1, <2>3, <4>1
      <3>2. CASE ~\E c \in callbacks : c.id = batch.id /\ c.doc = d
        BY <1>1, <2>3, <3>2 DEF Inv, ToldInv, WrittenIsCommitted
      <3> QED BY <3>1, <3>2
    <2> QED BY <2>2, <2>3 DEF ToldInv, WrittenIsCommitted
  <1> QED BY <1>1, <1>4, <1>5, <1>6, <1>7, <1>8 DEF PipelineInv

\* A result settles the front of the pipeline, which is what it answers.
LEMMA ReadMutationResultInv == ASSUME Inv, ReadMutationResult PROVE Inv'
  <1>1. /\ stream = "open" /\ handshake /\ responses # <<>> /\ pipeline # <<>>
        /\ responses' = Tail(responses) /\ UNCHANGED <<handshake, verdict>>
        /\ Settle("written", stream, handshake, requests)
    BY DEF ReadMutationResult
  <1>2. /\ Answered(Tail(responses), Tail(pipeline), server)
        /\ Head(pipeline).doc \in server
    BY <1>1, AnsweredTail DEF Inv, PipelineInv, WireInv
  <1>3. /\ DiskInv' /\ PipelineInv' /\ ToldInv' /\ requests' \in Seq(Message)
        /\ \E new \in Seq(Batch) :
             /\ pipeline' = Tail(pipeline) \o new
             /\ requests' = IF Sends(stream, handshake) THEN requests \o Docs(new) ELSE requests
        /\ stream' = IF pipeline' # <<>> /\ ~Started(stream) THEN Start(stream) ELSE stream
        /\ UNCHANGED server
    BY <1>1, <1>2, SettleFacts DEF Inv, WireInv
  <1>4. PICK new \in Seq(Batch) :
           pipeline' = Tail(pipeline) \o new /\ requests' = requests \o Docs(new)
    BY <1>1, <1>3 DEF Sends
  <1>5. /\ stream' = "open" /\ Tail(responses) \in Seq(Message) /\ Tail(pipeline) \in Seq(Batch)
    BY <1>1, <1>3, HeadTailProperties DEF Started, Inv, WireInv, PipelineInv
  <1>6. verdict = "none" => Match(Tail(responses), requests, Tail(pipeline))
    BY <1>1, MatchTail DEF Inv, WireInv, PipelineInv
  <1>7. verdict = "none" => Match(responses', requests', pipeline')
    BY <1>1, <1>4, <1>5, <1>6, MatchFill DEF Inv, WireInv
  <1>8. Answered(responses', pipeline', server')
    BY <1>1, <1>2, <1>3, <1>4, <1>5, AnsweredFill
  <1>9. WireInv'
    BY <1>1, <1>3, <1>5, <1>7, <1>8 DEF WireInv
  <1> QED BY <1>3, <1>9 DEF Inv

\* The write to blame is told of as failed, and the stream is gone.
LEMMA StreamFailsRejectingInv == ASSUME Inv, StreamFailsRejecting PROVE Inv'
  <1>1. /\ pipeline # <<>> /\ Settle("failed", "initial", FALSE, <<>>) /\ StreamGone
    BY DEF StreamFailsRejecting, BlamesFirst
  <1>4. <<>> \in Seq(Message)
    BY EmptySeq
  <1>2. /\ DiskInv' /\ PipelineInv' /\ ToldInv' /\ requests' \in Seq(Message)
        /\ \E new \in Seq(Batch) :
             /\ pipeline' = Tail(pipeline) \o new
             /\ requests' = IF Sends("initial", FALSE) THEN <<>> \o Docs(new) ELSE <<>>
        /\ stream' = IF pipeline' # <<>> /\ ~Started("initial") THEN Start("initial")
                     ELSE "initial"
    BY <1>1, <1>4, SettleFacts
  <1>3. WireInv'
    BY <1>1, <1>2, <1>4 DEF WireInv, StreamGone, Sends, Start
  <1> QED BY <1>2, <1>3 DEF Inv

\* A stream that is gone leaves nothing on the wire.
LEMMA NoWire == ASSUME stream' # "open", StreamGone, requests' = <<>> PROVE WireInv'
  <1>1. <<>> \in Seq(Message)
    BY EmptySeq
  <1> QED BY <1>1 DEF WireInv, StreamGone

\* Where the queue is read from its start, the pipeline is its oldest part.
LEMMA Refilled ==
  ASSUME Inv, FillWritePipeline(mutations, <<>>, "initial", FALSE, <<>>), UNCHANGED mutations
  PROVE PipelineInv' /\ stream' # "open" /\ requests' = <<>>
  <1>1. /\ mutations \subseteq Batch /\ IsFiniteSet(mutations)
        /\ <<>> \in Seq(Batch) /\ Held(<<>>, mutations) /\ Ascending(<<>>)
    BY EmptySeq DEF Inv, DiskInv, Held, Ascending
  <1>2. PICK new \in Orders(NextBatches(mutations, <<>>)) :
           /\ pipeline' = <<>> \o new /\ requests' = <<>>
           /\ stream' = IF pipeline' # <<>> /\ ~Started("initial") THEN Start("initial")
                        ELSE "initial"
    BY DEF FillWritePipeline, Sends
  <1>3. pipeline' \in Seq(Batch) /\ Held(pipeline', mutations) /\ Ascending(pipeline')
    BY <1>1, <1>2, Filled
  <1>4. stream' # "open"
    BY <1>2 DEF Start
  <1> QED BY <1>2, <1>3, <1>4 DEF PipelineInv

\* On a new stream only the greeting is sent.
LEMMA StreamOpensInv == ASSUME Inv, StreamOpens PROVE Inv'
  <1>1. /\ stream = "starting" /\ stream' = "open" /\ requests' = <<Hello>>
        /\ UNCHANGED <<mutations, nextBatchId, running, callbacks, pipeline, handshake,
                       responses, server, told>>
    BY DEF StreamOpens, disk
  <1>2. <<Hello>> \in Seq(Message)
    BY DEF Message
  <1>3. WireInv'
    BY <1>1, <1>2 DEF Inv, WireInv
  <1> QED BY <1>1, <1>3
      DEF Inv, DiskInv, PipelineInv, Held, Ascending, ToldInv, WrittenIsCommitted

\* The end of the delay touches no write.
LEMMA BackoffElapsesInv == ASSUME Inv, BackoffElapses PROVE Inv'
  <1>1. /\ stream = "backoff" /\ stream' = "starting"
        /\ UNCHANGED <<mutations, nextBatchId, running, callbacks, pipeline, handshake,
                       requests, responses, verdict, server, told>>
    BY DEF BackoffElapses, disk, wire
  <1>2. WireInv'
    BY <1>1 DEF Inv, WireInv
  <1> QED BY <1>1, <1>2
      DEF Inv, DiskInv, PipelineInv, Held, Ascending, ToldInv, WrittenIsCommitted

\* After the handshake nothing has been answered, and everything is sent.
LEMMA ReadHandshakeInv == ASSUME Inv, ReadHandshake PROVE Inv'
  <1>1. /\ stream = "open" /\ ~handshake /\ responses # <<>>
        /\ responses' = Tail(responses) /\ requests' = requests \o Docs(pipeline)
        /\ handshake' = TRUE
        /\ UNCHANGED <<mutations, nextBatchId, running, callbacks, pipeline, stream,
                       verdict, server, told>>
    BY DEF ReadHandshake, disk
  <1>2. requests = <<>> /\ responses = <<Hello>>
    BY <1>1 DEF Inv, WireInv
  <1>3. Docs(pipeline) \in Seq(Message)
    BY DocsFacts DEF Inv, PipelineInv
  <1>4. requests' = Docs(pipeline)
    BY <1>1, <1>2, <1>3, ConcatEmptySeq
  <1>5. responses' = <<>> /\ responses' \in Seq(Message) /\ Len(responses') = 0
    <2>1. responses' = <<>>
      BY <1>1, <1>2
    <2> QED BY <2>1, EmptySeq
  <1>6. Match(responses', requests', pipeline)
    BY <1>4, <1>5, AnsweredMatches DEF Inv, PipelineInv
  <1>7. Answered(responses', pipeline, server)
    <2>1. Len(pipeline) \in Nat
      BY LenProperties DEF Inv, PipelineInv
    <2> QED BY <1>5, <2>1 DEF Answered
  <1>8. WireInv'
    BY <1>1, <1>3, <1>4, <1>5, <1>6, <1>7 DEF WireInv
  <1> QED BY <1>1, <1>8
      DEF Inv, DiskInv, PipelineInv, Held, Ascending, ToldInv, WrittenIsCommitted

\* Without a write to blame the pipeline stays for the next stream.
LEMMA StreamFailsRetryingInv == ASSUME Inv, StreamFailsRetrying PROVE Inv'
  <1>1. /\ stream' = (IF pipeline # <<>> THEN Start("error") ELSE "error")
        /\ requests' = <<>> /\ StreamGone
        /\ UNCHANGED <<mutations, nextBatchId, running, callbacks, pipeline, server, told>>
    BY DEF StreamFailsRetrying, disk
  <1>2. stream' # "open"
    BY <1>1 DEF Start
  <1>3. WireInv'
    BY <1>1, <1>2, NoWire
  <1> QED BY <1>1, <1>3
      DEF Inv, DiskInv, PipelineInv, Held, Ascending, ToldInv, WrittenIsCommitted

\* Stopping an idle stream leaves the pipeline.
LEMMA IdleTimeoutInv == ASSUME Inv, IdleTimeout PROVE Inv'
  <1>1. /\ stream' = "initial" /\ requests' = <<>> /\ StreamGone
        /\ UNCHANGED <<mutations, nextBatchId, running, callbacks, pipeline, server, told>>
    BY DEF IdleTimeout, disk
  <1>2. WireInv'
    BY <1>1, NoWire
  <1> QED BY <1>1, <1>2
      DEF Inv, DiskInv, PipelineInv, Held, Ascending, ToldInv, WrittenIsCommitted

\* A restart of the network fills the pipeline again from the disk.
LEMMA NetworkChangesInv == ASSUME Inv, NetworkChanges PROVE Inv'
  <1>1. /\ StreamGone /\ FillWritePipeline(mutations, <<>>, "initial", FALSE, <<>>)
        /\ UNCHANGED <<mutations, nextBatchId, running, callbacks, server, told>>
    BY DEF NetworkChanges, disk
  <1>2. PipelineInv' /\ stream' # "open" /\ requests' = <<>>
    BY <1>1, Refilled
  <1>3. WireInv'
    BY <1>1, <1>2, NoWire
  <1> QED BY <1>1, <1>2, <1>3 DEF Inv, DiskInv, ToldInv, WrittenIsCommitted

\* A crash leaves the disk and the server.
LEMMA CrashInv == ASSUME Inv, Crash PROVE Inv'
  <1>1. /\ StreamGone /\ stream' = "initial" /\ requests' = <<>>
        /\ callbacks' = {} /\ pipeline' = <<>>
        /\ UNCHANGED <<mutations, nextBatchId, server, told>>
    BY DEF Crash, disk
  <1>2. WireInv'
    BY <1>1, NoWire
  <1>3. PipelineInv'
    BY <1>1, EmptySeq DEF PipelineInv, Held, Ascending
  <1> QED BY <1>1, <1>2, <1>3 DEF Inv, DiskInv, ToldInv, WrittenIsCommitted

\* The number after the highest on disk is above every number on disk; those of
\* callbacks are gone with the process that kept them.
LEMMA LaunchInv == ASSUME Inv, RunInv, Launch PROVE Inv'
  <1>1. /\ ~running /\ nextBatchId' = LoadNextBatchId(mutations)
        /\ FillWritePipeline(mutations, <<>>, "initial", FALSE, <<>>)
        /\ UNCHANGED <<mutations, callbacks, handshake, responses, verdict, server, told>>
    BY DEF Launch
  <1>2. PipelineInv' /\ stream' # "open" /\ requests' = <<>>
    BY <1>1, Refilled
  <1>3. callbacks = {} /\ stream = "initial"
    BY <1>1 DEF RunInv
  <1>4. /\ LoadNextBatchId(mutations) \in Nat
        /\ \A b \in mutations : b.id < LoadNextBatchId(mutations)
    BY NextNumber DEF Inv, DiskInv
  <1>5. DiskInv'
    BY <1>1, <1>3, <1>4 DEF Inv, DiskInv
  <1>6. ~handshake /\ responses = <<>>
    BY <1>3 DEF Inv, WireInv
  <1>7. WireInv'
    BY <1>1, <1>2, <1>6, EmptySeq DEF WireInv
  <1> QED BY <1>1, <1>2, <1>5, <1>7 DEF Inv, ToldInv, WrittenIsCommitted

\* After the handshake, while the stream has not ended, a request on the wire names a document.
LEMMA RequestIsDocument ==
  ASSUME Inv, handshake, verdict = "none", requests # <<>>
  PROVE Head(requests) \in Document
  BY MatchDocs DEF Inv, WireInv, PipelineInv

\* The greeting is answered before anything else is sent.
LEMMA ServerAnswersHandshakeInv == ASSUME Inv, ServerAnswersHandshake PROVE Inv'
  <1>1. /\ verdict = "none" /\ requests # <<>> /\ Head(requests) = Hello
        /\ requests' = Tail(requests) /\ responses' = Append(responses, Hello)
        /\ UNCHANGED <<mutations, nextBatchId, running, callbacks, pipeline, stream,
                       handshake, verdict, server, told>>
    BY DEF ServerAnswersHandshake, disk, client
  <1>2. ~handshake
    BY <1>1, RequestIsDocument, WritesAssumption DEF WritesAssumption
  <1>3. stream = "open" /\ requests = <<Hello>> /\ responses = <<>>
    BY <1>1, <1>2 DEF Inv, WireInv
  <1>4. requests' = <<>> /\ responses' = <<Hello>>
    BY <1>1, <1>3
  <1>5. requests' \in Seq(Message) /\ responses' \in Seq(Message)
    BY <1>4, EmptySeq DEF Message
  <1>6. WireInv'
    BY <1>1, <1>2, <1>3, <1>4, <1>5 DEF WireInv
  <1> QED BY <1>1, <1>6
      DEF Inv, DiskInv, PipelineInv, Held, Ascending, ToldInv, WrittenIsCommitted

\* A commit answers the first request.
LEMMA ServerCommitsInv == ASSUME Inv, ServerCommits PROVE Inv'
  <1>1. /\ verdict = "none" /\ requests # <<>> /\ Head(requests) \in Document
        /\ server' = server \cup {Head(requests)}
        /\ requests' = Tail(requests) /\ responses' = Append(responses, Head(requests))
        /\ UNCHANGED <<mutations, nextBatchId, running, callbacks, pipeline, stream,
                       handshake, verdict, told>>
    BY DEF ServerCommits, disk, client
  <1>2. handshake
    <2>1. Head(<<Hello>>) = Hello
      OBVIOUS
    <2>2. ~handshake => requests = <<Hello>>
      BY <1>1 DEF Inv, WireInv
    <2> QED BY <1>1, <2>1, <2>2, WritesAssumption DEF WritesAssumption
  <1>3. stream = "open" /\ Match(responses, requests, pipeline)
        /\ Answered(responses, pipeline, server)
    BY <1>1, <1>2 DEF Inv, WireInv
  <1>4. requests' \in Seq(Message) /\ responses' \in Seq(Message)
    BY <1>1, HeadTailProperties, AppendProperties DEF Inv, WireInv
  <1>5. Match(responses', requests', pipeline)
    BY <1>1, <1>3, MatchMove DEF Inv, WireInv, PipelineInv
  <1>6. Answered(responses', pipeline, server')
    <2>1. server \subseteq server' /\ Head(requests) \in server'
      BY <1>1
    <2> QED BY <1>1, <1>3, <2>1, AnsweredMove DEF Inv, WireInv, PipelineInv
  <1>7. WireInv'
    BY <1>1, <1>2, <1>3, <1>4, <1>5, <1>6 DEF WireInv
  <1>8. ToldInv'
    BY <1>1 DEF Inv, ToldInv, WrittenIsCommitted
  <1> QED BY <1>1, <1>7, <1>8 DEF Inv, DiskInv, PipelineInv, Held, Ascending

\* A refusal ends the stream and leaves the results given before it.
LEMMA ServerRefusesInv == ASSUME Inv, ServerRefuses PROVE Inv'
  <1>1. /\ verdict = "none" /\ requests # <<>> /\ Head(requests) \in Document
        /\ verdict' = "permanent" /\ requests' = <<>>
        /\ UNCHANGED <<mutations, nextBatchId, running, callbacks, pipeline, stream,
                       handshake, responses, server, told>>
    BY WritesAssumption DEF ServerRefuses, disk, client, WritesAssumption
  <1>2. handshake
    <2>1. Head(<<Hello>>) = Hello
      OBVIOUS
    <2>2. ~handshake => requests = <<Hello>>
      BY <1>1 DEF Inv, WireInv
    <2> QED BY <1>1, <2>1, <2>2, WritesAssumption DEF WritesAssumption
  <1>3. requests' \in Seq(Message)
    BY <1>1, EmptySeq
  <1>4. WireInv'
    BY <1>1, <1>2, <1>3 DEF Inv, WireInv
  <1> QED BY <1>1, <1>4
      DEF Inv, DiskInv, PipelineInv, Held, Ascending, ToldInv, WrittenIsCommitted

\* What is left of the results after a break is still answered in order.
LEMMA StreamBreaksInv == ASSUME Inv, StreamBreaks PROVE Inv'
  <1>1. /\ stream = "open" /\ verdict = "none" /\ verdict' = "transient" /\ requests' = <<>>
        /\ UNCHANGED <<mutations, nextBatchId, running, callbacks, pipeline, stream,
                       handshake, server, told>>
    BY DEF StreamBreaks, disk, client
  <1>2. PICK n \in 0 .. Len(responses) : responses' = SubSeq(responses, 1, n)
    BY DEF StreamBreaks
  <1>3. Len(responses) \in Nat /\ \A i \in 1 .. n : responses[i] \in Message
    <2>1. responses \in Seq(Message) /\ Len(responses) \in Nat
      BY LenProperties DEF Inv, WireInv
    <2>2. \A i \in 1 .. Len(responses) : responses[i] \in Message
      BY <2>1, ElementOfSeq
    <2> QED BY <2>1, <2>2
  <1>4. /\ responses' \in Seq(Message) /\ Len(responses') = n
        /\ \A i \in 1 .. n : responses'[i] = responses[i]
    <2>1. 1 \in Int /\ n \in Int
      BY <1>3
    <2>2. /\ SubSeq(responses, 1, n) \in Seq(Message)
          /\ Len(SubSeq(responses, 1, n)) = IF 1 <= n THEN n - 1 + 1 ELSE 0
          /\ \A i \in 1 .. n - 1 + 1 : SubSeq(responses, 1, n)[i] = responses[1 + i - 1]
      BY <1>3, <2>1, SubSeqProperties
    <2> DEFINE kept == SubSeq(responses, 1, n)
    <2> HIDE DEF kept
    <2>3. Len(kept) = n /\ \A i \in 1 .. n : kept[i] = responses[i]
      BY <1>3, <2>2 DEF kept
    <2> QED BY <1>2, <2>2, <2>3 DEF kept
  <1>5. requests' \in Seq(Message)
    BY <1>1, EmptySeq
  <1>6. CASE handshake
    <2>1. Answered(responses, pipeline, server)
      BY <1>6 DEF Inv, WireInv
    <2>2. Len(pipeline) \in Nat
      BY LenProperties DEF Inv, PipelineInv
    <2>3. Answered(responses', pipeline, server)
      BY <1>3, <1>4, <2>1, <2>2 DEF Answered
    <2> QED BY <1>1, <1>4, <1>5, <1>6, <2>3
        DEF Inv, DiskInv, PipelineInv, WireInv, Held, Ascending, ToldInv, WrittenIsCommitted
  <1>7. CASE ~handshake
    <2>1. responses' = <<>> \/ responses' = <<Hello>>
      <3>1. CASE responses = <<>>
        <4>1. n = 0
          BY <3>1
        <4> QED BY <1>2, <4>1, SubSeqEmpty
      <3>2. CASE responses = <<Hello>>
        <4>1. n = 0 \/ n = 1
          BY <3>2
        <4>2. CASE n = 0
          BY <1>2, <4>2, SubSeqEmpty
        <4>3. CASE n = 1
          <5>1. n = Len(responses)
            BY <3>2, <4>3
          <5> QED BY <1>2, <3>2, <5>1, SubSeqFull DEF Inv, WireInv
        <4> QED BY <4>1, <4>2, <4>3
      <3> QED BY <1>7, <3>1, <3>2 DEF Inv, WireInv
    <2> QED BY <1>1, <1>4, <1>5, <1>7, <2>1
        DEF Inv, DiskInv, PipelineInv, WireInv, Held, Ascending, ToldInv, WrittenIsCommitted
  <1> QED BY <1>6, <1>7

\* A request of a stream given up adds to the server only.
LEMMA LateRequestArrivesInv == ASSUME Inv, LateRequestArrives PROVE Inv'
  <1>1. /\ server \subseteq server'
        /\ UNCHANGED <<mutations, nextBatchId, running, callbacks, pipeline, stream,
                       handshake, requests, responses, verdict, told>>
    BY DEF LateRequestArrives, disk, client
  <1>2. handshake => Answered(responses, pipeline, server')
    BY <1>1, AnsweredMore DEF Inv, WireInv
  <1>3. WireInv'
    BY <1>1, <1>2 DEF Inv, WireInv
  <1>4. ToldInv'
    BY <1>1 DEF Inv, ToldInv, WrittenIsCommitted
  <1> QED BY <1>1, <1>3, <1>4 DEF Inv, DiskInv, PipelineInv, Held, Ascending

\* Nothing happens.
LEMMA StutterInv == ASSUME Inv, UNCHANGED vars PROVE Inv'
  <1>1. UNCHANGED <<mutations, nextBatchId, running, callbacks, pipeline, stream,
                    handshake, requests, responses, verdict, server, told>>
    BY DEF vars, disk, client, wire
  <1> QED BY <1>1 DEF Inv, DiskInv, PipelineInv, WireInv, Held, Ascending, Match, Answered,
                      ToldInv, WrittenIsCommitted

\* Every step keeps the invariant.
LEMMA NextInv == ASSUME Inv, RunInv, [Next]_vars PROVE Inv'
  <1>1. CASE \E doc \in Document : SetData(doc)
    BY <1>1, SetDataInv
  <1>2. CASE ClientSteps
    BY <1>2, StreamOpensInv, BackoffElapsesInv, ReadHandshakeInv, ReadMutationResultInv,
       StreamFailsRejectingInv, StreamFailsRetryingInv, LaunchInv DEF ClientSteps
  <1>3. CASE ServerSteps
    BY <1>3, ServerAnswersHandshakeInv, ServerCommitsInv, ServerRefusesInv DEF ServerSteps
  <1>4. CASE IdleTimeout \/ NetworkChanges \/ Crash \/ StreamBreaks \/ LateRequestArrives
    BY <1>4, IdleTimeoutInv, NetworkChangesInv, CrashInv, StreamBreaksInv,
       LateRequestArrivesInv
  <1>5. CASE UNCHANGED vars
    BY <1>5, StutterInv
  <1> QED BY <1>1, <1>2, <1>3, <1>4, <1>5 DEF Next

\* The pipeline, in order, is what is answered and then what is sent.
LEMMA MatchIsConcat ==
  ASSUME NEW answers \in Seq(Message), NEW sent \in Seq(Message), NEW p \in Seq(Batch),
         Match(answers, sent, p)
  PROVE answers \o sent = Docs(p)
  <1> DEFINE q == answers \o sent
             docs == Docs(p)
  <1>1. /\ q \in Seq(Message) /\ Len(q) = Len(answers) + Len(sent)
        /\ \A i \in 1 .. Len(answers) + Len(sent) :
             q[i] = IF i <= Len(answers) THEN answers[i] ELSE sent[i - Len(answers)]
    BY ConcatProperties
  <1>2. /\ docs \in Seq(Message) /\ Len(docs) = Len(p)
        /\ \A i \in 1 .. Len(p) : docs[i] = p[i].doc
    BY DocsFacts
  <1> HIDE DEF q, docs
  <1>3. Len(q) = Len(docs) /\ \A i \in 1 .. Len(q) : q[i] = docs[i]
    BY <1>1, <1>2 DEF Match
  <1>4. q = docs
    BY <1>1, <1>2, <1>3, SeqEqual
  <1> QED BY <1>4 DEF q, docs

\* The invariant holds in every behaviour.
LEMMA Invariance == Spec => []Inv
  <1>1. Init => Inv /\ RunInv
    BY InitInv DEF Init, RunInv
  <1>2. Inv /\ RunInv /\ [Next]_vars => Inv' /\ RunInv'
    BY NextInv, NextRunInv
  <1> QED BY <1>1, <1>2, PTL DEF Spec

\* A result, which carries no name, is always taken for the write it answers:
\* what is answered and what is sent are, in this order, the pipeline, however
\* streams break, processes die and batches are repeated (remote_store.cc,
\* OnWriteStreamMutationResult).
THEOREM ResultsCorrect == Spec => []ResultsMatchPipeline
  <1>1. Inv => ResultsMatchPipeline
    BY MatchIsConcat DEF Inv, PipelineInv, WireInv, ResultsMatchPipeline
  <1> QED BY <1>1, Invariance, PTL

\* setData completes without an error only for a document the server has
\* committed (sync_engine.cc, NotifyUser).
THEOREM WrittenCorrect == Spec => []WrittenIsCommitted
  <1>1. Inv => WrittenIsCommitted
    BY DEF Inv, ToldInv
  <1> QED BY <1>1, Invariance, PTL

\* Every step keeps what the idle timer says.
LEMMA NextIdle == ASSUME Inv, Inv', RunInv, IdleInv, [Next]_vars PROVE IdleInv'
  <1>0. <<>> \in Seq(Batch) /\ DiskInv' /\ pipeline \in Seq(Batch)
    BY EmptySeq DEF Inv, PipelineInv
  <1>1. CASE \E doc \in Document : SetData(doc)
    <2>1. /\ FillWritePipeline(mutations', pipeline, stream, handshake, requests)
          /\ (handshake' <=> handshake)
      BY <1>1 DEF SetData
    <2> QED BY <1>0, <2>1, FillIdle DEF IdleInv
  <1>2. CASE ReadMutationResult
    <2>1. /\ FillWritePipeline(mutations', Tail(pipeline), stream, handshake, requests)
          /\ (handshake' <=> handshake) /\ handshake /\ pipeline # <<>>
      BY <1>2 DEF ReadMutationResult, Settle
    <2>2. Tail(pipeline) \in Seq(Batch) /\ ~idleTimer
      BY <1>0, <2>1, HeadTailProperties DEF IdleInv
    <2> QED BY <1>0, <2>1, <2>2, FillIdle
  <1>3. CASE StreamFailsRejecting
    <2>1. /\ FillWritePipeline(mutations', Tail(pipeline), "initial", FALSE, <<>>)
          /\ ~handshake' /\ pipeline # <<>>
      BY <1>3 DEF StreamFailsRejecting, Settle, StreamGone, BlamesFirst
    <2>2. Tail(pipeline) \in Seq(Batch) /\ ~Started("initial")
      BY <1>0, <2>1, HeadTailProperties DEF Started
    <2> QED BY <1>0, <2>1, <2>2, FillIdle
  <1>4. CASE NetworkChanges \/ Launch
    <2>1. /\ FillWritePipeline(mutations', <<>>, "initial", FALSE, <<>>)
          /\ ~handshake'
      <3>1. CASE NetworkChanges
        BY <3>1 DEF NetworkChanges, StreamGone, disk
      <3>2. CASE Launch
        <4>1. ~handshake
          BY <3>2 DEF Launch, RunInv, Inv, WireInv
        <4>2. handshake' = handshake /\ UNCHANGED mutations
          BY <3>2 DEF Launch
        <4>3. ~handshake'
          BY <4>1, <4>2
        <4> QED BY <3>2, <4>2, <4>3 DEF Launch
      <3> QED BY <1>4, <3>1, <3>2
    <2>2. ~Started("initial")
      BY DEF Started
    <2> QED BY <1>0, <2>1, <2>2, FillIdle
  <1>5. CASE StreamOpens \/ BackoffElapses
    BY <1>5 DEF StreamOpens, BackoffElapses, disk, IdleInv, Started
  <1>6. CASE ReadHandshake
    BY <1>6 DEF ReadHandshake, disk, IdleInv
  <1>7. CASE StreamFailsRetrying \/ IdleTimeout
    <2>1. /\ idleTimer' = FALSE /\ ~handshake'
          /\ UNCHANGED <<mutations, running, pipeline>>
          /\ Started(stream') => pipeline # <<>>
      BY <1>7 DEF StreamFailsRetrying, IdleTimeout, StreamGone, disk, Started
    <2> QED BY <2>1 DEF IdleInv
  <1>8. CASE Crash
    BY <1>8 DEF Crash, StreamGone, disk, IdleInv, Started
  <1>9. CASE ServerSteps \/ StreamBreaks \/ LateRequestArrives \/ UNCHANGED vars
    <2>1. UNCHANGED <<mutations, running, pipeline, stream, handshake, idleTimer>>
      BY <1>9 DEF ServerSteps, ServerAnswersHandshake, ServerCommits, ServerRefuses,
                  StreamBreaks, LateRequestArrives, vars, disk, client
    <2> QED BY <2>1 DEF IdleInv, Started
  <1> QED BY <1>1, <1>2, <1>3, <1>4, <1>5, <1>6, <1>7, <1>8, <1>9 DEF Next, ClientSteps

\* The write stream is stopped for being idle only when no write is left, in the
\* pipeline or on disk (stream.cc, the timer of MarkIdle; remote_store.cc asserts
\* it in OnWriteStreamClose).
THEOREM IdleCorrect == Spec => []IdleMeansEmpty
  <1>1. Init => Inv /\ RunInv /\ IdleInv
    BY InitInv DEF Init, RunInv, IdleInv, Started
  <1>2. Inv /\ RunInv /\ IdleInv /\ [Next]_vars => Inv' /\ RunInv' /\ IdleInv'
    BY NextInv, NextRunInv, NextIdle
  <1>3. Inv /\ RunInv /\ IdleInv => IdleMeansEmpty
    BY DEF RunInv, IdleInv, IdleMeansEmpty
  <1> QED BY <1>1, <1>2, <1>3, PTL DEF Spec

-----------------------------------------------------------------------------
\* Writes that are given up

\* The batch after those answered is one the server refuses.
Refused(answers, p) == Len(answers) < Len(p) /\ p[Len(answers) + 1].doc \in Forbidden

\* Writing more leaves the refused batch where it is.
LEMMA RefusedFill ==
  ASSUME NEW answers \in Seq(Message), NEW p \in Seq(Batch), NEW new \in Seq(Batch),
         Refused(answers, p)
  PROVE Refused(answers, p \o new)
  <1>1. Len(answers) \in Nat /\ Len(p) \in Nat /\ Len(new) \in Nat
    BY LenProperties
  <1>2. /\ Len(p \o new) = Len(p) + Len(new)
        /\ \A i \in 1 .. Len(p) + Len(new) :
             (p \o new)[i] = IF i <= Len(p) THEN p[i] ELSE new[i - Len(p)]
    BY ConcatProperties
  <1> QED BY <1>1, <1>2 DEF Refused

\* Reading a result brings it one place nearer to the front.
LEMMA RefusedTail ==
  ASSUME NEW answers \in Seq(Message), NEW p \in Seq(Batch), answers # <<>>, p # <<>>,
         Refused(answers, p)
  PROVE Refused(Tail(answers), Tail(p))
  <1>1. /\ Len(Tail(p)) = Len(p) - 1 /\ Len(p) \in Nat \ {0}
        /\ \A i \in 1 .. Len(Tail(p)) : Tail(p)[i] = p[i + 1]
    BY HeadTailProperties, EmptySeq
  <1>2. Len(Tail(answers)) = Len(answers) - 1 /\ Len(answers) \in Nat \ {0}
    BY HeadTailProperties, EmptySeq
  <1> QED BY <1>1, <1>2 DEF Refused

\* The request the server looks at is that of the batch after those answered.
LEMMA RefusedMatch ==
  ASSUME NEW answers \in Seq(Message), NEW sent \in Seq(Message), NEW p \in Seq(Batch),
         sent # <<>>, Match(answers, sent, p), Head(sent) \in Forbidden
  PROVE Refused(answers, p)
  <1>1. Len(sent) \in Nat \ {0} /\ Head(sent) = sent[1]
    BY HeadTailProperties, EmptySeq
  <1>2. Len(answers) \in Nat /\ Len(p) \in Nat
    BY LenProperties
  <1>3. /\ Len(answers) + 1 \in 1 .. Len(p) /\ ~(Len(answers) + 1 <= Len(answers))
        /\ (Len(answers) + 1) - Len(answers) = 1
    BY <1>1, <1>2 DEF Match
  <1> QED BY <1>1, <1>2, <1>3 DEF Match, Refused

\* The front of the pipeline is answered or refused.
LEMMA RefusedHead ==
  ASSUME NEW answers \in Seq(Message), NEW p \in Seq(Batch), p # <<>>, NEW docs,
         Answered(answers, p, docs), Refused(answers, p)
  PROVE Head(p).doc \in docs \cup Forbidden
  <1>1. Head(p) = p[1] /\ Len(answers) \in Nat
    BY HeadTailProperties, LenProperties
  <1>2. CASE Len(answers) = 0
    BY <1>1, <1>2 DEF Refused
  <1>3. CASE Len(answers) > 0
    BY <1>1, <1>3 DEF Answered
  <1> QED BY <1>1, <1>2, <1>3

\* An error that ends the stream for good comes from a write, and from which.
VerdictInv == verdict = "permanent" => handshake /\ Refused(responses, pipeline)

\* Every step keeps what the end of the stream says.
LEMMA NextVerdict == ASSUME Inv, RunInv, VerdictInv, [Next]_vars PROVE VerdictInv'
  <1> USE DEF VerdictInv
  <1>0. /\ responses \in Seq(Message) /\ requests \in Seq(Message) /\ pipeline \in Seq(Batch)
        /\ mutations \subseteq Batch /\ IsFiniteSet(mutations)
    BY DEF Inv, WireInv, PipelineInv, DiskInv
  <1>1. ASSUME NEW doc \in Document, SetData(doc) PROVE VerdictInv'
    <2>1. DiskInv' /\ UNCHANGED <<responses, verdict>> /\ (handshake' <=> handshake)
      BY <1>1, SetDataInv DEF SetData, Inv
    <2>2. \E new \in Orders(NextBatches(mutations', pipeline)) : pipeline' = pipeline \o new
      BY <1>1 DEF SetData, FillWritePipeline
    <2>3. PICK new \in Seq(Batch) : pipeline' = pipeline \o new
      BY <2>1, <2>2, NewBatches DEF DiskInv
    <2> QED BY <1>0, <2>1, <2>3, RefusedFill
  <1>2. CASE ReadMutationResult
    <2>1. /\ responses # <<>> /\ pipeline # <<>> /\ responses' = Tail(responses)
          /\ verdict' = verdict /\ handshake /\ (handshake' <=> handshake)
          /\ Settle("written", stream, handshake, requests)
      BY <1>2 DEF ReadMutationResult
    <2>2. DiskInv'
      BY <1>2, ReadMutationResultInv DEF Inv
    <2>3. \E new \in Orders(NextBatches(mutations', Tail(pipeline))) :
            pipeline' = Tail(pipeline) \o new
      BY <2>1 DEF Settle, FillWritePipeline
    <2>4. PICK new \in Seq(Batch) : pipeline' = Tail(pipeline) \o new
      BY <2>2, <2>3, NewBatches DEF DiskInv
    <2>5. Tail(responses) \in Seq(Message) /\ Tail(pipeline) \in Seq(Batch)
      BY <1>0, <2>1, HeadTailProperties
    <2> QED BY <1>0, <2>1, <2>4, <2>5, RefusedTail, RefusedFill
  <1>3. CASE StreamFailsRejecting \/ StreamFailsRetrying \/ IdleTimeout \/ NetworkChanges \/ Crash
    <2>1. verdict' = "none"
      BY <1>3 DEF StreamFailsRejecting, StreamFailsRetrying, IdleTimeout, NetworkChanges,
                  Crash, StreamGone
    <2> QED BY <2>1
  <1>4. CASE Launch
    <2>1. ~handshake /\ verdict' = verdict
      BY <1>4 DEF Launch, RunInv, Inv, WireInv
    <2> QED BY <2>1
  <1>5. CASE ReadHandshake
    <2>1. ~handshake /\ verdict' = verdict
      BY <1>5 DEF ReadHandshake
    <2> QED BY <2>1
  <1>6. CASE StreamOpens \/ BackoffElapses \/ LateRequestArrives \/ UNCHANGED vars
    <2>1. UNCHANGED <<verdict, responses, pipeline>> /\ (handshake' <=> handshake)
      BY <1>6 DEF StreamOpens, BackoffElapses, LateRequestArrives, vars, wire, client
    <2> QED BY <2>1
  <1>7. CASE ServerAnswersHandshake \/ ServerCommits \/ StreamBreaks
    <2>1. verdict' # "permanent"
      BY <1>7 DEF ServerAnswersHandshake, ServerCommits, StreamBreaks
    <2> QED BY <2>1
  <1>8. CASE ServerRefuses
    <2>1. /\ verdict = "none" /\ requests # <<>> /\ Head(requests) \in Forbidden
          /\ UNCHANGED <<responses, pipeline>> /\ (handshake' <=> handshake)
      BY <1>8 DEF ServerRefuses, client
    <2>2. handshake
      <3>1. Head(<<Hello>>) = Hello
        OBVIOUS
      <3>2. ~handshake => requests = <<Hello>>
        BY <2>1 DEF Inv, WireInv
      <3> QED BY <2>1, <3>1, <3>2, WritesAssumption DEF WritesAssumption
    <2>3. Match(responses, requests, pipeline)
      BY <2>1, <2>2 DEF Inv, WireInv
    <2> QED BY <1>0, <2>1, <2>2, <2>3, RefusedMatch
  <1> QED BY <1>1, <1>2, <1>3, <1>4, <1>5, <1>6, <1>7, <1>8 DEF Next, ClientSteps, ServerSteps

\* Every step keeps that failed writes are decided.
LEMMA NextFailed ==
  ASSUME Inv, VerdictInv, FailedIsDecided, [Next]_vars PROVE FailedIsDecided'
  <1> USE DEF FailedIsDecided
  <1>1. ASSUME NEW doc \in Document, SetData(doc) PROVE FailedIsDecided'
    <2>1. told \in [Document -> Known] /\ told' = [told EXCEPT ![doc] = "waiting"] /\ server' = server
      BY <1>1 DEF SetData, Inv, ToldInv
    <2> QED BY <2>1
  <1>2. CASE ReadMutationResult
    <2>1. /\ told' = [d \in Document |->
                        IF \E c \in callbacks : c.id = Head(pipeline).id /\ c.doc = d
                        THEN "written" ELSE told[d]]
          /\ server' = server
      BY <1>2 DEF ReadMutationResult, Settle, NotifyUser
    <2> QED BY <2>1
  <1>3. CASE StreamFailsRejecting
    <2> DEFINE batch == Head(pipeline)
    <2>1. /\ told' = [d \in Document |->
                        IF \E c \in callbacks : c.id = batch.id /\ c.doc = d
                        THEN "failed" ELSE told[d]]
          /\ server' = server /\ pipeline # <<>> /\ handshake /\ verdict = "permanent"
      BY <1>3 DEF StreamFailsRejecting, BlamesFirst, Settle, NotifyUser
    <2>2. batch.doc \in server \cup Forbidden
      BY <2>1, RefusedHead DEF VerdictInv, Inv, WireInv, PipelineInv
    <2>3. batch \in mutations
      BY <2>1, TailKeeps DEF Inv, PipelineInv
    <2>4. \A c \in callbacks : c.id = batch.id => c = batch
      BY <2>3 DEF Inv, DiskInv
    <2>5. ASSUME NEW d \in Document, told'[d] = "failed" PROVE d \in Forbidden \/ d \in server'
      <3> HIDE DEF batch
      <3>1. CASE \E c \in callbacks : c.id = batch.id /\ c.doc = d
        BY <2>1, <2>2, <2>4, <3>1
      <3>2. CASE ~\E c \in callbacks : c.id = batch.id /\ c.doc = d
        BY <2>1, <2>5, <3>2
      <3> QED BY <3>1, <3>2
    <2> QED BY <2>5
  <1>4. CASE \/ StreamOpens \/ BackoffElapses \/ ReadHandshake \/ StreamFailsRetrying
             \/ Launch \/ IdleTimeout \/ NetworkChanges \/ Crash \/ StreamBreaks
             \/ ServerAnswersHandshake \/ ServerRefuses \/ UNCHANGED vars
    <2>1. UNCHANGED <<told, server>>
      BY <1>4 DEF StreamOpens, BackoffElapses, ReadHandshake, StreamFailsRetrying, Launch,
                  IdleTimeout, NetworkChanges, Crash, StreamBreaks, ServerAnswersHandshake,
                  ServerRefuses, vars
    <2> QED BY <2>1
  <1>5. CASE ServerCommits \/ LateRequestArrives
    <2>1. told' = told /\ server \subseteq server'
      BY <1>5 DEF ServerCommits, LateRequestArrives
    <2> QED BY <2>1
  <1> QED BY <1>1, <1>2, <1>3, <1>4, <1>5 DEF Next, ClientSteps, ServerSteps

\* No write is given up that the server has not decided: when setData completes
\* with an error the server has refused the document, or it has the document and
\* the result was lost (remote_store.cc, HandleWriteError).
THEOREM FailedCorrect == Spec => []FailedIsDecided
  <1>1. Init => Inv /\ RunInv /\ VerdictInv /\ FailedIsDecided
    BY InitInv DEF Init, RunInv, VerdictInv, FailedIsDecided
  <1>2. Inv /\ RunInv /\ VerdictInv /\ FailedIsDecided /\ [Next]_vars
        => Inv' /\ RunInv' /\ VerdictInv' /\ FailedIsDecided'
    BY NextInv, NextRunInv, NextVerdict, NextFailed
  <1> QED BY <1>1, <1>2, PTL DEF Spec

-----------------------------------------------------------------------------
\* Batches in order

\* s has the batches of the set S, in the order of their identifiers.
IsOrder(s, S) ==
  /\ s \in Seq(Batch) /\ Ascending(s)
  /\ S = {s[i] : i \in 1 .. Len(s)}

\* No batch is in such a sequence twice, and an identifier is a number.
LEMMA AscendingOnce ==
  ASSUME NEW s \in Seq(Batch), Ascending(s)
  PROVE  /\ Len(s) \in Nat /\ DOMAIN s = 1 .. Len(s)
         /\ \A i \in 1 .. Len(s) : s[i] \in Batch /\ s[i].id \in Nat
         /\ \A i, j \in 1 .. Len(s) : s[i] = s[j] => i = j
  <1>1. /\ Len(s) \in Nat /\ DOMAIN s = 1 .. Len(s)
        /\ \A i \in 1 .. Len(s) : s[i] \in Batch
    BY LenProperties, ElementOfSeq
  <1>2. \A i \in 1 .. Len(s) : s[i].id \in Nat
    BY <1>1 DEF Batch
  <1> QED BY <1>1, <1>2 DEF Ascending

\* An order of a finite set is what LevelDB iterates over.
LEMMA OrderFacts ==
  ASSUME NEW S, S \subseteq Batch, IsFiniteSet(S), NEW s
  PROVE  s \in Orders(S) <=> IsOrder(s, S)
  <1>1. Cardinality(S) \in Nat
    BY FS_CardinalityType
  <1>2. ASSUME s \in Orders(S) PROVE IsOrder(s, S)
    <2>1. s \in [1 .. Cardinality(S) -> S] /\ \A i, j \in DOMAIN s : i < j => s[i].id < s[j].id
      BY <1>2 DEF Orders
    <2>2. s \in Seq(Batch) /\ Len(s) = Cardinality(S) /\ Ascending(s)
      <3>1. s \in Seq(S) /\ Len(s) = Cardinality(S) /\ DOMAIN s = 1 .. Len(s)
        BY <1>1, <2>1
      <3> QED BY <2>1, <3>1, SeqMonotonic DEF Ascending
    <2>3. s \in Injection(1 .. Cardinality(S), S)
      BY <2>1, <2>2, AscendingOnce DEF Injection, IsInjective
    <2>4. Cardinality(1 .. Cardinality(S)) = Cardinality(S)
      BY <1>1, FS_Interval
    <2>5. s \in Surjection(1 .. Cardinality(S), S)
      BY <2>3, <2>4, FS_Injection
    <2> QED BY <2>1, <2>2, <2>5 DEF IsOrder, Surjection
  <1>3. ASSUME IsOrder(s, S) PROVE s \in Orders(S)
    <2>1. /\ s \in Seq(Batch) /\ Len(s) \in Nat /\ DOMAIN s = 1 .. Len(s)
          /\ \A i, j \in 1 .. Len(s) : s[i] = s[j] => i = j
      BY <1>3, AscendingOnce DEF IsOrder
    <2>2. s \in Surjection(1 .. Len(s), S) /\ s \in Injection(1 .. Len(s), S)
      <3>1. s \in [1 .. Len(s) -> S]
        BY <1>3, <2>1, LenProperties DEF IsOrder
      <3> QED BY <1>3, <2>1, <3>1 DEF IsOrder, Surjection, Injection, IsInjective
    <2>3. IsFiniteSet(1 .. Len(s)) /\ Cardinality(1 .. Len(s)) = Len(s)
      BY <2>1, FS_Interval
    <2>4. Cardinality(S) = Len(s)
      BY <2>2, <2>3, FS_Injection, FS_Surjection, FS_CardinalityType
    <2>5. s \in [1 .. Len(s) -> S]
      BY <2>2 DEF Injection
    <2> QED BY <1>3, <2>1, <2>4, <2>5 DEF Orders, IsOrder, Ascending
  <1> QED BY <1>2, <1>3

\* Of two orders that agree up to i, none has the lesser batch there.
LEMMA NotLess ==
  ASSUME NEW S, NEW s, NEW t, IsOrder(s, S), IsOrder(t, S),
         NEW i \in 1 .. Len(s), i \in 1 .. Len(t),
         \A k \in 1 .. Len(s) : k < i => k \in 1 .. Len(t) /\ s[k] = t[k]
  PROVE  ~(s[i].id < t[i].id)
  <1> SUFFICES ASSUME s[i].id < t[i].id PROVE FALSE
    OBVIOUS
  <1>1. PICK k \in 1 .. Len(t) : t[k] = s[i]
    BY DEF IsOrder
  <1>2. /\ \A j \in 1 .. Len(s) : s[j].id \in Nat
        /\ \A j \in 1 .. Len(t) : t[j].id \in Nat
        /\ Len(s) \in Nat /\ Len(t) \in Nat
    BY AscendingOnce DEF IsOrder
  <1>3. CASE k < i
    <2>1. k \in 1 .. Len(s) /\ s[k].id < s[i].id
      BY <1>2, <1>3 DEF IsOrder, Ascending
    <2> QED BY <1>1, <1>2, <1>3, <2>1
  <1>4. CASE k = i
    BY <1>1, <1>2, <1>4
  <1>5. CASE i < k
    <2>1. t[i].id < t[k].id
      BY <1>5 DEF IsOrder, Ascending
    <2> QED BY <1>1, <1>2, <2>1
  <1> QED BY <1>2, <1>3, <1>4, <1>5

\* A set has one order.
LEMMA OneOrder ==
  ASSUME NEW S, S \subseteq Batch, IsFiniteSet(S), Numbered(S),
         NEW s, NEW t, IsOrder(s, S), IsOrder(t, S)
  PROVE  s = t
  <1>1. s \in [1 .. Cardinality(S) -> S] /\ t \in [1 .. Cardinality(S) -> S]
    BY OrderFacts DEF Orders
  <1>2. Cardinality(S) \in Nat
    BY FS_CardinalityType
  <1>3. Len(s) = Cardinality(S) /\ Len(t) = Cardinality(S)
    BY <1>1, <1>2
  <1> DEFINE T == {i \in 1 .. Cardinality(S) : s[i] # t[i]}
  <1>4. ASSUME T # {} PROVE FALSE
    <2>1. T \subseteq Nat
      OBVIOUS
    <2>2. PICK i \in T : \A k \in T : i <= k
      BY <1>4, <2>1, LeastNatural
    <2>3. \A k \in 1 .. Cardinality(S) : k < i => s[k] = t[k]
      BY <2>2
    <2>4. ~(s[i].id < t[i].id) /\ ~(t[i].id < s[i].id)
      BY <1>3, <2>2, <2>3, NotLess
    <2>5. s[i].id \in Nat /\ t[i].id \in Nat /\ s[i] \in S /\ t[i] \in S
      BY <1>1, <2>2 DEF Batch
    <2>6. s[i] = t[i]
      BY <2>4, <2>5 DEF Numbered
    <2> QED BY <2>2, <2>6
  <1>5. \A i \in 1 .. Cardinality(S) : s[i] = t[i]
    BY <1>4
  <1> HIDE DEF T
  <1> QED BY <1>3, <1>5, SeqEqual DEF IsOrder

\* So it is the one InOrder chooses.
LEMMA InOrderIs ==
  ASSUME NEW S, S \subseteq Batch, IsFiniteSet(S), Numbered(S), NEW s, IsOrder(s, S)
  PROVE  InOrder(S) = s
  <1>1. s \in Orders(S)
    BY OrderFacts
  <1>2. InOrder(S) \in Orders(S)
    BY <1>1 DEF InOrder
  <1> QED BY <1>2, OrderFacts, OneOrder

\* A later batch goes to the end.
LEMMA OrderWith ==
  ASSUME NEW S, NEW s, IsOrder(s, S), NEW b \in Batch, \A c \in S : c.id < b.id
  PROVE  IsOrder(Append(s, b), S \cup {b})
  <1>1. s \in Seq(Batch) /\ Len(s) \in Nat /\ \A i \in 1 .. Len(s) : s[i] \in S
    BY LenProperties DEF IsOrder
  <1> DEFINE t == Append(s, b)
  <1>2. /\ t \in Seq(Batch) /\ Len(t) = Len(s) + 1
        /\ \A i \in 1 .. Len(s) : t[i] = s[i]
        /\ t[Len(s) + 1] = b
    BY <1>1, AppendProperties
  <1> HIDE DEF t
  <1>3. Ascending(t)
    <2> SUFFICES ASSUME NEW i \in 1 .. Len(t), NEW j \in 1 .. Len(t), i < j
                 PROVE  t[i].id < t[j].id
      BY DEF Ascending
    <2>1. i \in 1 .. Len(s) /\ (j \in 1 .. Len(s) \/ j = Len(s) + 1)
      BY <1>1, <1>2
    <2>2. CASE j \in 1 .. Len(s)
      BY <1>2, <2>1, <2>2 DEF IsOrder, Ascending
    <2>3. CASE j = Len(s) + 1
      BY <1>1, <1>2, <2>1, <2>3
    <2> QED BY <2>1, <2>2, <2>3
  <1>4. S \cup {b} = {t[i] : i \in 1 .. Len(t)}
    <2>1. 1 .. Len(t) = (1 .. Len(s)) \cup {Len(s) + 1}
      BY <1>1, <1>2
    <2> QED BY <1>2, <2>1 DEF IsOrder
  <1> QED BY <1>2, <1>3, <1>4 DEF IsOrder, t

\* The oldest batch is the first, and the others follow.
LEMMA OrderWithout ==
  ASSUME NEW S, NEW s, IsOrder(s, S), NEW b \in S, \A c \in S : ~(c.id < b.id)
  PROVE  s # <<>> /\ Head(s) = b /\ IsOrder(Tail(s), S \ {b})
  <1>1. /\ s \in Seq(Batch) /\ Len(s) \in Nat
        /\ \A i \in 1 .. Len(s) : s[i] \in S /\ s[i].id \in Nat
        /\ \A i, j \in 1 .. Len(s) : s[i] = s[j] => i = j
    BY AscendingOnce DEF IsOrder
  <1>2. PICK k \in 1 .. Len(s) : s[k] = b
    BY DEF IsOrder
  <1>3. k = 1
    <2>1. CASE 1 < k
      BY <1>1, <1>2, <2>1 DEF IsOrder, Ascending
    <2> QED BY <1>1, <1>2, <2>1
  <1>4. s # <<>> /\ Head(s) = s[1]
    BY <1>1, <1>2
  <1> DEFINE t == Tail(s)
  <1>5. /\ t \in Seq(Batch) /\ Len(t) = Len(s) - 1
        /\ \A i \in 1 .. Len(t) : t[i] = s[i + 1]
    BY <1>1, <1>4, HeadTailProperties
  <1> HIDE DEF t
  <1>6. \A i \in 1 .. Len(t) : i + 1 \in 1 .. Len(s) /\ i + 1 # 1
    BY <1>1, <1>5
  <1>7. Ascending(t)
    <2>1. \A i, j \in 1 .. Len(t) : i < j => i + 1 < j + 1
      BY <1>1, <1>5
    <2>2. \A i, j \in 1 .. Len(s) : i < j => s[i].id < s[j].id
      BY DEF IsOrder, Ascending
    <2> QED BY <1>5, <1>6, <2>1, <2>2 DEF Ascending
  <1>8. S \ {b} = {t[i] : i \in 1 .. Len(t)}
    <2>1. \A i \in 1 .. Len(t) : t[i] \in S \ {b}
      BY <1>1, <1>2, <1>3, <1>5, <1>6
    <2>2. ASSUME NEW c \in S \ {b} PROVE \E i \in 1 .. Len(t) : t[i] = c
      <3>1. PICK j \in 1 .. Len(s) : s[j] = c
        BY DEF IsOrder
      <3>2. j - 1 \in 1 .. Len(t) /\ (j - 1) + 1 = j
        BY <1>1, <1>2, <1>3, <1>5, <3>1
      <3> QED BY <1>5, <3>1, <3>2
    <2> QED BY <2>1, <2>2
  <1> QED BY <1>2, <1>3, <1>4, <1>5, <1>7, <1>8 DEF IsOrder, t

\* The documents of batches in order.
LEMMA DocsOf ==
  ASSUME NEW s \in Seq(Batch)
  PROVE  /\ Docs(s) \in Seq(Document) /\ (Docs(s) = <<>> <=> s = <<>>)
         /\ \A b \in Batch : Docs(Append(s, b)) = Append(Docs(s), b.doc)
         /\ s # <<>> => Head(Docs(s)) = Head(s).doc /\ Docs(Tail(s)) = Tail(Docs(s))
  <1>1. /\ Len(s) \in Nat /\ Docs(s) \in Seq(Document) /\ Len(Docs(s)) = Len(s)
        /\ \A i \in 1 .. Len(s) : Docs(s)[i] = s[i].doc
    BY DocsFacts, LenProperties
  <1>2. Docs(s) = <<>> <=> s = <<>>
    BY <1>1, EmptySeq
  <1>3. ASSUME NEW b \in Batch PROVE Docs(Append(s, b)) = Append(Docs(s), b.doc)
    <2> DEFINE t == Append(s, b)
               u == Append(Docs(s), b.doc)
    <2>1. /\ t \in Seq(Batch) /\ Len(t) = Len(s) + 1 /\ t[Len(s) + 1] = b
          /\ \A i \in 1 .. Len(s) : t[i] = s[i]
      BY <1>1, AppendProperties
    <2>2. b.doc \in Document
      BY DEF Batch
    <2>3. /\ u \in Seq(Document) /\ Len(u) = Len(s) + 1 /\ u[Len(s) + 1] = b.doc
          /\ \A i \in 1 .. Len(s) : u[i] = s[i].doc
      BY <1>1, <2>2, AppendProperties
    <2> HIDE DEF t, u
    <2>4. /\ Docs(t) \in Seq(Document) /\ Len(Docs(t)) = Len(t)
          /\ \A i \in 1 .. Len(t) : Docs(t)[i] = t[i].doc
      BY <2>1, DocsFacts
    <2>5. ASSUME NEW i \in 1 .. Len(s) + 1 PROVE Docs(t)[i] = u[i]
      <3>1. i \in 1 .. Len(s) \/ i = Len(s) + 1
        BY <1>1
      <3>2. Docs(t)[i] = t[i].doc
        BY <2>1, <2>4
      <3> QED BY <2>1, <2>3, <3>1, <3>2
    <2>6. Docs(t) = u
      BY <2>1, <2>3, <2>4, <2>5, SeqEqual
    <2> QED BY <2>6 DEF t, u
  <1>4. ASSUME s # <<>>
        PROVE  Head(Docs(s)) = Head(s).doc /\ Docs(Tail(s)) = Tail(Docs(s))
    <2> DEFINE t == Tail(s)
               u == Tail(Docs(s))
    <2>1. /\ t \in Seq(Batch) /\ Len(t) = Len(s) - 1 /\ Head(s) = s[1]
          /\ \A i \in 1 .. Len(t) : t[i] = s[i + 1]
      BY <1>4, HeadTailProperties
    <2>2. /\ u \in Seq(Document) /\ Len(u) = Len(s) - 1 /\ Head(Docs(s)) = Docs(s)[1]
          /\ \A i \in 1 .. Len(u) : u[i] = Docs(s)[i + 1]
      BY <1>1, <1>2, <1>4, HeadTailProperties
    <2> HIDE DEF t, u
    <2>3. /\ Docs(t) \in Seq(Document) /\ Len(Docs(t)) = Len(t)
          /\ \A i \in 1 .. Len(t) : Docs(t)[i] = t[i].doc
      BY <2>1, DocsFacts
    <2>4. Len(s) \in Nat \ {0} /\ 1 \in 1 .. Len(s)
      BY <1>4, EmptySeq
    <2>5. \A i \in 1 .. Len(t) : i + 1 \in 1 .. Len(s)
      BY <2>1, <2>4
    <2>6. \A i \in 1 .. Len(t) : Docs(t)[i] = u[i]
      BY <1>1, <2>1, <2>2, <2>3, <2>5
    <2>7. Docs(t) = u
      BY <2>1, <2>2, <2>3, <2>6, SeqEqual
    <2> QED BY <1>1, <2>1, <2>2, <2>4, <2>7 DEF t, u
  <1> QED BY <1>1, <1>2, <1>3, <1>4

-----------------------------------------------------------------------------
\* The pipeline holds the oldest batches, and not too many

\* Whatever is on disk and older than a batch of p is in p too, before it.
NothingSkipped(p, m) ==
  \A i \in 1 .. Len(p), c \in m :
    c.id < p[i].id => \E j \in 1 .. Len(p) : j < i /\ p[j] = c

\* FillWritePipeline takes no more than there is room for ...
LEMMA RoomKept ==
  ASSUME NEW m, m \subseteq Batch, IsFiniteSet(m), NEW n \in Nat, \A b \in m : b.id < n,
         NEW p \in Seq(Batch), Len(p) <= MaxPendingWrites
  PROVE  Cardinality(NextBatches(m, p)) <= MaxPendingWrites - Len(p)
  <1> DEFINE later == {b \in m : b.id > LastRetrieved(p)}
             room == MaxPendingWrites - Len(p)
             S == NextBatches(m, p)
  <1>1. S = {b \in later : Cardinality({c \in later : c.id <= b.id}) <= room}
    BY DEF NextBatches
  <1>2. room \in Nat
    BY LenProperties, WritesAssumption
  <1>3. CASE S = {}
    BY <1>2, <1>3, FS_EmptySet
  <1>4. CASE S # {}
    <2>1. S \subseteq Batch /\ \A b \in S : b.id < n
      BY <1>1
    <2>2. PICK b \in S : \A c \in S : c.id <= b.id
      BY <1>4, <2>1, GreatestBatch
    <2> DEFINE low == {c \in later : c.id <= b.id}
    <2>3. S \in SUBSET low /\ low \in SUBSET m
      BY <1>1, <2>2
    <2>4. Cardinality(low) <= room
      BY <1>1, <2>2
    <2> HIDE DEF low, S, later, room
    <2>5. IsFiniteSet(low) /\ Cardinality(S) <= Cardinality(low)
      BY <2>3, FS_Subset
    <2>6. Cardinality(low) \in Nat /\ Cardinality(S) \in Nat
      BY <2>3, <2>5, FS_Subset, FS_CardinalityType
    <2> QED BY <1>2, <2>4, <2>5, <2>6 DEF S, room
  <1> QED BY <1>3, <1>4

\* ... and none before an older one.
LEMMA OlderTaken ==
  ASSUME NEW m, m \subseteq Batch, IsFiniteSet(m), NEW p \in Seq(Batch), Len(p) <= MaxPendingWrites,
         NEW b \in NextBatches(m, p), NEW c \in m, c.id < b.id, c.id > LastRetrieved(p)
  PROVE  c \in NextBatches(m, p)
  <1> DEFINE later == {d \in m : d.id > LastRetrieved(p)}
             room == MaxPendingWrites - Len(p)
             below == {d \in later : d.id <= c.id}
             low == {d \in later : d.id <= b.id}
  <1>1. b \in later /\ Cardinality(low) <= room /\ c \in later
    BY DEF NextBatches
  <1>2. \A d \in m : d.id \in Nat
    BY DEF Batch
  <1>3. below \in SUBSET low /\ low \in SUBSET m
    BY <1>1, <1>2
  <1>4. room \in Nat
    BY LenProperties, WritesAssumption
  <1>5. Cardinality(below) <= room
    <2> HIDE DEF below, low, room
    <2>1. /\ IsFiniteSet(low) /\ IsFiniteSet(below)
          /\ Cardinality(below) <= Cardinality(low)
      BY <1>3, FS_Subset
    <2> QED BY <1>1, <1>4, <2>1, FS_CardinalityType
  <1> QED BY <1>1, <1>5 DEF NextBatches

\* So the pipeline is the oldest part of the queue whenever it has been filled.
LEMMA FillShort ==
  ASSUME NEW m, m \subseteq Batch, IsFiniteSet(m), Numbered(m),
         NEW n \in Nat, \A b \in m : b.id < n,
         NEW p \in Seq(Batch), Held(p, m), Ascending(p), NothingSkipped(p, m),
         Len(p) <= MaxPendingWrites, NEW new \in Orders(NextBatches(m, p))
  PROVE  NothingSkipped(p \o new, m) /\ Len(p \o new) <= MaxPendingWrites
  <1> DEFINE S == NextBatches(m, p)
  <1>1. S \subseteq m /\ IsFiniteSet(S) /\ \A b \in S : b.id > LastRetrieved(p)
    <2>1. S \in SUBSET m /\ \A b \in S : b.id > LastRetrieved(p)
      BY DEF NextBatches
    <2> QED BY <2>1, FS_Subset
  <1>2. IsOrder(new, S)
    BY <1>1, OrderFacts
  <1>3. Len(new) = Cardinality(S) /\ new \in Seq(Batch) /\ Len(new) \in Nat /\ Len(p) \in Nat
    <2>1. Cardinality(S) \in Nat /\ new \in [1 .. Cardinality(S) -> S]
      BY <1>1, FS_CardinalityType DEF Orders
    <2> HIDE DEF S
    <2>2. Len(new) = Cardinality(S)
      BY <2>1
    <2>3. new \in Seq(Batch)
      BY <1>2 DEF IsOrder
    <2> QED BY <2>2, <2>3, LenProperties
  <1> DEFINE q == p \o new
  <1>4. /\ q \in Seq(Batch) /\ Len(q) = Len(p) + Len(new)
        /\ \A i \in 1 .. Len(p) + Len(new) : q[i] = IF i <= Len(p) THEN p[i] ELSE new[i - Len(p)]
    BY <1>3, ConcatProperties
  <1> HIDE DEF q
  <1>5. Len(q) <= MaxPendingWrites
    <2>1. Cardinality(S) <= MaxPendingWrites - Len(p)
      BY RoomKept
    <2>2. MaxPendingWrites \in Nat
      BY WritesAssumption DEF WritesAssumption
    <2> HIDE DEF S
    <2> QED BY <1>3, <1>4, <2>1, <2>2
  <1>6. NothingSkipped(q, m)
    <2> SUFFICES ASSUME NEW i \in 1 .. Len(q), NEW c \in m, c.id < q[i].id
                 PROVE  \E j \in 1 .. Len(q) : j < i /\ q[j] = c
      BY DEF NothingSkipped
    <2>1. \A j \in 1 .. Len(p) : j \in 1 .. Len(q) /\ q[j] = p[j]
      BY <1>3, <1>4
    <2>2. \A j \in 1 .. Len(new) : Len(p) + j \in 1 .. Len(q) /\ q[Len(p) + j] = new[j]
      BY <1>3, <1>4
    <2>3. CASE i <= Len(p)
      <3>1. i \in 1 .. Len(p) /\ c.id < p[i].id
        BY <2>1, <2>3, <1>3
      <3> QED BY <2>1, <3>1 DEF NothingSkipped
    <2>4. CASE ~(i <= Len(p))
      <3>0. i - Len(p) \in 1 .. Len(new) /\ i = Len(p) + (i - Len(p))
        BY <1>3, <1>4, <2>4
      <3>1. PICK k \in 1 .. Len(new) : i = Len(p) + k
        BY <3>0
      <3>2. q[i] = new[k] /\ new[k] \in S
        BY <1>2, <2>2, <3>1 DEF IsOrder
      <3>3. CASE c.id > LastRetrieved(p)
        <4>1. c \in S
          BY <1>1, <3>2, <3>3, OlderTaken
        <4>2. PICK l \in 1 .. Len(new) : new[l] = c
          BY <1>2, <4>1 DEF IsOrder
        <4>3. l < k
          <5>1. new[l].id \in Nat /\ new[k].id \in Nat /\ new[l].id < new[k].id
            BY <1>2, <3>2, <4>2, AscendingOnce DEF IsOrder
          <5>2. ~(k < l) /\ k # l
            BY <1>2, <5>1 DEF IsOrder, Ascending
          <5> QED BY <5>2
        <4>4. Len(p) + l < i
          BY <1>3, <3>1, <4>3
        <4> QED BY <2>2, <4>2, <4>4
      <3>4. CASE ~(c.id > LastRetrieved(p))
        <4>1. c.id \in Nat
          BY DEF Batch
        <4>2. p # <<>>
          BY <3>4, <4>1 DEF LastRetrieved, kBatchIdUnknown
        <4>3. Len(p) \in 1 .. Len(p) /\ LastRetrieved(p) = p[Len(p)].id /\ p[Len(p)].id \in Nat
          BY <4>2, EmptySeq, AscendingOnce DEF LastRetrieved
        <4>4. CASE c.id = p[Len(p)].id
          <5>1. p[Len(p)] = c
            BY <4>3, <4>4 DEF Held, Numbered
          <5> QED BY <1>3, <2>1, <3>1, <4>3, <5>1
        <4>5. CASE c.id < p[Len(p)].id
          <5>1. PICK j \in 1 .. Len(p) : j < Len(p) /\ p[j] = c
            BY <4>3, <4>5 DEF NothingSkipped
          <5> QED BY <1>3, <2>1, <3>1, <5>1
        <4> QED BY <3>4, <4>1, <4>3, <4>4, <4>5
      <3> QED BY <3>3, <3>4
    <2> QED BY <2>3, <2>4
  <1> QED BY <1>5, <1>6 DEF q

\* When the front is taken and leaves the disk, the rest is still the oldest part.
LEMMA TailShort ==
  ASSUME NEW m, m \subseteq Batch, NEW p \in Seq(Batch), p # <<>>, Held(p, m), Ascending(p),
         NothingSkipped(p, m), Len(p) <= MaxPendingWrites
  PROVE  /\ NothingSkipped(Tail(p), Remove(m, Head(p))) /\ Len(Tail(p)) <= MaxPendingWrites
         /\ \A c \in m : ~(c.id < Head(p).id)
  <1>1. /\ Tail(p) \in Seq(Batch) /\ Len(Tail(p)) = Len(p) - 1 /\ Len(p) \in Nat \ {0}
        /\ \A i \in 1 .. Len(Tail(p)) : Tail(p)[i] = p[i + 1]
        /\ Head(p) = p[1]
    BY HeadTailProperties, EmptySeq, LenProperties
  <1> DEFINE t == Tail(p)
  <1>2. /\ Len(t) = Len(p) - 1 /\ \A i \in 1 .. Len(t) : t[i] = p[i + 1]
    BY <1>1
  <1> HIDE DEF t
  <1>3. NothingSkipped(t, Remove(m, p[1]))
    <2> SUFFICES ASSUME NEW i \in 1 .. Len(t), NEW c \in Remove(m, p[1]), c.id < t[i].id
                 PROVE  \E j \in 1 .. Len(t) : j < i /\ t[j] = c
      BY DEF NothingSkipped
    <2>1. i + 1 \in 1 .. Len(p) /\ t[i] = p[i + 1] /\ c \in m /\ c # p[1]
      BY <1>1, <1>2 DEF Remove
    <2>2. PICK j \in 1 .. Len(p) : j < i + 1 /\ p[j] = c
      BY <2>1 DEF NothingSkipped
    <2>3. j # 1
      BY <2>1, <2>2
    <2>4. j - 1 \in 1 .. Len(t) /\ j - 1 < i /\ (j - 1) + 1 = j
      BY <1>1, <1>2, <2>2, <2>3
    <2> QED BY <1>2, <2>2, <2>4
  <1>4. \A c \in m : ~(c.id < p[1].id)
    <2>1. 1 \in 1 .. Len(p)
      BY <1>1
    <2> QED BY <2>1 DEF NothingSkipped
  <1> QED BY <1>1, <1>3, <1>4, WritesAssumption DEF t

\* A document is written once, and only what was written is anywhere.
DocumentInv ==
  /\ \A b, c \in mutations : b.doc = c.doc => b = c
  /\ \A b \in mutations : told[b.doc] # "unwritten"
  /\ server \subseteq Document /\ \A d \in server : told[d] # "unwritten"

\* The pipeline is the oldest part of the queue.
ShortInv == NothingSkipped(pipeline, mutations) /\ Len(pipeline) <= MaxPendingWrites

\* Everything older than the batch b is on the server or among docs.
Due(b, docs) == \A c \in mutations : c.id < b.id => c.doc \in server \cup docs

\* Each of the requests s that the server will look at is decided, or its turn
\* comes when those before it have arrived.
InTurn(s) ==
  \A i \in 1 .. Len(s) :
    (\A j \in 1 .. i : s[j] \notin Forbidden)
    => \/ s[i] \in server
       \/ \E b \in mutations : b.doc = s[i] /\ Due(b, {s[j] : j \in 1 .. i - 1})

\* So are the requests of every stream that was given up.
AdriftInv == \A s \in adrift : s \in Seq(Document) \ {<<>>} /\ InTurn(s)

\* What is known beside Inv of the queue, the pipeline and the network.
QueueInv == DocumentInv /\ ShortInv /\ AdriftInv

\* What a new write changes.
LEMMA Written ==
  ASSUME Inv, QueueInv, NEW doc \in Document, SetData(doc)
  PROVE  LET batch == [id |-> nextBatchId, doc |-> doc]
         IN /\ batch \in Batch /\ mutations' = mutations \cup {batch}
            /\ \A c \in mutations : c.id < batch.id /\ c.doc # doc
            /\ told[doc] = "unwritten" /\ doc \notin server
            /\ \A d \in Document : told'[d] = IF d = doc THEN "waiting" ELSE told[d]
            /\ UNCHANGED <<server, adrift>>
  <1> DEFINE batch == [id |-> nextBatchId, doc |-> doc]
  <1>1. /\ mutations' = {b \in mutations : b.id # nextBatchId} \cup {batch}
        /\ told[doc] = "unwritten" /\ told' = [told EXCEPT ![doc] = "waiting"]
        /\ UNCHANGED <<server, adrift>>
    BY DEF SetData, Put
  <1>2. \A c \in mutations : c \in Batch /\ c.id \in Nat /\ c.id < nextBatchId
    BY DEF Inv, DiskInv, Batch
  <1>3. batch \in Batch /\ nextBatchId \in Nat
    BY DEF Batch, Inv, DiskInv
  <1>4. \A c \in mutations : c.id # nextBatchId
    BY <1>2, <1>3
  <1>5. \A d \in Document : told'[d] = IF d = doc THEN "waiting" ELSE told[d]
    BY <1>1 DEF Inv, ToldInv
  <1> QED BY <1>1, <1>2, <1>3, <1>4, <1>5 DEF QueueInv, DocumentInv

\* What settling a batch changes: it is the oldest on disk, and its document the
\* only one the app hears of.
LEMMA Settled ==
  ASSUME Inv, QueueInv, NEW outcome, NEW s, NEW greeted, NEW sent,
         pipeline # <<>>, Settle(outcome, s, greeted, sent)
  PROVE  LET batch == Head(pipeline)
         IN /\ batch \in mutations /\ mutations' = mutations \ {batch}
            /\ \A c \in mutations : ~(c.id < batch.id)
            /\ \A d \in Document : told'[d] = told[d] \/ (d = batch.doc /\ told'[d] = outcome)
            /\ UNCHANGED <<server, adrift>>
  <1> DEFINE batch == Head(pipeline)
  <1>1. /\ mutations' = Remove(mutations, batch)
        /\ told' = [d \in Document |-> IF \E c \in callbacks : c.id = batch.id /\ c.doc = d
                                       THEN outcome ELSE told[d]]
        /\ UNCHANGED <<server, adrift>>
    BY DEF Settle, NotifyUser
  <1>2. batch \in mutations
    BY TailKeeps DEF Inv, PipelineInv
  <1>3. \A c \in mutations : ~(c.id < batch.id)
    BY TailShort DEF Inv, PipelineInv, DiskInv, QueueInv, ShortInv
  <1>4. \A c \in mutations \cup callbacks : c.id = batch.id => c = batch
    BY <1>2 DEF Inv, DiskInv
  <1> HIDE DEF batch
  <1>5. mutations' = mutations \ {batch}
    BY <1>1, <1>2, <1>4 DEF Remove
  <1>6. \A d \in Document : told'[d] = told[d] \/ (d = batch.doc /\ told'[d] = outcome)
    BY <1>1, <1>4
  <1> QED BY <1>1, <1>2, <1>3, <1>5, <1>6 DEF batch

\* The two steps that settle a batch.
LEMMA SettledBy ==
  ASSUME Inv, QueueInv, VerdictInv, ReadMutationResult \/ StreamFailsRejecting
  PROVE  LET batch == Head(pipeline)
         IN /\ batch \in mutations /\ mutations' = mutations \ {batch}
            /\ batch.doc \in server \cup Forbidden
            /\ \A c \in mutations : ~(c.id < batch.id)
            /\ \A d \in Document :
                 told'[d] = told[d] \/ (d = batch.doc /\ told'[d] \in {"written", "failed"})
            /\ UNCHANGED <<server, adrift>>
            /\ \E s, greeted, sent : FillWritePipeline(mutations', Tail(pipeline), s, greeted, sent)
            /\ pipeline # <<>>
  <1>1. CASE ReadMutationResult
    <2>1. /\ handshake /\ responses # <<>> /\ pipeline # <<>>
          /\ Settle("written", stream, handshake, requests)
      BY <1>1 DEF ReadMutationResult
    <2>2. Head(pipeline).doc \in server
      BY <2>1, AnsweredTail DEF Inv, PipelineInv, WireInv
    <2>3. FillWritePipeline(mutations', Tail(pipeline), stream, handshake, requests)
      BY <2>1 DEF Settle
    <2> QED BY <2>1, <2>2, <2>3, Settled
  <1>2. CASE StreamFailsRejecting
    <2>1. /\ handshake /\ pipeline # <<>> /\ verdict = "permanent"
          /\ Settle("failed", "initial", FALSE, <<>>)
      BY <1>2 DEF StreamFailsRejecting, BlamesFirst
    <2>2. Head(pipeline).doc \in server \cup Forbidden
      BY <2>1, RefusedHead DEF VerdictInv, Inv, WireInv, PipelineInv
    <2>3. FillWritePipeline(mutations', Tail(pipeline), "initial", FALSE, <<>>)
      BY <2>1 DEF Settle
    <2> QED BY <2>1, <2>2, <2>3, Settled
  <1> QED BY <1>1, <1>2

\* A step that writes nothing, settles nothing and commits nothing.
Quiet == UNCHANGED <<mutations, server, told>>

\* Every other step is of that kind.
LEMMA Kinds ==
  ASSUME [Next]_vars
  PROVE  \/ \E doc \in Document : SetData(doc)
         \/ ReadMutationResult \/ StreamFailsRejecting
         \/ ServerCommits \/ LateRequestArrives
         \/ Quiet
  <1>1. CASE \/ StreamOpens \/ BackoffElapses \/ ReadHandshake \/ StreamFailsRetrying
             \/ Launch \/ IdleTimeout \/ NetworkChanges \/ Crash \/ StreamBreaks
             \/ ServerAnswersHandshake \/ ServerRefuses \/ UNCHANGED vars
    BY <1>1 DEF StreamOpens, BackoffElapses, ReadHandshake, StreamFailsRetrying, Launch,
                IdleTimeout, NetworkChanges, Crash, StreamBreaks, ServerAnswersHandshake,
                ServerRefuses, vars, disk, Quiet
  <1> QED BY <1>1 DEF Next, ClientSteps, ServerSteps

\* However the pipeline is filled from the disk, it stays its oldest part.
LEMMA FilledShort ==
  ASSUME Inv, Inv', NEW p \in Seq(Batch), Held(p, mutations'), Ascending(p),
         NothingSkipped(p, mutations'), Len(p) <= MaxPendingWrites,
         NEW s, NEW greeted, NEW sent, FillWritePipeline(mutations', p, s, greeted, sent)
  PROVE  ShortInv'
  <1> DEFINE m == mutations'
  <1>1. /\ m \subseteq Batch /\ IsFiniteSet(m) /\ Numbered(m) /\ nextBatchId' \in Nat
        /\ \A b \in m : b.id < nextBatchId'
    BY DEF Inv, DiskInv, Numbered
  <1>2. PICK new \in Orders(NextBatches(m, p)) : pipeline' = p \o new
    BY DEF FillWritePipeline
  <1>3. Held(p, m) /\ NothingSkipped(p, m)
    OBVIOUS
  <1> HIDE DEF m
  <1>4. NothingSkipped(p \o new, m) /\ Len(p \o new) <= MaxPendingWrites
    BY <1>1, <1>2, <1>3, FillShort
  <1> QED BY <1>2, <1>4 DEF ShortInv, m

\* An empty pipeline skips nothing.
LEMMA EmptyShort ==
  ASSUME NEW m
  PROVE  /\ <<>> \in Seq(Batch) /\ Held(<<>>, m) /\ Ascending(<<>>) /\ NothingSkipped(<<>>, m)
         /\ Len(<<>>) <= MaxPendingWrites
  <1>1. <<>> \in Seq(Batch) /\ Len(<<>>) = 0
    BY EmptySeq
  <1>2. MaxPendingWrites \in Nat
    BY WritesAssumption DEF WritesAssumption
  <1> QED BY <1>1, <1>2 DEF Held, Ascending, NothingSkipped

\* Every step keeps the pipeline short and complete.
LEMMA NextShort ==
  ASSUME Inv, Inv', QueueInv, VerdictInv, [Next]_vars PROVE ShortInv'
  <1>1. CASE \E doc \in Document : SetData(doc)
    <2>1. PICK doc \in Document : SetData(doc)
      BY <1>1
    <2> DEFINE batch == [id |-> nextBatchId, doc |-> doc]
    <2>2. /\ mutations' = mutations \cup {batch} /\ \A c \in mutations : c.id < batch.id
          /\ batch.id \in Nat
      BY <2>1, Written DEF Batch
    <2>3. FillWritePipeline(mutations', pipeline, stream, handshake, requests)
      BY <2>1 DEF SetData
    <2> HIDE DEF batch
    <2>4. pipeline \in Seq(Batch) /\ Ascending(pipeline) /\ Held(pipeline, mutations)
          /\ NothingSkipped(pipeline, mutations) /\ Len(pipeline) <= MaxPendingWrites
      BY DEF Inv, PipelineInv, QueueInv, ShortInv
    <2>5. Held(pipeline, mutations')
      BY <2>2, <2>4 DEF Held
    <2>6. NothingSkipped(pipeline, mutations')
      <3>1. \A i \in 1 .. Len(pipeline) :
              pipeline[i].id \in Nat /\ pipeline[i].id < batch.id
        BY <2>2, <2>4, AscendingOnce DEF Held
      <3>2. \A i \in 1 .. Len(pipeline) : ~(batch.id < pipeline[i].id)
        BY <2>2, <3>1
      <3> QED BY <2>2, <2>4, <3>2 DEF NothingSkipped
    <2> QED BY <2>3, <2>4, <2>5, <2>6, FilledShort
  <1>2. CASE ReadMutationResult \/ StreamFailsRejecting
    <2>1. /\ mutations' = mutations \ {Head(pipeline)} /\ Head(pipeline) \in mutations
          /\ pipeline # <<>>
          /\ \E s, greeted, sent : FillWritePipeline(mutations', Tail(pipeline), s, greeted, sent)
      BY <1>2, SettledBy
    <2>2. Remove(mutations, Head(pipeline)) = mutations'
      <3>1. \A c \in mutations : c.id = Head(pipeline).id => c = Head(pipeline)
        BY <2>1 DEF Inv, DiskInv
      <3> QED BY <2>1, <3>1 DEF Remove
    <2>3. pipeline \in Seq(Batch) /\ Ascending(pipeline) /\ Held(pipeline, mutations)
          /\ NothingSkipped(pipeline, mutations) /\ Len(pipeline) <= MaxPendingWrites
          /\ mutations \subseteq Batch
      BY DEF Inv, PipelineInv, QueueInv, ShortInv, DiskInv
    <2>4. /\ Tail(pipeline) \in Seq(Batch) /\ Ascending(Tail(pipeline))
          /\ Held(Tail(pipeline), mutations')
      <3>1. /\ Tail(pipeline) \in Seq(Batch) /\ Ascending(Tail(pipeline))
            /\ Held(Tail(pipeline), Remove(mutations, Head(pipeline)))
        BY <2>1, <2>3, TailKeeps
      <3> QED BY <2>2, <3>1
    <2>5. NothingSkipped(Tail(pipeline), mutations') /\ Len(Tail(pipeline)) <= MaxPendingWrites
      BY <2>1, <2>2, <2>3, TailShort
    <2> QED BY <2>1, <2>4, <2>5, FilledShort
  <1>3. CASE NetworkChanges \/ Launch
    <2>1. FillWritePipeline(mutations', <<>>, "initial", FALSE, <<>>)
      BY <1>3 DEF NetworkChanges, Launch, disk
    <2> QED BY <2>1, EmptyShort, FilledShort
  <1>4. CASE Crash
    <2>1. pipeline' = <<>>
      BY <1>4 DEF Crash
    <2> QED BY <2>1, EmptyShort DEF ShortInv
  <1>5. CASE \/ StreamOpens \/ BackoffElapses \/ ReadHandshake \/ StreamFailsRetrying
             \/ IdleTimeout \/ StreamBreaks \/ LateRequestArrives \/ ServerAnswersHandshake
             \/ ServerCommits \/ ServerRefuses \/ UNCHANGED vars
    <2>1. UNCHANGED <<mutations, pipeline>>
      BY <1>5 DEF StreamOpens, BackoffElapses, ReadHandshake, StreamFailsRetrying, IdleTimeout,
                  StreamBreaks, LateRequestArrives, ServerAnswersHandshake, ServerCommits,
                  ServerRefuses, vars, disk, client
    <2> QED BY <2>1 DEF QueueInv, ShortInv, NothingSkipped
  <1> QED BY <1>1, <1>2, <1>3, <1>4, <1>5 DEF Next, ClientSteps, ServerSteps

\* The request the server looks at is for a batch on disk whose turn has come.
LEMMA RequestDue ==
  ASSUME Inv, QueueInv, handshake, verdict = "none", NEW i \in 1 .. Len(requests)
  PROVE  \E b \in mutations :
           b.doc = requests[i] /\ Due(b, {requests[j] : j \in 1 .. i - 1})
  <1> DEFINE k == Len(responses) + i
             p == pipeline
  <1>1. /\ Len(responses) \in Nat /\ Len(requests) \in Nat /\ Len(p) \in Nat
        /\ Match(responses, requests, p) /\ Answered(responses, p, server)
        /\ Held(p, mutations) /\ NothingSkipped(p, mutations)
    BY LenProperties DEF Inv, WireInv, PipelineInv, QueueInv, ShortInv
  <1> HIDE DEF p
  <1>2. k \in 1 .. Len(p) /\ ~(k <= Len(responses)) /\ k - Len(responses) = i
    BY <1>1 DEF Match
  <1>3. p[k] \in mutations /\ p[k].doc = requests[i]
    BY <1>1, <1>2 DEF Match, Held
  <1>4. ASSUME NEW c \in mutations, c.id < p[k].id
        PROVE  c.doc \in server \cup {requests[j] : j \in 1 .. i - 1}
    <2>1. PICK l \in 1 .. Len(p) : l < k /\ p[l] = c
      BY <1>1, <1>2, <1>4 DEF NothingSkipped
    <2>2. CASE l <= Len(responses)
      <3>1. l \in 1 .. Len(responses)
        BY <1>1, <2>1, <2>2
      <3> QED BY <1>1, <2>1, <3>1 DEF Answered
    <2>3. CASE ~(l <= Len(responses))
      <3>1. l - Len(responses) \in 1 .. i - 1
        BY <1>1, <1>2, <2>1, <2>3
      <3>2. c.doc = requests[l - Len(responses)]
        BY <1>1, <2>1, <2>3 DEF Match
      <3> QED BY <3>1, <3>2
    <2> QED BY <2>2, <2>3
  <1> QED BY <1>3, <1>4 DEF Due

\* Nothing that was in turn loses it while the disk loses only what is decided and
\* gains only what is younger than the rest.
LEMMA TurnStays ==
  ASSUME NEW s, InTurn(s), server \subseteq server',
         \A b \in mutations : b.doc \in server' \cup Forbidden \/ b \in mutations',
         \A c \in mutations' : c \in mutations \/ \A b \in mutations : ~(c.id < b.id)
  PROVE  InTurn(s)'
  <1> SUFFICES ASSUME NEW i \in 1 .. Len(s), i \in 1 .. i,
                      \A j \in 1 .. i : s[j] \notin Forbidden, s[i] \notin server'
               PROVE  \E b \in mutations' :
                        b.doc = s[i] /\ Due(b, {s[j] : j \in 1 .. i - 1})'
    <2>1. \A i \in 1 .. Len(s) : i \in 1 .. i
      OBVIOUS
    <2> QED BY <2>1 DEF InTurn
  <1> DEFINE docs == {s[j] : j \in 1 .. i - 1}
  <1>1. PICK b \in mutations : b.doc = s[i] /\ Due(b, docs)
    BY DEF InTurn
  <1>2. s[i] \notin Forbidden
    OBVIOUS
  <1>3. b \in mutations'
    BY <1>1, <1>2
  <1> HIDE DEF docs
  <1>4. Due(b, docs)'
    <2> SUFFICES ASSUME NEW c \in mutations', c.id < b.id PROVE c.doc \in server' \cup docs'
      BY DEF Due
    <2>1. docs' = docs
      BY DEF docs
    <2> QED BY <1>1, <2>1 DEF Due
  <1> QED BY <1>1, <1>3, <1>4 DEF docs

\* On a stream the client gives up the requests are those of the pipeline.
LEMMA GivenUp ==
  ASSUME Inv, QueueInv, GivesUpStream, UNCHANGED <<mutations, server>> PROVE AdriftInv'
  <1>1. \A s \in adrift : s \in Seq(Document) \ {<<>>} /\ InTurn(s)'
    BY TurnStays DEF QueueInv, AdriftInv
  <1>2. ASSUME verdict = "none", requests # <<>>, \A i \in DOMAIN requests : requests[i] # Hello
        PROVE  requests \in Seq(Document) /\ InTurn(requests)
    <2>1. requests \in Seq(Message) /\ Len(requests) \in Nat /\ DOMAIN requests = 1 .. Len(requests)
      BY LenProperties DEF Inv, WireInv
    <2>2. \A i \in 1 .. Len(requests) : requests[i] \in Document
      <3>1. \A i \in 1 .. Len(requests) : requests[i] \in Message
        BY <2>1, ElementOfSeq
      <3> QED BY <1>2, <2>1, <3>1 DEF Message
    <2>3. requests \in Seq(Document)
      <3>1. requests = [i \in 1 .. Len(requests) |-> requests[i]]
        BY <2>1
      <3> DEFINE q == [i \in 1 .. Len(requests) |-> requests[i]]
      <3>2. q \in Seq(Document)
        BY <2>1, <2>2, IsASeq
      <3> HIDE DEF q
      <3> QED BY <3>1, <3>2 DEF q
    <2>4. handshake
      <3>1. requests = <<Hello>> => ~(\A i \in DOMAIN requests : requests[i] # Hello)
        OBVIOUS
      <3> QED BY <1>2, <3>1 DEF Inv, WireInv
    <2>5. \A i \in 1 .. Len(requests) :
            \E b \in mutations :
              b.doc = requests[i] /\ Due(b, {requests[j] : j \in 1 .. i - 1})
      BY <1>2, <2>4, RequestDue
    <2> QED BY <2>3, <2>5 DEF InTurn
  <1>3. ASSUME NEW s, s \in adrift', s \notin adrift
        PROVE  s \in Seq(Document) \ {<<>>} /\ InTurn(s)'
    <2>1. /\ s = requests /\ s # <<>> /\ verdict = "none"
          /\ \A i \in DOMAIN requests : requests[i] # Hello
      BY <1>3 DEF GivesUpStream
    <2>2. s \in Seq(Document) /\ InTurn(s)
      BY <1>2, <2>1
    <2> QED BY <2>1, <2>2, TurnStays
  <1> QED BY <1>1, <1>3 DEF AdriftInv

\* The first request of a stream given up, if the server accepts it, is for a
\* document it has, or for a batch whose turn has come.
LEMMA AdriftDue ==
  ASSUME QueueInv, NEW s \in adrift, Head(s) \notin Forbidden
  PROVE  /\ Head(s) \in Document
         /\ Head(s) \in server \/ \E b \in mutations : b.doc = Head(s) /\ Due(b, {})
  <1>1. s \in Seq(Document) /\ s # <<>> /\ InTurn(s)
    BY DEF QueueInv, AdriftInv
  <1>2. Head(s) = s[1] /\ Head(s) \in Document /\ Len(s) \in Nat \ {0}
    BY <1>1, HeadTailProperties, EmptySeq
  <1>3. \A j \in 1 .. 1 : s[j] \notin Forbidden
    BY <1>2
  <1>4. {s[j] : j \in 1 .. 1 - 1} = {} /\ 1 \in 1 .. Len(s)
    BY <1>2
  <1> QED BY <1>1, <1>2, <1>3, <1>4 DEF InTurn

\* When it has arrived the others of that stream are one place nearer.
LEMMA NextInTurn ==
  ASSUME NEW s \in Seq(Document), s # <<>>, InTurn(s), Head(s) \notin Forbidden,
         mutations' = mutations, server' = server \cup {Head(s)}
  PROVE  InTurn(Tail(s))'
  <1> DEFINE t == Tail(s)
  <1>1. /\ t \in Seq(Document) /\ Len(t) = Len(s) - 1 /\ Len(s) \in Nat \ {0} /\ Head(s) = s[1]
        /\ \A i \in 1 .. Len(t) : t[i] = s[i + 1]
    BY HeadTailProperties, EmptySeq
  <1> HIDE DEF t
  <1>2. ASSUME NEW i \in 1 .. Len(t), \A j \in 1 .. i : t[j] \notin Forbidden
        PROVE  \/ t[i] \in server'
               \/ \E b \in mutations' : b.doc = t[i] /\ Due(b, {t[j] : j \in 1 .. i - 1})'
    <2>1. i + 1 \in 1 .. Len(s) /\ t[i] = s[i + 1]
      BY <1>1
    <2>2. \A j \in 1 .. i + 1 : s[j] \notin Forbidden
      <3> SUFFICES ASSUME NEW j \in 1 .. i + 1, j # 1 PROVE s[j] \notin Forbidden
        BY <1>1
      <3>1. j - 1 \in 1 .. i /\ j - 1 \in 1 .. Len(t) /\ (j - 1) + 1 = j
        BY <1>1
      <3> QED BY <1>1, <1>2, <3>1
    <2> DEFINE earlier == {t[j] : j \in 1 .. i - 1}
    <2>3. {s[j] : j \in 1 .. (i + 1) - 1} \subseteq {s[1]} \cup earlier
      <3> SUFFICES ASSUME NEW j \in 1 .. (i + 1) - 1, j # 1 PROVE s[j] \in earlier
        OBVIOUS
      <3>1. j - 1 \in 1 .. i - 1 /\ j - 1 \in 1 .. Len(t) /\ (j - 1) + 1 = j
        BY <1>1
      <3> QED BY <1>1, <3>1
    <2>4. CASE s[i + 1] \in server
      BY <2>1, <2>4
    <2>5. CASE s[i + 1] \notin server
      <3>1. PICK b \in mutations :
              b.doc = s[i + 1] /\ Due(b, {s[j] : j \in 1 .. (i + 1) - 1})
        BY <2>1, <2>2, <2>5 DEF InTurn
      <3> HIDE DEF earlier
      <3>2. \A c \in mutations : c.id < b.id => c.doc \in server' \cup earlier
        BY <1>1, <2>3, <3>1 DEF Due
      <3>3. earlier' = earlier
        BY DEF earlier, t
      <3>4. Due(b, earlier)' /\ b \in mutations'
        BY <3>2, <3>3 DEF Due
      <3> QED BY <2>1, <3>1, <3>4 DEF earlier
    <2> QED BY <2>4, <2>5
  <1>3. t' = t
    BY DEF t
  <1> QED BY <1>2, <1>3 DEF InTurn, t

\* A late request leaves the other streams' requests as they are.
LEMMA LateAdrift ==
  ASSUME QueueInv, LateRequestArrives PROVE AdriftInv'
  <1>1. PICK s \in adrift :
          \/ Head(s) \in Forbidden /\ adrift' = adrift \ {s} /\ UNCHANGED server
          \/ /\ Head(s) \notin Forbidden
             /\ adrift' = (adrift \ {s}) \cup ({Tail(s)} \ {<<>>})
             /\ server' = server \cup {Head(s)}
    BY DEF LateRequestArrives
  <1>2. /\ mutations' = mutations /\ server \subseteq server'
        /\ \A u \in adrift : u \in Seq(Document) /\ u # <<>> /\ InTurn(u)
    BY <1>1 DEF QueueInv, AdriftInv, LateRequestArrives, disk
  <1>3. \A u \in adrift : InTurn(u)'
    BY <1>2, TurnStays
  <1>4. ASSUME NEW u \in adrift', u \notin adrift
        PROVE  u \in Seq(Document) /\ u # <<>> /\ InTurn(u)'
    <2>1. /\ u = Tail(s) /\ u # <<>> /\ Head(s) \notin Forbidden
          /\ server' = server \cup {Head(s)}
      BY <1>1, <1>4
    <2>2. Tail(s) \in Seq(Document)
      BY <1>2, HeadTailProperties
    <2>3. InTurn(Tail(s))'
      BY <1>2, <2>1, NextInTurn
    <2> QED BY <2>1, <2>2, <2>3
  <1> QED BY <1>2, <1>3, <1>4 DEF AdriftInv

\* Every step keeps what is said of the requests still under way.
LEMMA NextAdrift ==
  ASSUME Inv, QueueInv, VerdictInv, [Next]_vars PROVE AdriftInv'
  <1>0. \A s \in adrift : s \in Seq(Document) \ {<<>>} /\ InTurn(s)
    BY DEF QueueInv, AdriftInv
  <1>1. CASE \E doc \in Document : SetData(doc)
    <2>1. PICK doc \in Document : SetData(doc)
      BY <1>1
    <2> DEFINE batch == [id |-> nextBatchId, doc |-> doc]
    <2>2. /\ mutations' = mutations \cup {batch} /\ \A c \in mutations : c.id < batch.id
          /\ batch.id \in Nat /\ UNCHANGED <<server, adrift>>
      BY <2>1, Written DEF Batch
    <2> HIDE DEF batch
    <2>3. \A b \in mutations : b.id \in Nat
      BY DEF Inv, DiskInv, Batch
    <2>4. \A b \in mutations : ~(batch.id < b.id)
      BY <2>2, <2>3
    <2>5. \A c \in mutations' : c \in mutations \/ \A b \in mutations : ~(c.id < b.id)
      BY <2>2, <2>4
    <2>6. \A s \in adrift : InTurn(s)'
      BY <1>0, <2>2, <2>5, TurnStays
    <2> QED BY <1>0, <2>2, <2>6 DEF AdriftInv
  <1>2. CASE ReadMutationResult \/ StreamFailsRejecting
    <2>1. /\ mutations' = mutations \ {Head(pipeline)}
          /\ Head(pipeline).doc \in server \cup Forbidden
          /\ UNCHANGED <<server, adrift>>
      BY <1>2, SettledBy
    <2>2. \A s \in adrift : InTurn(s)'
      BY <1>0, <2>1, TurnStays
    <2> QED BY <1>0, <2>1, <2>2 DEF AdriftInv
  <1>3. CASE LateRequestArrives
    BY <1>3, LateAdrift
  <1>4. CASE NetworkChanges \/ Crash \/ StreamBreaks
    <2>1. GivesUpStream /\ UNCHANGED <<mutations, server>>
      BY <1>4 DEF NetworkChanges, Crash, StreamBreaks, disk
    <2> QED BY <2>1, GivenUp
  <1>5. CASE \/ StreamOpens \/ BackoffElapses \/ ReadHandshake \/ StreamFailsRetrying \/ Launch
             \/ IdleTimeout \/ ServerAnswersHandshake \/ ServerCommits \/ ServerRefuses
             \/ UNCHANGED vars
    <2>1. UNCHANGED <<mutations, adrift>> /\ server \subseteq server'
      BY <1>5 DEF StreamOpens, BackoffElapses, ReadHandshake, StreamFailsRetrying, Launch,
                  IdleTimeout, ServerAnswersHandshake, ServerCommits, ServerRefuses, vars, disk,
                  wire
    <2>2. \A s \in adrift : InTurn(s)'
      BY <1>0, <2>1, TurnStays
    <2> QED BY <1>0, <2>1, <2>2 DEF AdriftInv
  <1> QED BY <1>1, <1>2, <1>3, <1>4, <1>5 DEF Next, ClientSteps, ServerSteps

-----------------------------------------------------------------------------
\* The queue as the services see it

\* The batches on disk the server has not committed.
Open == {b \in mutations : b.doc \notin server}

\* One of them, and the oldest.
Oldest(b) == b \in Open /\ \A c \in Open : ~(c.id < b.id)

\* A commit takes the oldest open batch, or repeats what the server has.
LEMMA CommitsOldest ==
  ASSUME Inv, QueueInv, ServerCommits \/ LateRequestArrives
  PROVE  /\ UNCHANGED <<mutations, told>>
         /\ \/ server' = server
            \/ \E b : Oldest(b) /\ server' = server \cup {b.doc}
  <1>1. UNCHANGED <<mutations, told>>
    BY DEF ServerCommits, LateRequestArrives, disk
  <1>2. ASSUME NEW r, r \notin server, server' = server \cup {r},
               \E b \in mutations : b.doc = r /\ Due(b, {})
        PROVE  \E b : Oldest(b) /\ server' = server \cup {b.doc}
    <2>1. PICK b \in mutations : b.doc = r /\ Due(b, {})
      BY <1>2
    <2>2. Oldest(b)
      BY <1>2, <2>1 DEF Oldest, Open, Due
    <2> QED BY <1>2, <2>1, <2>2
  <1>3. CASE ServerCommits
    <2>1. /\ verdict = "none" /\ requests # <<>> /\ Head(requests) \in Document
          /\ server' = server \cup {Head(requests)}
      BY <1>3 DEF ServerCommits
    <2>2. handshake
      <3>1. Head(<<Hello>>) = Hello
        OBVIOUS
      <3>2. ~handshake => requests = <<Hello>>
        BY <2>1 DEF Inv, WireInv
      <3> QED BY <2>1, <3>1, <3>2, WritesAssumption DEF WritesAssumption
    <2>3. Len(requests) \in Nat \ {0} /\ Head(requests) = requests[1]
      BY <2>1, HeadTailProperties, EmptySeq DEF Inv, WireInv
    <2>4. {requests[j] : j \in 1 .. 1 - 1} = {} /\ 1 \in 1 .. Len(requests)
      BY <2>3
    <2>5. \E b \in mutations : b.doc = Head(requests) /\ Due(b, {})
      BY <2>1, <2>2, <2>3, <2>4, RequestDue
    <2> QED BY <1>1, <1>2, <2>1, <2>5
  <1>4. CASE LateRequestArrives
    <2>1. PICK s \in adrift :
            \/ server' = server
            \/ Head(s) \notin Forbidden /\ server' = server \cup {Head(s)}
      BY <1>4 DEF LateRequestArrives
    <2>2. CASE server' = server
      BY <1>1, <2>2
    <2>3. CASE Head(s) \notin Forbidden /\ server' = server \cup {Head(s)}
      <3>1. Head(s) \in server \/ \E b \in mutations : b.doc = Head(s) /\ Due(b, {})
        BY <2>3, AdriftDue
      <3> QED BY <1>1, <1>2, <2>3, <3>1
    <2> QED BY <2>1, <2>2, <2>3
  <1> QED BY <1>3, <1>4

\* Every step keeps what is said of the documents.
LEMMA NextDocument ==
  ASSUME Inv, QueueInv, VerdictInv, [Next]_vars PROVE DocumentInv'
  <1>0. mutations \subseteq Batch /\ \A b \in Batch : b.doc \in Document
    BY DEF Inv, DiskInv, Batch
  <1>1. CASE \E doc \in Document : SetData(doc)
    <2>1. PICK doc \in Document : SetData(doc)
      BY <1>1
    <2> DEFINE batch == [id |-> nextBatchId, doc |-> doc]
    <2>2. /\ mutations' = mutations \cup {batch} /\ batch.doc = doc
          /\ \A c \in mutations : c.doc # doc
          /\ \A d \in Document : told'[d] = IF d = doc THEN "waiting" ELSE told[d]
          /\ server' = server /\ doc \notin server
      BY <2>1, Written
    <2> HIDE DEF batch
    <2> QED BY <1>0, <2>2 DEF QueueInv, DocumentInv
  <1>2. CASE ReadMutationResult \/ StreamFailsRejecting
    <2>1. /\ mutations' \subseteq mutations /\ server' = server
          /\ \A d \in Document : told'[d] = told[d] \/ told'[d] \in {"written", "failed"}
      BY <1>2, SettledBy
    <2> QED BY <1>0, <2>1 DEF QueueInv, DocumentInv
  <1>3. CASE ServerCommits \/ LateRequestArrives
    <2>1. UNCHANGED <<mutations, told>> /\
             (server' = server \/ \E b : Oldest(b) /\ server' = server \cup {b.doc})
      BY <1>3, CommitsOldest
    <2> QED BY <1>0, <2>1 DEF QueueInv, DocumentInv, Oldest, Open
  <1>4. CASE Quiet
    BY <1>4 DEF Quiet, QueueInv, DocumentInv
  <1> QED BY <1>1, <1>2, <1>3, <1>4, Kinds

\* At the first launch there is nothing of all this.
LEMMA InitQueue == Init => QueueInv
  <1> SUFFICES ASSUME Init PROVE QueueInv
    OBVIOUS
  <1>1. DocumentInv
    BY DEF Init, DocumentInv
  <1>2. ShortInv
    BY EmptyShort DEF Init, ShortInv
  <1>3. AdriftInv
    BY DEF Init, AdriftInv
  <1> QED BY <1>1, <1>2, <1>3 DEF QueueInv

\* What a step does to the open batches and to what is decided.
QueueGrows ==
  \E doc \in Document :
    LET batch == [id |-> nextBatchId, doc |-> doc]
    IN /\ batch \in Batch /\ Open' = Open \cup {batch}
       /\ \A c \in Open : c.id < batch.id
       /\ UNCHANGED <<server, Rejected>>
QueueCommits ==
  \E b : Oldest(b) /\ Open' = Open \ {b} /\ server' = server \cup {b.doc} /\ Rejected' = Rejected
QueueRejects ==
  \E b : Oldest(b) /\ Open' = Open \ {b} /\ server' = server /\ Rejected' = Rejected \cup {b.doc}
QueueStays == UNCHANGED <<Open, server, Rejected>>

\* One of these is what every step does.
LEMMA OpenStep ==
  ASSUME Inv, QueueInv, VerdictInv, [Next]_vars
  PROVE  QueueGrows \/ QueueCommits \/ QueueRejects \/ QueueStays
  <1>0. mutations \subseteq Batch /\ \A b \in Batch : b.doc \in Document
    BY DEF Inv, DiskInv, Batch
  <1>1. CASE \E doc \in Document : SetData(doc)
    <2>1. PICK doc \in Document : SetData(doc)
      BY <1>1
    <2> DEFINE batch == [id |-> nextBatchId, doc |-> doc]
    <2>2. /\ batch \in Batch /\ mutations' = mutations \cup {batch} /\ batch.doc = doc
          /\ \A c \in mutations : c.id < batch.id /\ c.doc # doc
          /\ told[doc] = "unwritten" /\ doc \notin server
          /\ \A d \in Document : told'[d] = IF d = doc THEN "waiting" ELSE told[d]
          /\ server' = server
      BY <2>1, Written
    <2> HIDE DEF batch
    <2>3. Open' = Open \cup {batch} /\ \A c \in Open : c.id < batch.id
      BY <2>2 DEF Open
    <2>4. Rejected' = Rejected
      BY <2>2 DEF Rejected
    <2>5. QueueGrows
      BY <2>2, <2>3, <2>4 DEF QueueGrows, batch
    <2> QED BY <2>5
  <1>2. CASE ReadMutationResult \/ StreamFailsRejecting
    <2> DEFINE batch == Head(pipeline)
    <2>1. /\ batch \in mutations /\ mutations' = mutations \ {batch}
          /\ \A c \in mutations : ~(c.id < batch.id)
          /\ \A d \in Document :
               told'[d] = told[d] \/ (d = batch.doc /\ told'[d] \in {"written", "failed"})
          /\ server' = server
      BY <1>2, SettledBy
    <2>2. /\ \A b, c \in mutations : b.doc = c.doc => b = c
          /\ \A b \in mutations : told[b.doc] # "unwritten"
      BY DEF QueueInv, DocumentInv
    <2> HIDE DEF batch
    <2>3. \A d \in Document : told'[d] # "unwritten" <=> told[d] # "unwritten"
      BY <1>0, <2>1, <2>2
    <2>4. CASE batch.doc \in server
      <3>1. Open' = Open
        BY <2>1, <2>4 DEF Open
      <3>2. Rejected' = Rejected
        BY <2>1, <2>2, <2>3, <2>4 DEF Rejected
      <3> QED BY <2>1, <3>1, <3>2 DEF QueueStays
    <2>5. CASE batch.doc \notin server
      <3>1. Open' = Open \ {batch} /\ Oldest(batch)
        BY <2>1, <2>5 DEF Open, Oldest
      <3>2. Rejected' = Rejected \cup {batch.doc}
        BY <1>0, <2>1, <2>2, <2>3, <2>5 DEF Rejected
      <3> QED BY <2>1, <3>1, <3>2 DEF QueueRejects
    <2> QED BY <2>4, <2>5
  <1>3. CASE ServerCommits \/ LateRequestArrives
    <2>1. UNCHANGED <<mutations, told>> /\
             (server' = server \/ \E b : Oldest(b) /\ server' = server \cup {b.doc})
      BY <1>3, CommitsOldest
    <2>2. CASE server' = server
      BY <2>1, <2>2 DEF QueueStays, Open, Rejected
    <2>3. CASE \E b : Oldest(b) /\ server' = server \cup {b.doc}
      <3>1. PICK b : Oldest(b) /\ server' = server \cup {b.doc}
        BY <2>3
      <3>2. Open' = Open \ {b}
        BY <2>1, <3>1 DEF Open, Oldest, QueueInv, DocumentInv
      <3>3. Rejected' = Rejected
        BY <2>1, <3>1 DEF Rejected, Oldest, Open
      <3> QED BY <3>1, <3>2, <3>3 DEF QueueCommits
    <2> QED BY <2>1, <2>2, <2>3
  <1>4. CASE Quiet
    BY <1>4 DEF Quiet, QueueStays, Open, Rejected
  <1> QED BY <1>1, <1>2, <1>3, <1>4, Kinds

\* The open batches can be put in order: the queue is always some sequence.
Ordered == \E s : IsOrder(s, Open)

\* What the open batches are to InOrder.
LEMMA OpenFacts ==
  ASSUME Inv
  PROVE  Open \subseteq Batch /\ IsFiniteSet(Open) /\ Numbered(Open)
  <1>1. Open \subseteq mutations
    BY DEF Open
  <1> QED BY <1>1, FS_Subset DEF Inv, DiskInv, Numbered

\* How the queue changes with the open batches.
LEMMA UndecidedIs ==
  ASSUME Inv, NEW s, IsOrder(s, Open)
  PROVE  Undecided = Docs(s)
  <1>1. InOrder(Open) = s
    BY OpenFacts, InOrderIs
  <1> QED BY <1>1 DEF Undecided, Open

\* The same in the next state.
LEMMA UndecidedIsNext ==
  ASSUME Inv', NEW s, IsOrder(s, Open')
  PROVE  Undecided' = Docs(s)
  <1> DEFINE S == Open'
  <1>1. S \subseteq mutations'
    BY DEF Open
  <1>2. S \subseteq Batch /\ IsFiniteSet(S) /\ Numbered(S)
    BY <1>1, FS_Subset DEF Inv, DiskInv, Numbered
  <1>3. IsOrder(s, S)
    OBVIOUS
  <1> HIDE DEF S
  <1>4. InOrder(S) = s
    BY <1>2, <1>3, InOrderIs
  <1> QED BY <1>4 DEF Undecided, Open, S

\* Every step of the client, the server and the network is a step of the queue of
\* Backend, or none.
LEMMA NextBackend ==
  ASSUME Inv, Inv', QueueInv, VerdictInv, Ordered, [Next]_vars
  PROVE  Ordered' /\ [BackendStep]_<<Undecided, server, Rejected>>
  <1>1. PICK s : IsOrder(s, Open)
    BY DEF Ordered
  <1>2. Undecided = Docs(s) /\ s \in Seq(Batch)
    BY <1>1, UndecidedIs DEF IsOrder
  <1> DEFINE q == Docs(s)
  <1>3. CASE QueueGrows
    <2>1. PICK doc \in Document :
            LET batch == [id |-> nextBatchId, doc |-> doc]
            IN /\ batch \in Batch /\ Open' = Open \cup {batch}
               /\ \A c \in Open : c.id < batch.id
               /\ UNCHANGED <<server, Rejected>>
      BY <1>3 DEF QueueGrows
    <2> DEFINE batch == [id |-> nextBatchId, doc |-> doc]
    <2>2. /\ batch \in Batch /\ batch.doc = doc /\ Open' = Open \cup {batch}
          /\ \A c \in Open : c.id < batch.id
      BY <2>1
    <2> HIDE DEF batch
    <2>3. IsOrder(Append(s, batch), Open')
      BY <1>1, <2>2, OrderWith
    <2>4. Undecided' = Append(q, doc)
      BY <1>2, <2>2, <2>3, UndecidedIsNext, DocsOf
    <2>5. B!SetData("this", doc)
      BY <1>2, <2>4 DEF B!SetData, Device
    <2> QED BY <2>1, <2>3, <2>5 DEF Ordered, BackendStep
  <1>4. CASE QueueCommits \/ QueueRejects
    <2>1. PICK b : /\ Oldest(b) /\ Open' = Open \ {b}
                   /\ \/ server' = server \cup {b.doc} /\ Rejected' = Rejected
                      \/ server' = server /\ Rejected' = Rejected \cup {b.doc}
      BY <1>4 DEF QueueCommits, QueueRejects
    <2>2. s # <<>> /\ Head(s) = b /\ IsOrder(Tail(s), Open')
      BY <1>1, <2>1, OrderWithout DEF Oldest
    <2>3. q # <<>> /\ Head(q) = b.doc /\ Undecided' = Tail(q)
      BY <1>2, <2>2, UndecidedIsNext, DocsOf
    <2> HIDE DEF q
    <2>4. CASE server' = server \cup {b.doc} /\ Rejected' = Rejected
      <3>1. B!ServerCommits("this")
        BY <1>2, <2>3, <2>4 DEF B!ServerCommits, Device, q
      <3> QED BY <2>2, <3>1 DEF Ordered, BackendStep
    <2>5. CASE server' = server /\ Rejected' = Rejected \cup {b.doc}
      <3>1. B!ServerRejects("this")
        BY <1>2, <2>3, <2>5 DEF B!ServerRejects, Device, q
      <3> QED BY <2>2, <3>1 DEF Ordered, BackendStep
    <2> QED BY <2>1, <2>4, <2>5
  <1>5. CASE QueueStays
    <2>1. IsOrder(s, Open')
      BY <1>1, <1>5 DEF QueueStays
    <2>2. Undecided' = Undecided
      BY <1>2, <2>1, UndecidedIsNext
    <2> QED BY <1>5, <2>1, <2>2 DEF Ordered, QueueStays
  <1> QED BY <1>3, <1>4, <1>5, OpenStep

\* The queue is empty at the first launch.
LEMMA InitBackend == Init => Ordered /\ B!BackendInit
  <1> SUFFICES ASSUME Init PROVE Ordered /\ B!BackendInit
    OBVIOUS
  <1>1. Open = {}
    BY DEF Init, Open
  <1>2. <<>> \in Seq(Batch) /\ Len(<<>>) = 0
    BY EmptySeq
  <1>3. IsOrder(<<>>, Open)
    BY <1>1, <1>2 DEF IsOrder, Ascending
  <1>4. Undecided = <<>>
    BY <1>2, <1>3, InitInv, UndecidedIs, DocsOf
  <1>5. Rejected = {} /\ server = {}
    BY DEF Init, Rejected
  <1> QED BY <1>3, <1>4, <1>5 DEF Ordered, B!BackendInit, Device

\* All of it holds in every behaviour.
AllInv == Inv /\ RunInv /\ VerdictInv /\ QueueInv

\* Every step keeps all of it.
LEMMA NextAll == ASSUME AllInv, [Next]_vars PROVE AllInv'
  <1>1. Inv' /\ RunInv' /\ VerdictInv'
    BY NextInv, NextRunInv, NextVerdict DEF AllInv
  <1>2. DocumentInv' /\ ShortInv' /\ AdriftInv'
    BY <1>1, NextDocument, NextShort, NextAdrift DEF AllInv
  <1> QED BY <1>1, <1>2 DEF AllInv, QueueInv

\* To the modules that use Backend, the client's pipeline, its streams, what is
\* lost and what is repeated are a queue of writes the server decides one by one,
\* from the oldest, each once (remote_store.cc, local_store.cc, sync_engine.cc).
THEOREM BackendImplemented == Spec => ImplementsBackend
  <1>1. Init => AllInv /\ Ordered /\ B!BackendInit
    BY InitInv, InitQueue, InitBackend DEF Init, AllInv, RunInv, VerdictInv
  <1>2. AllInv /\ Ordered /\ [Next]_vars
        => AllInv' /\ Ordered' /\ [BackendStep]_<<Undecided, server, Rejected>>
    <2> SUFFICES ASSUME AllInv, Ordered, [Next]_vars
                 PROVE  AllInv' /\ Ordered' /\ [BackendStep]_<<Undecided, server, Rejected>>
      OBVIOUS
    <2>1. AllInv'
      BY NextAll
    <2> QED BY <2>1, NextBackend DEF AllInv
  <1> QED BY <1>1, <1>2, PTL DEF Spec, ImplementsBackend

-----------------------------------------------------------------------------
\* Types

\* The states of a stream, and how one may have ended.
StreamState == {"initial", "starting", "open", "error", "backoff"}
Verdict == {"none", "transient", "permanent"}

\* The flags and the bound.
FlagInv ==
  /\ running \in BOOLEAN
  /\ stream \in StreamState
  /\ handshake \in BOOLEAN
  /\ idleTimer \in BOOLEAN
  /\ verdict \in Verdict
  /\ writeFailed \in BOOLEAN
  /\ faults \in 0 .. MaxFaults

\* Filling the pipeline leaves a state of the stream and a flag.
LEMMA FillFlags ==
  ASSUME NEW m, NEW p, NEW s \in StreamState, NEW greeted, NEW sent,
         FillWritePipeline(m, p, s, greeted, sent)
  PROVE  stream' \in StreamState /\ idleTimer' \in BOOLEAN
  <1>1. PICK new \in Orders(NextBatches(m, p)) :
           /\ idleTimer' = IdleTimerSet(new, s, greeted)
           /\ stream' = IF pipeline' # <<>> /\ ~Started(s) THEN Start(s) ELSE s
    BY DEF FillWritePipeline
  <1>2. IdleTimerSet(new, s, greeted) \in BOOLEAN
    BY DEF IdleTimerSet
  <1>3. Start(s) \in StreamState
    BY DEF Start, StreamState
  <1> QED BY <1>1, <1>2, <1>3

\* Every step keeps them.
LEMMA NextFlag == ASSUME FlagInv, [Next]_vars PROVE FlagInv'
  <1>0. "initial" \in StreamState
    BY DEF StreamState
  <1>1. CASE \E doc \in Document : SetData(doc)
    <2>1. /\ FillWritePipeline(mutations', pipeline, stream, handshake, requests)
          /\ UNCHANGED <<running, handshake, verdict, writeFailed, faults>>
      BY <1>1 DEF SetData
    <2>2. stream' \in StreamState /\ idleTimer' \in BOOLEAN
      BY <2>1, FillFlags DEF FlagInv
    <2> QED BY <2>1, <2>2 DEF FlagInv
  <1>2. CASE ReadMutationResult
    <2>1. /\ FillWritePipeline(mutations', Tail(pipeline), stream, handshake, requests)
          /\ UNCHANGED <<running, handshake, verdict, faults>>
          /\ writeFailed' = (verdict # "none" /\ requests # <<>>)
      BY <1>2 DEF ReadMutationResult, Settle
    <2>2. stream' \in StreamState /\ idleTimer' \in BOOLEAN
      BY <2>1, FillFlags DEF FlagInv
    <2>3. writeFailed' \in BOOLEAN
      BY <2>1
    <2> QED BY <2>1, <2>2, <2>3 DEF FlagInv
  <1>3. CASE StreamFailsRejecting
    <2>1. /\ FillWritePipeline(mutations', Tail(pipeline), "initial", FALSE, <<>>)
          /\ UNCHANGED <<running, faults>> /\ StreamGone
      BY <1>3 DEF StreamFailsRejecting, Settle
    <2>2. stream' \in StreamState /\ idleTimer' \in BOOLEAN
      BY <1>0, <2>1, FillFlags
    <2> QED BY <2>1, <2>2 DEF FlagInv, StreamGone, Verdict
  <1>4. CASE NetworkChanges
    <2>1. /\ FillWritePipeline(mutations, <<>>, "initial", FALSE, <<>>)
          /\ running' = running /\ StreamGone /\ Fault
      BY <1>4 DEF NetworkChanges
    <2>2. stream' \in StreamState /\ idleTimer' \in BOOLEAN
      BY <1>0, <2>1, FillFlags
    <2>3. faults' \in 0 .. MaxFaults
      BY <2>1, WritesAssumption DEF Fault, FlagInv, WritesAssumption
    <2> QED BY <2>1, <2>2, <2>3 DEF FlagInv, StreamGone, Verdict
  <1>5. CASE Launch
    <2>1. /\ FillWritePipeline(mutations, <<>>, "initial", FALSE, <<>>)
          /\ running' = TRUE /\ UNCHANGED <<handshake, verdict, writeFailed, faults>>
      BY <1>5 DEF Launch
    <2>2. stream' \in StreamState /\ idleTimer' \in BOOLEAN
      BY <1>0, <2>1, FillFlags
    <2> QED BY <2>1, <2>2 DEF FlagInv
  <1>6. CASE Crash
    <2>1. faults' \in 0 .. MaxFaults
      BY <1>6, WritesAssumption DEF Crash, Fault, FlagInv, WritesAssumption
    <2> QED BY <1>6, <2>1 DEF Crash, FlagInv, StreamGone, StreamState, Verdict
  <1>7. CASE StreamBreaks
    <2>1. faults' \in 0 .. MaxFaults
      BY <1>7, WritesAssumption DEF StreamBreaks, Fault, FlagInv, WritesAssumption
    <2> QED BY <1>7, <2>1 DEF StreamBreaks, FlagInv, Verdict, client
  <1>8. CASE ReadHandshake
    <2>1. /\ handshake' = TRUE /\ idleTimer' = (idleTimer /\ pipeline = <<>>)
          /\ UNCHANGED <<running, stream, verdict, writeFailed, faults>>
      BY <1>8 DEF ReadHandshake
    <2>2. idleTimer' \in BOOLEAN
      BY <2>1
    <2> QED BY <2>1, <2>2 DEF FlagInv
  <1>9. CASE StreamOpens \/ BackoffElapses
    BY <1>9 DEF StreamOpens, BackoffElapses, FlagInv, StreamState, wire
  <1>10. CASE StreamFailsRetrying \/ IdleTimeout
    BY <1>10 DEF StreamFailsRetrying, IdleTimeout, StreamGone, Start, FlagInv, StreamState, Verdict
  <1>11. CASE ServerSteps \/ LateRequestArrives \/ UNCHANGED vars
    BY <1>11 DEF ServerSteps, ServerAnswersHandshake, ServerCommits, ServerRefuses,
                 LateRequestArrives, vars, client, wire, FlagInv, Verdict
  <1> QED BY <1>1, <1>2, <1>3, <1>4, <1>5, <1>6, <1>7, <1>8, <1>9, <1>10, <1>11
      DEF Next, ClientSteps

\* What the module says of its variables holds: the queue and the callbacks are of
\* batches, the pipeline never exceeds kMaxPendingWrites, and the flags are flags.
THEOREM TypeCorrect == Spec => []TypeOK
  <1>1. Init => AllInv /\ FlagInv
    <2> SUFFICES ASSUME Init PROVE AllInv /\ FlagInv
      OBVIOUS
    <2>1. AllInv
      BY InitInv, InitQueue DEF Init, AllInv, RunInv, VerdictInv
    <2>2. FlagInv
      <3>1. faults \in 0 .. MaxFaults
        BY WritesAssumption DEF Init, WritesAssumption
      <3> QED BY <3>1 DEF Init, FlagInv, StreamState, Verdict
    <2> QED BY <2>1, <2>2
  <1>2. AllInv /\ FlagInv /\ [Next]_vars => AllInv' /\ FlagInv'
    BY NextAll, NextFlag
  <1>3. AllInv /\ FlagInv => TypeOK
    BY DEF AllInv, Inv, DiskInv, PipelineInv, WireInv, ToldInv, Known, QueueInv, DocumentInv,
           ShortInv, AdriftInv, FlagInv, StreamState, Verdict, Message, TypeOK
  <1> QED BY <1>1, <1>2, <1>3, PTL DEF Spec

=============================================================================
