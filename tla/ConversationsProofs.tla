-------------------------- MODULE ConversationsProofs --------------------------
(***************************************************************************)
(* Proofs about conversations, for any lines, titles and numbers of        *)
(* uploads: how long the list is, what is on it, and what a row of the     *)
(* filtered list opens.                                                    *)
(*                                                                         *)
(* Each property alone is far from inductive.  Inv says                    *)
(*   - that the cache has all that was uploaded here (Cached), so that a   *)
(*     query answers with it whether the server is in reach or not;        *)
(*   - that what is on a list is cached, queued or refused (Lists), so     *)
(*     that the next answer has it again, and that the answers on their    *)
(*     way are ordered in the same way (Kept);                             *)
(*   - that when nobody asks any more the latest list has everything that  *)
(*     was confirmed, and everything an earlier process left in the queue  *)
(*     (Complete): a write of this process is not among it before its      *)
(*     callback has asked for a new list.                                  *)
(* Lists have no conversation twice because time stamps are different, and *)
(* that bounds the length of one list by that of another (LengthOfList).   *)
(***************************************************************************)
EXTENDS Conversations, SequenceTheorems, FiniteSetTheorems, TLAPS

-----------------------------------------------------------------------------
\* Lists

\* Newest first, and no conversation twice.
Descending(s) == \A i, j \in DOMAIN s : i < j => s[i].no > s[j].no

\* Such a list has as many entries as it has conversations.
LEMMA LengthOfList ==
  ASSUME NEW s \in Seq(Conversation), Descending(s)
  PROVE  IsFiniteSet(Range(s)) /\ Cardinality(Range(s)) = Len(s)
<1>1. Len(s) \in Nat /\ DOMAIN s = 1 .. Len(s) /\ \A i \in 1 .. Len(s) : s[i].no \in Nat
  <2>1. Len(s) \in Nat /\ DOMAIN s = 1 .. Len(s) /\ \A i \in 1 .. Len(s) : s[i] \in Conversation
    OBVIOUS
  <2>2. \A a \in Conversation : a.no \in Nat
    BY ConversationsAssumption DEF Conversation, Number
  <2>. QED  BY <2>1, <2>2
<1>2. \A i, j \in 1 .. Len(s) : s[i] = s[j] => i = j
  BY <1>1 DEF Descending
<1>3. s \in Surjection(1 .. Len(s), Range(s)) /\ s \in Injection(1 .. Len(s), Range(s))
  BY <1>1, <1>2 DEF Surjection, Injection, IsInjective, Range
<1>4. IsFiniteSet(1 .. Len(s)) /\ Cardinality(1 .. Len(s)) = Len(s)
  BY <1>1, FS_Interval
<1>5. IsFiniteSet(Range(s))
  BY <1>3, <1>4, FS_Surjection
<1>. QED
  BY <1>3, <1>4, <1>5, FS_Surjection, FS_Injection, FS_CardinalityType

\* The answer to a query has what was queried, and nothing else.
LEMMA NewestFirstList ==
  ASSUME NEW docs \in SUBSET Conversation, IsFiniteSet(docs), NEW s \in NewestFirst(docs)
  PROVE  s \in Seq(Conversation) /\ Descending(s) /\ Range(s) = docs
<1>1. Cardinality(docs) \in Nat
  BY FS_CardinalityType
<1>2. s \in [1 .. Cardinality(docs) -> docs] /\ Descending(s)
  BY DEF NewestFirst, Descending
<1>3. s \in Seq(Conversation) /\ Len(s) = Cardinality(docs)
  BY <1>1, <1>2, SeqDef
<1>4. Range(s) \in SUBSET docs
  BY <1>2 DEF Range
<1>5. Cardinality(Range(s)) = Cardinality(docs)
  BY <1>2, <1>3, LengthOfList
<1>. QED  BY <1>2, <1>3, <1>4, <1>5, FS_Subset

\* A list without what another one lacks is not longer.
LEMMA NotLonger ==
  ASSUME NEW s \in Seq(Conversation), NEW t \in Seq(Conversation),
         Descending(s), Descending(t), Range(s) \subseteq Range(t)
  PROVE  Len(s) <= Len(t)
<1>1. Range(s) \in SUBSET Range(t)
  OBVIOUS
<1>. QED  BY <1>1, LengthOfList, FS_Subset

\* What is in a list is of the kind the list is of.
LEMMA RangeType ==
  ASSUME NEW S, NEW s \in Seq(S)
  PROVE  Range(s) \subseteq S
BY DEF Range

\* What a list has after an entry was put at its end.
LEMMA RangeAppend ==
  ASSUME NEW S, NEW s \in Seq(S), NEW x \in S
  PROVE  Range(Append(s, x)) = Range(s) \cup {x}
<1>1. /\ DOMAIN s = 1 .. Len(s) /\ Len(s) \in Nat
      /\ DOMAIN Append(s, x) = 1 .. Len(s) + 1
      /\ \A i \in 1 .. Len(s) : Append(s, x)[i] = s[i]
      /\ Append(s, x)[Len(s) + 1] = x
  OBVIOUS
<1>. QED  BY <1>1 DEF Range

\* What a list has before and after its first entry is taken.
LEMMA RangeTail ==
  ASSUME NEW S, NEW s \in Seq(S), s # << >>
  PROVE  /\ Head(s) \in S
         /\ Tail(s) \in Seq(S)
         /\ Range(s) = {Head(s)} \cup Range(Tail(s))
<1>1. /\ Head(s) \in S
      /\ Tail(s) \in Seq(S)
      /\ Len(Tail(s)) = Len(s) - 1
      /\ \A i \in 1 .. Len(Tail(s)) : Tail(s)[i] = s[i + 1]
  BY HeadTailProperties
<1>2. /\ Len(s) \in Nat \ {0}
      /\ DOMAIN s = 1 .. Len(s)
      /\ DOMAIN Tail(s) = 1 .. Len(s) - 1
  BY <1>1, LenProperties, EmptySeq
<1>3. Head(s) = s[1]
  OBVIOUS
<1>4. Head(s) \in Range(s)
  BY <1>2, <1>3 DEF Range
<1>5. Range(Tail(s)) \subseteq Range(s)
  BY <1>1, <1>2 DEF Range
<1>6. ASSUME NEW x \in Range(s)
      PROVE  x \in {Head(s)} \cup Range(Tail(s))
  <2>1. PICK i \in 1 .. Len(s) : x = s[i]
    BY <1>2 DEF Range
  <2>2. CASE i = 1
    BY <2>1, <2>2, <1>3
  <2>3. CASE i # 1
    <3>1. i - 1 \in 1 .. Len(s) - 1 /\ (i - 1) + 1 = i
      BY <2>1, <2>3, <1>2
    <3>2. Tail(s)[i - 1] = x
      BY <3>1, <2>1, <1>1
    <3> QED
      BY <3>1, <3>2, <1>2 DEF Range
  <2> QED
    BY <2>2, <2>3
<1> QED
  BY <1>1, <1>4, <1>5, <1>6

-----------------------------------------------------------------------------
\* The inductive invariant

\* Where a conversation may be that was ever written or read here ...
Stored == server \cup Pending("this") \cup rejected
\* ... and what any query from now on answers with.
KnownHere == cache["this"] \cup Pending("this")

\* The list the screen will show when no answer is on its way.
Latest == IF answers = <<>> THEN conversations ELSE answers[Len(answers)].list

\* Who registers has a number left.
Counted ==
  /\ others <= clock /\ clock - others <= MaxUploads
  /\ registering # None => clock - others < MaxUploads

\* A time stamp names a conversation.
Dated ==
  /\ \A a \in Stored : a.no <= clock
  /\ \A a, b \in Stored : a.no = b.no => a = b

\* The cache has what was uploaded here.
Cached ==
  /\ cache["this"] \subseteq server
  /\ \A a \in server : a.mine => a \in cache["this"]
  /\ unanswered \subseteq Stored

\* What is on a list is still known, unless it was refused.
Lists ==
  /\ Descending(conversations) /\ Descending(searchedConversations)
  /\ \A i \in DOMAIN answers : Descending(answers[i].list)
  /\ Range(conversations) \subseteq KnownHere \cup rejected
  /\ \A i \in DOMAIN answers : Range(answers[i].list) \subseteq KnownHere \cup rejected
  /\ Range(searchedConversations) \ rejected \subseteq Range(conversations)

\* Of two lists the later one has what the earlier one has.
Kept ==
  /\ \A i \in DOMAIN answers : Range(conversations) \ rejected \subseteq Range(answers[i].list)
  /\ \A i, j \in DOMAIN answers :
       i < j => Range(answers[i].list) \ rejected \subseteq Range(answers[j].list)

\* Nobody asks any more: the latest list has every upload that was confirmed, and
\* those an earlier process has left in the queue.
Complete ==
  ~missed /\ fetching = {} =>
    \A a \in (server \cup Pending("this")) \ unanswered : a.mine => a \in Range(Latest)

\* The inductive invariant.
Inv == TypeOK /\ Counted /\ Dated /\ Cached /\ Lists /\ Kept /\ Complete

\* A step that leaves alone the variables of a part leaves the part alone: Counted,
LEMMA SameCounted ==
  Counted /\ UNCHANGED <<others, clock, registering>> => Counted'
BY DEF Counted
\* Dated,
LEMMA SameDated ==
  Dated /\ UNCHANGED <<clock, server, outbox, rejected>> => Dated'
BY DEF Dated, Stored, Pending
\* Cached,
LEMMA SameCached ==
  Cached /\ UNCHANGED <<unanswered, server, outbox, rejected, cache>> => Cached'
BY DEF Cached, Stored, Pending
\* Lists,
LEMMA SameLists ==
  Lists /\ UNCHANGED <<conversations, searchedConversations, answers, outbox, rejected, cache>>
    => Lists'
BY DEF Lists, KnownHere, Pending
\* Kept,
LEMMA SameKept ==
  Kept /\ UNCHANGED <<conversations, answers, rejected>> => Kept'
BY DEF Kept
\* and Complete.
LEMMA SameComplete ==
  Complete /\ UNCHANGED <<missed, fetching, server, outbox, unanswered, conversations, answers>>
    => Complete'
BY DEF Complete, Latest, Pending

\* Conversations have different time stamps, so there is no more than one for each.
LEMMA StoredFinite ==
  ASSUME TypeOK, Dated
  PROVE  Stored \subseteq Conversation /\ IsFiniteSet(Stored)
<1>1. Pending("this") \subseteq Conversation
  BY RangeType DEF TypeOK, Pending
<1>2. Stored \subseteq Conversation
  BY <1>1 DEF Stored, TypeOK
<1>3. \A a \in Conversation : a.no \in Number
  BY DEF Conversation
<1>. DEFINE stamp == [a \in Stored |-> a.no]
<1>4. stamp \in Injection(Stored, Number)
  BY <1>2, <1>3 DEF Dated, Injection, IsInjective
<1>5. IsFiniteSet(Number)
  BY ConversationsAssumption, FS_Interval DEF Number
<1>. QED  BY <1>2, <1>4, <1>5, FS_Injection

\* The app has been launched for the first time.
LEMMA InitInv == Init => Inv
<1>. SUFFICES ASSUME Init PROVE Inv
  OBVIOUS
<1>. USE ConversationsAssumption DEF Init, BackendInit
<1>1. Pending("this") = {}
  BY DEF Pending, Range
<1>2. Range(<<>>) = {}
  BY DEF Range
<1>3. TypeOK
  <2>1. <<>> \in Strip
    <3>1. 0 \in 0 .. MaxLines /\ <<>> \in [1 .. 0 -> Line]
      OBVIOUS
    <3>. QED  BY <3>1 DEF Strip
  <2>2. /\ answers \in Seq([by : Asker, list : Seq(Conversation)])
        /\ {conversations, searchedConversations} \subseteq Seq(Conversation)
    OBVIOUS
  <2>3. /\ outbox \in [{"this"} -> Seq(Conversation)]
        /\ cache \in [{"this"} -> SUBSET Conversation]
    OBVIOUS
  <2>4. clock \in 0 .. MaxUploads + MaxOthers /\ others \in 0 .. MaxOthers
        /\ crashes \in 0 .. MaxCrashes /\ color \in 0 .. 5
    OBVIOUS
  <2>5. /\ fetching \subseteq Asker /\ unanswered \subseteq Conversation
        /\ server \subseteq Conversation /\ rejected \subseteq Conversation
        /\ {composer, registerButton, missed} \subseteq BOOLEAN
        /\ player \in Conversation \cup {None}
    BY DEF Asker
  <2>. QED  BY <2>1, <2>2, <2>3, <2>4, <2>5 DEF TypeOK
<1>4. Counted /\ Dated /\ Cached
  BY <1>1 DEF Counted, Dated, Cached, Stored
<1>5. Lists /\ Kept /\ Complete
  BY <1>1, <1>2 DEF Lists, Kept, Complete, Descending, KnownHere
<1>. QED  BY <1>3, <1>4, <1>5 DEF Inv

-----------------------------------------------------------------------------
\* Fetching

\* What a query answers, from the server or from the cache.
LEMMA AnswerKnown ==
  ASSUME TypeOK, Dated, Cached, NEW source \in Sources("this")
  PROVE  /\ IsFiniteSet(Answer("this", source, Conversation))
         /\ Answer("this", source, Conversation) \subseteq Conversation
         /\ KnownHere \subseteq Answer("this", source, Conversation)
         /\ Answer("this", source, Conversation) = source \cup Pending("this")
         /\ source \subseteq server
<1>1. source \subseteq server /\ cache["this"] \subseteq source
  BY DEF Cached, Sources
<1>2. Stored \subseteq Conversation /\ IsFiniteSet(Stored)
  BY StoredFinite
<1>3. Answer("this", source, Conversation) = source \cup Pending("this")
  BY <1>1, <1>2 DEF Stored, Answer
<1>4. source \cup Pending("this") \in SUBSET Stored
  BY <1>1 DEF Stored
<1>. QED  BY <1>1, <1>2, <1>3, <1>4, FS_Subset DEF KnownHere

\* Firestore answers: the answer has all that the earlier ones had.
LEMMA FetchReadInv ==
  ASSUME Inv, FetchRead
  PROVE  Inv'
<1>. USE DEF Inv
<1>0. PICK by \in fetching, source \in Sources("this") :
        /\ fetching' = fetching \ {by}
        /\ \E list \in NewestFirst(Answer("this", source, Conversation)) :
             answers' = Append(answers, [by |-> by, list |-> list])
        /\ Remember("this", source, Conversation)
        /\ UNCHANGED <<composerVars, conversations, searchedConversations, player, missed,
                       uploadVars, others, crashes, blobs, outbox, server, rejected>>
  BY DEF FetchRead
<1>1. PICK list \in NewestFirst(Answer("this", source, Conversation)) :
        answers' = Append(answers, [by |-> by, list |-> list])
  BY <1>0
<1>2. /\ list \in Seq(Conversation) /\ Descending(list)
      /\ Range(list) = source \cup Pending("this")
      /\ KnownHere \subseteq Range(list) /\ source \subseteq server
  BY AnswerKnown, NewestFirstList
<1>3. source \subseteq Conversation
  BY <1>2 DEF TypeOK
<1>4. /\ cache' \in [{"this"} -> SUBSET Conversation]
      /\ cache'["this"] = cache["this"] \cup source
  BY <1>0, <1>1, <1>3 DEF Remember, TypeOK
<1>5. Pending("this")' = Pending("this") /\ rejected' = rejected
  BY <1>0, <1>1 DEF Pending
<1>. DEFINE new == [by |-> by, list |-> list]
<1>6. /\ answers' \in Seq([by : Asker, list : Seq(Conversation)])
      /\ DOMAIN answers = 1 .. Len(answers) /\ Len(answers) \in Nat
      /\ DOMAIN answers' = 1 .. Len(answers) + 1 /\ Len(answers') = Len(answers) + 1
      /\ \A i \in 1 .. Len(answers) : answers'[i] = answers[i]
      /\ answers'[Len(answers) + 1].list = list
  <2>1. new \in [by : Asker, list : Seq(Conversation)]
    BY <1>2 DEF TypeOK
  <2>2. new.list = list
    OBVIOUS
  <2>. HIDE DEF new
  <2>. QED  BY <1>0, <1>1, <2>1, <2>2 DEF TypeOK
<1>. HIDE DEF new
<1>7. TypeOK'
  BY <1>0, <1>1, <1>4, <1>6 DEF TypeOK, composerVars, uploadVars
<1>8. Counted' /\ Dated'
  BY <1>0, <1>1, SameCounted, SameDated DEF composerVars, uploadVars
<1>9. Cached'
  BY <1>0, <1>1, <1>2, <1>4 DEF Cached, Stored, Pending, uploadVars
<1>10. Lists'
  <2>1. \A i \in DOMAIN answers' : \/ answers'[i] = answers[i] /\ i \in DOMAIN answers
                                   \/ answers'[i].list = list
    BY <1>6
  <2>2. KnownHere \subseteq KnownHere' /\ Range(list) \subseteq KnownHere'
    BY <1>2, <1>4, <1>5 DEF KnownHere
  <2>3. UNCHANGED <<conversations, searchedConversations>>
    BY <1>0, <1>1
  <2>. QED  BY <1>2, <1>5, <2>1, <2>2, <2>3 DEF Lists
<1>11. Kept'
  <2>1. UNCHANGED conversations
    BY <1>0, <1>1
  <2>2. \A i \in DOMAIN answers : Range(answers[i].list) \ rejected \subseteq Range(list)
    BY <1>2 DEF Lists
  <2>3. Range(conversations) \ rejected \subseteq Range(list)
    BY <1>2 DEF Lists
  <2>4. \A i \in DOMAIN answers' : Range(conversations) \ rejected \subseteq Range(answers'[i].list)
    BY <1>6, <2>3 DEF Kept
  <2>5. ASSUME NEW i \in DOMAIN answers', NEW j \in DOMAIN answers', i < j
        PROVE  Range(answers'[i].list) \ rejected \subseteq Range(answers'[j].list)
    <3>1. i \in DOMAIN answers /\ answers'[i] = answers[i]
      BY <1>6, <2>5
    <3>2. CASE j \in DOMAIN answers
      BY <1>6, <2>5, <3>1, <3>2 DEF Kept
    <3>3. CASE j \notin DOMAIN answers
      BY <1>6, <2>2, <3>1, <3>3
    <3>. QED  BY <3>2, <3>3
  <2>. QED  BY <1>5, <2>1, <2>4, <2>5 DEF Kept
<1>12. Complete'
  <2>1. Latest' = list
    BY <1>6 DEF Latest
  <2>2. UNCHANGED <<server, unanswered>>
    BY <1>0, <1>1 DEF uploadVars
  <2>3. \A a \in server \cup Pending("this") : a.mine => a \in KnownHere
    BY StoredFinite DEF Cached, KnownHere
  <2>. QED  BY <1>2, <1>5, <2>1, <2>2, <2>3 DEF Complete
<1>. QED  BY <1>7, <1>8, <1>9, <1>10, <1>11, <1>12

\* Nobody is called back.
LEMMA FetchFailsInv ==
  ASSUME Inv, FetchFails
  PROVE  Inv'
<1>. USE DEF Inv
<1>1. TypeOK'
  BY DEF FetchFails, TypeOK, composerVars, uploadVars, firestoreVars
<1>2. Counted' /\ Dated' /\ Cached' /\ Lists' /\ Kept'
  BY SameCounted, SameDated, SameCached, SameLists, SameKept
  DEF FetchFails, composerVars, uploadVars, firestoreVars
<1>3. Complete'
  BY DEF FetchFails, Complete
<1>. QED  BY <1>1, <1>2, <1>3

\* The oldest answer becomes the list.
LEMMA FetchArrivesInv ==
  ASSUME Inv, FetchArrives
  PROVE  Inv'
<1>. USE DEF Inv
<1>1. /\ answers # <<>> /\ answers' = Tail(answers)
      /\ conversations' = Head(answers).list
      /\ composer' = FALSE
      /\ UNCHANGED <<strip, registerButton, registering, fetching, searchedConversations,
                     player, missed, unanswered, color, clock, others, crashes, blobs,
                     outbox, server, rejected, cache>>
  BY DEF FetchArrives, uploadVars, firestoreVars
<1>2. /\ Head(answers) = answers[1]
      /\ answers[1] \in [by : Asker, list : Seq(Conversation)]
      /\ answers' \in Seq([by : Asker, list : Seq(Conversation)])
      /\ Len(answers) \in Nat \ {0} /\ DOMAIN answers = 1 .. Len(answers)
      /\ Len(answers') = Len(answers) - 1 /\ DOMAIN answers' = 1 .. Len(answers) - 1
      /\ \A i \in 1 .. Len(answers) - 1 : answers'[i] = answers[i + 1]
  <2>1. answers \in Seq([by : Asker, list : Seq(Conversation)])
    BY DEF TypeOK
  <2>2. /\ answers' \in Seq([by : Asker, list : Seq(Conversation)])
        /\ Head(answers) \in [by : Asker, list : Seq(Conversation)]
        /\ Len(answers') = Len(answers) - 1
        /\ \A i \in 1 .. Len(answers') : answers'[i] = answers[i + 1]
    BY <1>1, <2>1, HeadTailProperties
  <2>3. Len(answers) \in Nat \ {0} /\ DOMAIN answers = 1 .. Len(answers)
    BY <1>1, <2>1, LenProperties, EmptySeq
  <2>4. DOMAIN answers' = 1 .. Len(answers) - 1
    BY <2>2, LenProperties
  <2>5. Head(answers) = answers[1] /\ 1 \in 1 .. Len(answers)
    BY <2>1, <2>3
  <2>6. answers[1] \in [by : Asker, list : Seq(Conversation)]
    BY <2>2, <2>5
  <2>. QED  BY <2>2, <2>3, <2>4, <2>5, <2>6
<1>3. \A i \in DOMAIN answers' : /\ i + 1 \in DOMAIN answers /\ answers'[i] = answers[i + 1]
                                 /\ 1 < i + 1
  BY <1>2
<1>4. 1 \in DOMAIN answers /\ conversations' = answers[1].list
  BY <1>1, <1>2
<1>5. conversations' \in Seq(Conversation)
  BY <1>2, <1>4
<1>6. TypeOK'
  BY <1>1, <1>2, <1>5 DEF TypeOK
<1>7. Counted' /\ Dated' /\ Cached'
  BY <1>1, SameCounted, SameDated, SameCached
<1>8. KnownHere' = KnownHere
  BY <1>1 DEF KnownHere, Pending
<1>9. Lists'
  <2>1. Range(searchedConversations) \ rejected \subseteq Range(conversations')
    BY <1>4 DEF Lists, Kept
  <2>. QED  BY <1>1, <1>3, <1>4, <1>8, <2>1 DEF Lists
<1>10. Kept'
  <2>1. \A i \in DOMAIN answers' : Range(conversations') \ rejected \subseteq Range(answers'[i].list)
    BY <1>3, <1>4 DEF Kept
  <2>2. \A i, j \in DOMAIN answers' :
          i < j => Range(answers'[i].list) \ rejected \subseteq Range(answers'[j].list)
    <3>. SUFFICES ASSUME NEW i \in DOMAIN answers', NEW j \in DOMAIN answers', i < j
                  PROVE  Range(answers'[i].list) \ rejected \subseteq Range(answers'[j].list)
      OBVIOUS
    <3>1. i + 1 < j + 1
      BY <1>2
    <3>. QED  BY <1>3, <3>1 DEF Kept
  <2>. QED  BY <1>1, <2>1, <2>2 DEF Kept
<1>11. Complete'
  <2>1. Latest' = Latest
    <3>1. CASE Len(answers) = 1
      <4>1. answers' = <<>>
        BY <1>2, <3>1, EmptySeq
      <4>. QED  BY <1>1, <1>4, <3>1, <4>1 DEF Latest
    <3>2. CASE Len(answers) # 1
      <4>0. Len(answers') # 0
        BY <1>2, <3>2
      <4>1. answers # <<>> /\ answers' # <<>>
        BY <1>1, <4>0
      <4>2. Len(answers') \in DOMAIN answers' /\ Len(answers') + 1 = Len(answers)
        BY <1>2, <3>2
      <4>3. answers'[Len(answers')] = answers[Len(answers)]
        BY <1>3, <4>2
      <4>. QED  BY <4>1, <4>3 DEF Latest
    <3>. QED  BY <3>1, <3>2
  <2>. QED  BY <1>1, <2>1 DEF Complete, Pending
<1>. QED  BY <1>6, <1>7, <1>9, <1>10, <1>11

-----------------------------------------------------------------------------
\* The list and the player

\* A search finds part of the list.
LEMMA didChangeTextInv ==
  ASSUME Inv, NEW text \in Text, didChangeText(text)
  PROVE  Inv'
<1>. USE DEF Inv
<1>1. /\ conversations \in Seq(Conversation) /\ Descending(conversations)
      /\ searchedConversations \in Seq(Conversation)
  BY DEF TypeOK, Lists
<1>2. /\ searchedConversations' \in Seq(Conversation)
      /\ Descending(searchedConversations')
      /\ Range(searchedConversations') \subseteq Range(conversations)
  <2>1. CASE text = Blank
    <3>1. searchedConversations' = <<>> \/ searchedConversations' = conversations
      BY <2>1 DEF didChangeText
    <3>2. <<>> \in Seq(Conversation) /\ Descending(<<>>) /\ Range(<<>>) = {}
      BY DEF Descending, Range
    <3>. QED  BY <1>1, <3>1, <3>2
  <2>2. CASE text # Blank
    <3>. DEFINE found == {c \in Range(conversations) : c.title \in Matching[text]}
    <3>1. searchedConversations' \in NewestFirst(found)
      BY <2>2 DEF didChangeText
    <3>2. found \in SUBSET Range(conversations) /\ found \in SUBSET Conversation
      BY <1>1, RangeType
    <3>. HIDE DEF found
    <3>3. IsFiniteSet(found)
      BY <1>1, <3>2, LengthOfList, FS_Subset
    <3>. QED  BY <3>1, <3>2, <3>3, NewestFirstList
  <2>. QED  BY <2>1, <2>2
<1>3. UNCHANGED <<composerVars, fetching, answers, conversations, player, missed,
                  uploadVars, others, crashes, blobs, firestoreVars>>
  BY DEF didChangeText
<1>4. TypeOK'
  BY <1>1, <1>2, <1>3 DEF TypeOK, composerVars, uploadVars, firestoreVars
<1>5. Counted' /\ Dated' /\ Cached' /\ Kept' /\ Complete'
  BY <1>3, SameCounted, SameDated, SameCached, SameKept, SameComplete
  DEF composerVars, uploadVars, firestoreVars
<1>6. Lists'
  BY <1>2, <1>3 DEF Lists, KnownHere, Pending, firestoreVars
<1>. QED  BY <1>4, <1>5, <1>6

\* A conversation is opened.
LEMMA didTapStartButtonInv ==
  ASSUME Inv, NEW row, didTapStartButton(row)
  PROVE  Inv'
<1>. USE DEF Inv
<1>1. player' \in Conversation
  BY DEF didTapStartButton, TypeOK
<1>2. TypeOK'
  BY <1>1 DEF didTapStartButton, TypeOK, composerVars, uploadVars, firestoreVars
<1>3. Counted' /\ Dated' /\ Cached' /\ Lists' /\ Kept' /\ Complete'
  BY SameCounted, SameDated, SameCached, SameLists, SameKept, SameComplete
  DEF didTapStartButton, composerVars, uploadVars, firestoreVars
<1>. QED  BY <1>2, <1>3

\* The player is closed.
LEMMA ClosePlayerInv ==
  ASSUME Inv, ClosePlayer
  PROVE  Inv'
<1>. USE DEF Inv
<1>1. TypeOK'
  BY DEF ClosePlayer, TypeOK, composerVars, uploadVars, firestoreVars
<1>2. Counted' /\ Dated' /\ Cached' /\ Lists' /\ Kept' /\ Complete'
  BY SameCounted, SameDated, SameCached, SameLists, SameKept, SameComplete
  DEF ClosePlayer, composerVars, uploadVars, firestoreVars
<1>. QED  BY <1>1, <1>2

-----------------------------------------------------------------------------
\* The composer

\* The strip when the composer opens.
LEMMA EmptyStrip == <<>> \in Strip
<1>1. 0 \in 0 .. MaxLines /\ <<>> \in [1 .. 0 -> Line]
  BY ConversationsAssumption
<1>. QED  BY <1>1 DEF Strip

\* The strip after a line was chosen.
LEMMA AppendedStrip ==
  ASSUME NEW s \in Strip, Len(s) < MaxLines, NEW line \in Line
  PROVE  Append(s, line) \in Strip
<1>1. PICK n \in 0 .. MaxLines : s \in [1 .. n -> Line]
  BY DEF Strip
<1>2. s \in Seq(Line) /\ Len(s) = n
  BY <1>1, ConversationsAssumption, SeqDef
<1>3. Append(s, line) \in Seq(Line) /\ Len(Append(s, line)) = n + 1
  BY <1>2, AppendProperties
<1>4. n + 1 \in 0 .. MaxLines
  BY <1>1, <1>2, ConversationsAssumption
<1>5. Append(s, line) \in [1 .. n + 1 -> Line]
  BY <1>3, LenProperties
<1>. QED  BY <1>4, <1>5 DEF Strip

\* The composer opens.
LEMMA didTapCreateButtonInv ==
  ASSUME Inv, didTapCreateButton
  PROVE  Inv'
<1>. USE DEF Inv
<1>1. TypeOK'
  BY EmptyStrip DEF didTapCreateButton, TypeOK, listVars, uploadVars, firestoreVars
<1>2. Counted' /\ Dated' /\ Cached' /\ Lists' /\ Kept' /\ Complete'
  BY SameCounted, SameDated, SameCached, SameLists, SameKept, SameComplete
  DEF didTapCreateButton, listVars, uploadVars, firestoreVars
<1>. QED  BY <1>1, <1>2

\* A line is chosen.
LEMMA SelectRowInv ==
  ASSUME Inv, NEW line \in Line, SelectRow(line)
  PROVE  Inv'
<1>. USE DEF Inv
<1>1. strip' \in Strip
  BY AppendedStrip DEF SelectRow, TypeOK
<1>2. registerButton' \in BOOLEAN
  BY DEF SelectRow, TypeOK
<1>3. TypeOK'
  BY <1>1, <1>2 DEF SelectRow, TypeOK, listVars, uploadVars, firestoreVars
<1>4. Counted' /\ Dated' /\ Cached' /\ Lists' /\ Kept' /\ Complete'
  BY SameCounted, SameDated, SameCached, SameLists, SameKept, SameComplete
  DEF SelectRow, listVars, uploadVars, firestoreVars
<1>. QED  BY <1>3, <1>4

\* The composer is closed.
LEMMA didTapCloseButtonInv ==
  ASSUME Inv, didTapCloseButton
  PROVE  Inv'
<1>. USE DEF Inv
<1>1. TypeOK'
  BY DEF didTapCloseButton, TypeOK, listVars, uploadVars, firestoreVars
<1>2. Counted' /\ Dated' /\ Cached' /\ Lists' /\ Kept' /\ Complete'
  BY SameCounted, SameDated, SameCached, SameLists, SameKept, SameComplete
  DEF didTapCloseButton, listVars, uploadVars, firestoreVars
<1>. QED  BY <1>1, <1>2

\* The pictures are taken.
LEMMA didTapRegisterButtonInv ==
  ASSUME Inv, NEW title \in Title, didTapRegisterButton(title)
  PROVE  Inv'
<1>. USE DEF Inv
<1>1. registering' \in [title : Title, caracterImageUrls : Strip]
  BY DEF didTapRegisterButton, TypeOK
<1>2. TypeOK'
  BY <1>1 DEF didTapRegisterButton, TypeOK, listVars, uploadVars, firestoreVars
<1>3. Counted'
  BY DEF didTapRegisterButton, Counted, uploadVars
<1>4. Dated' /\ Cached' /\ Lists' /\ Kept' /\ Complete'
  BY SameDated, SameCached, SameLists, SameKept, SameComplete
  DEF didTapRegisterButton, listVars, uploadVars, firestoreVars
<1>. QED  BY <1>2, <1>3, <1>4

\* The recordings are taken, and the upload is queued.
LEMMA KeyboardHasLeftInv ==
  ASSUME Inv, KeyboardHasLeft
  PROVE  Inv'
<1>. USE DEF Inv
<1>. DEFINE doc == NewConversation(TRUE, registering.title, color,
                                   registering.caracterImageUrls, strip)
<1>1. /\ registering # None /\ registering' = None
      /\ SetData("this", doc) /\ unanswered' = unanswered \cup {doc}
      /\ color' = NextColor(color) /\ clock' = clock + 1
      /\ UNCHANGED <<composer, strip, registerButton, listVars, others, crashes, blobs,
                     server, rejected, cache>>
  BY DEF KeyboardHasLeft
<1>2. /\ clock \in Nat /\ others \in Nat /\ others <= MaxOthers
      /\ clock - others < MaxUploads /\ others <= clock
      /\ MaxUploads \in Nat /\ MaxOthers \in Nat
  BY <1>1, ConversationsAssumption DEF TypeOK, Counted
<1>3. clock + 1 \in 1 .. MaxUploads + MaxOthers
  BY <1>2
<1>4. doc \in Conversation /\ doc.no = clock + 1
  BY <1>1, <1>3 DEF TypeOK, NewConversation, Conversation, Number
<1>. HIDE DEF doc
<1>5. /\ outbox["this"] \in Seq(Conversation)
      /\ outbox' \in [{"this"} -> Seq(Conversation)]
      /\ outbox'["this"] = Append(outbox["this"], doc)
  BY <1>1, <1>4 DEF SetData, TypeOK
<1>6. Pending("this")' = Pending("this") \cup {doc}
  BY <1>4, <1>5, RangeAppend DEF Pending
<1>7. Stored' = Stored \cup {doc}
  BY <1>1, <1>6 DEF Stored
<1>8. NextColor(color) \in 0 .. 5
  BY DEF NextColor, TypeOK
<1>9. TypeOK'
  BY <1>1, <1>2, <1>3, <1>4, <1>5, <1>8 DEF TypeOK, listVars
<1>10. Counted'
  BY <1>1, <1>2 DEF Counted
<1>11. Dated'
  <2>1. \A a \in Stored : a.no \in Nat /\ a.no <= clock
    BY StoredFinite, ConversationsAssumption DEF Dated, Conversation, Number
  <2>. QED  BY <1>1, <1>2, <1>4, <1>7, <2>1 DEF Dated
<1>12. Cached'
  BY <1>1, <1>7 DEF Cached
<1>13. Lists' /\ Kept'
  BY <1>1, <1>6, SameKept DEF Lists, KnownHere, listVars
<1>14. Complete'
  BY <1>1, <1>6 DEF Complete, Latest, listVars
<1>. QED  BY <1>9, <1>10, <1>11, <1>12, <1>13, <1>14

\* The upload is confirmed, and the list is asked for anew, or it was refused.
LEMMA UploadAnsweredInv ==
  ASSUME Inv, UploadAnswered
  PROVE  Inv'
<1>. USE DEF Inv
<1>1. PICK doc \in unanswered :
        /\ Decided("this", doc)
        /\ unanswered' = unanswered \ {doc}
        /\ fetching' = IF doc \in server THEN fetching \cup {doc} ELSE fetching
        /\ UNCHANGED <<composerVars, answers, conversations, searchedConversations, player,
                       missed, color, clock, others, crashes, blobs, firestoreVars>>
  BY DEF UploadAnswered
<1>2. TypeOK'
  BY <1>1 DEF TypeOK, Asker, composerVars, firestoreVars
<1>3. Counted' /\ Dated' /\ Lists' /\ Kept'
  BY <1>1, SameCounted, SameDated, SameLists, SameKept
  DEF composerVars, firestoreVars
<1>4. Cached'
  BY <1>1 DEF Cached, Stored, Pending, firestoreVars
<1>5. Complete'
  <2>1. CASE doc \in server
    BY <1>1, <2>1 DEF Complete
  <2>2. CASE doc \notin server
    BY <1>1, <2>2 DEF Complete, Latest, Pending, Decided, firestoreVars
  <2>. QED  BY <2>1, <2>2
<1>. QED  BY <1>2, <1>3, <1>4, <1>5

-----------------------------------------------------------------------------
\* Around the app

\* The server commits or refuses the oldest write.
LEMMA ServerDecidesInv ==
  ASSUME Inv, ServerDecides
  PROVE  Inv'
<1>. USE DEF Inv
<1>. DEFINE oldest == Head(outbox["this"])
<1>1. /\ outbox["this"] # <<>> /\ outbox["this"] \in Seq(Conversation)
      /\ outbox' = [outbox EXCEPT !["this"] = Tail(@)]
      /\ UNCHANGED <<composerVars, listVars, uploadVars, others, crashes, blobs>>
  BY DEF ServerDecides, ServerCommits, ServerRejects, TypeOK
<1>2. /\ oldest \in Conversation /\ Tail(outbox["this"]) \in Seq(Conversation)
      /\ Pending("this") = {oldest} \cup Range(Tail(outbox["this"]))
  BY <1>1, RangeTail DEF Pending
<1>3. /\ outbox' \in [{"this"} -> Seq(Conversation)]
      /\ Pending("this") = {oldest} \cup Pending("this")'
  BY <1>1, <1>2 DEF TypeOK, Pending
<1>4. \/ /\ server' = server \cup {oldest} /\ rejected' = rejected
         /\ cache' = [cache EXCEPT !["this"] = @ \cup {oldest}]
      \/ server' = server /\ cache' = cache /\ rejected' = rejected \cup {oldest}
  BY DEF ServerDecides, ServerCommits, ServerRejects
<1>. HIDE DEF oldest
<1>5. /\ server' \in SUBSET Conversation /\ rejected' \in SUBSET Conversation
      /\ cache' \in [{"this"} -> SUBSET Conversation]
      /\ \/ cache'["this"] = cache["this"] \cup {oldest}
         \/ cache'["this"] = cache["this"] /\ oldest \in rejected'
  BY <1>2, <1>4 DEF TypeOK
<1>6. TypeOK'
  BY <1>1, <1>3, <1>5 DEF TypeOK, composerVars, listVars, uploadVars
<1>7. Stored' = Stored
  BY <1>3, <1>4 DEF Stored
<1>8. Counted' /\ Dated'
  BY <1>1, <1>7, SameCounted DEF Dated, composerVars, uploadVars
<1>9. Cached'
  <2>1. CASE /\ server' = server \cup {oldest}
             /\ cache' = [cache EXCEPT !["this"] = @ \cup {oldest}]
    <3>1. cache'["this"] = cache["this"] \cup {oldest}
      BY <2>1 DEF TypeOK
    <3>. QED  BY <1>1, <1>7, <2>1, <3>1 DEF Cached, uploadVars
  <2>2. CASE UNCHANGED <<server, cache>>
    BY <1>1, <1>7, <2>2 DEF Cached, uploadVars
  <2>. QED  BY <1>4, <2>1, <2>2
<1>10. Lists' /\ Kept'
  <2>1. KnownHere \cup rejected \subseteq KnownHere' \cup rejected' /\ rejected \subseteq rejected'
    BY <1>3, <1>4, <1>5 DEF KnownHere
  <2>. QED  BY <1>1, <2>1 DEF Lists, Kept, listVars
<1>11. Complete'
  BY <1>1, <1>3, <1>4 DEF Complete, Latest, listVars, uploadVars
<1>. QED  BY <1>6, <1>8, <1>9, <1>10, <1>11

\* Another installation uploads.
LEMMA UploadedElsewhereInv ==
  ASSUME Inv, NEW title \in Title, UploadedElsewhere(title)
  PROVE  Inv'
<1>. USE DEF Inv
<1>1. PICK line \in Line :
        server' = server \cup
                  {NewConversation(FALSE, title, 0, <<line, line>>, <<line, line>>)}
  BY DEF UploadedElsewhere
<1>. DEFINE doc == NewConversation(FALSE, title, 0, <<line, line>>, <<line, line>>)
<1>2. /\ others < MaxOthers /\ others' = others + 1 /\ clock' = clock + 1
      /\ UNCHANGED <<composerVars, listVars, unanswered, color, crashes, blobs, outbox,
                     rejected, cache>>
  BY DEF UploadedElsewhere
<1>3. /\ clock \in Nat /\ others \in Nat /\ clock - others <= MaxUploads
      /\ others <= clock /\ MaxUploads \in Nat /\ MaxOthers \in Nat
  BY ConversationsAssumption DEF TypeOK, Counted
<1>4. clock + 1 \in 1 .. MaxUploads + MaxOthers
  BY <1>2, <1>3
<1>5. <<line, line>> \in Strip
  <2>1. 2 \in 0 .. MaxLines /\ <<line, line>> \in [1 .. 2 -> Line]
    BY ConversationsAssumption
  <2>. QED  BY <2>1 DEF Strip
<1>6. doc \in Conversation /\ doc.no = clock + 1 /\ ~doc.mine
  BY <1>4, <1>5 DEF NewConversation, Conversation, Number
<1>. HIDE DEF doc
<1>7. server' = server \cup {doc} /\ Stored' = Stored \cup {doc} /\ Pending("this")' = Pending("this")
  BY <1>1, <1>2 DEF Stored, Pending, doc
<1>8. TypeOK'
  BY <1>2, <1>3, <1>4, <1>6, <1>7 DEF TypeOK, composerVars, listVars
<1>9. Counted'
  BY <1>2, <1>3 DEF Counted, composerVars
<1>10. Dated'
  <2>1. \A a \in Stored : a.no \in Nat /\ a.no <= clock
    BY StoredFinite, ConversationsAssumption DEF Dated, Conversation, Number
  <2>. QED  BY <1>2, <1>3, <1>6, <1>7, <2>1 DEF Dated
<1>11. Cached'
  BY <1>2, <1>6, <1>7 DEF Cached
<1>12. Lists' /\ Kept'
  BY <1>2, SameLists, SameKept DEF listVars
<1>13. Complete'
  BY <1>2, <1>6, <1>7 DEF Complete, Latest, listVars
<1>. QED  BY <1>8, <1>9, <1>10, <1>11, <1>12, <1>13

\* The process ends; the queue and the cache survive.
LEMMA RelaunchInv ==
  ASSUME Inv, Relaunch
  PROVE  Inv'
<1>. USE DEF Inv
<1>1. /\ crashes < MaxCrashes /\ crashes' = crashes + 1
      /\ composer' = FALSE /\ strip' = <<>> /\ registerButton' = FALSE
      /\ registering' = None
      /\ fetching' = {Launch} /\ answers' = <<>> /\ missed' = FALSE
      /\ conversations' = <<>> /\ searchedConversations' = <<>> /\ player' = None
      /\ unanswered' = {}
      /\ UNCHANGED <<outbox, server, rejected, cache, color, clock, others>>
  BY DEF Relaunch, KeepOnDisk
<1>2. TypeOK'
  <2>1. /\ answers' \in Seq([by : Asker, list : Seq(Conversation)])
        /\ {conversations', searchedConversations'} \subseteq Seq(Conversation)
    BY <1>1
  <2>2. crashes' \in 0 .. MaxCrashes
    BY <1>1, ConversationsAssumption DEF TypeOK
  <2>3. fetching' \subseteq Asker
    BY <1>1 DEF Asker
  <2>. QED  BY <1>1, <2>1, <2>2, <2>3, EmptyStrip DEF TypeOK
<1>3. Stored' = Stored
  BY <1>1 DEF Stored, Pending
<1>4. Counted' /\ Dated' /\ Cached'
  BY <1>1, <1>3 DEF Counted, Dated, Cached
<1>5. Lists' /\ Kept' /\ Complete'
  BY <1>1 DEF Lists, Kept, Complete, Descending, Range
<1>. QED  BY <1>2, <1>4, <1>5

-----------------------------------------------------------------------------
\* Every step

\* Every handler and every step around the app keeps the invariant.
LEMMA NextInv == Inv /\ [Next]_vars => Inv'
<1>. SUFFICES ASSUME Inv, [Next]_vars PROVE Inv'
  OBVIOUS
<1>1. CASE Firestore
  BY <1>1, FetchReadInv, ServerDecidesInv DEF Firestore
<1>2. CASE FetchFails
  BY <1>2, FetchFailsInv
<1>3. CASE Callbacks
  BY <1>3, FetchArrivesInv, KeyboardHasLeftInv, UploadAnsweredInv DEF Callbacks
<1>4. ASSUME NEW text \in Text, didChangeText(text) PROVE Inv'
  BY <1>4, didChangeTextInv
<1>5. ASSUME NEW row \in Number, didTapStartButton(row) PROVE Inv'
  BY <1>5, didTapStartButtonInv
<1>6. CASE ClosePlayer
  BY <1>6, ClosePlayerInv
<1>7. CASE didTapCreateButton
  BY <1>7, didTapCreateButtonInv
<1>8. CASE didTapCloseButton
  BY <1>8, didTapCloseButtonInv
<1>9. ASSUME NEW line \in Line, SelectRow(line) PROVE Inv'
  BY <1>9, SelectRowInv
<1>10. ASSUME NEW title \in OwnTitle, didTapRegisterButton(title) PROVE Inv'
  BY <1>10, didTapRegisterButtonInv, ConversationsAssumption DEF ConversationsAssumption
<1>11. ASSUME NEW title \in OtherTitle, UploadedElsewhere(title) PROVE Inv'
  BY <1>11, UploadedElsewhereInv, ConversationsAssumption DEF ConversationsAssumption
<1>12. CASE Crash \/ TapRowWithoutConversation
  BY <1>12, RelaunchInv DEF Crash, TapRowWithoutConversation
<1>13. CASE UNCHANGED vars
  <2>1. TypeOK'
    BY <1>13
    DEF Inv, TypeOK, vars, composerVars, listVars, uploadVars, firestoreVars
  <2>2. Counted' /\ Dated' /\ Cached' /\ Lists' /\ Kept' /\ Complete'
    BY <1>13, SameCounted, SameDated, SameCached, SameLists, SameKept,
       SameComplete
    DEF Inv, vars, composerVars, listVars, uploadVars, firestoreVars
  <2>. QED  BY <2>1, <2>2 DEF Inv
<1>. QED
  BY <1>1, <1>2, <1>3, <1>4, <1>5, <1>6, <1>7, <1>8, <1>9, <1>10, <1>11, <1>12, <1>13
  DEF Next

\* So it holds throughout.
LEMMA Invariant == Spec => []Inv
BY InitInv, NextInv, PTL DEF Spec

\* Type correctness: in particular the time stamps and the colors stay in range.
THEOREM TypeCorrect == Spec => []TypeOK
<1>1. Inv => TypeOK  BY DEF Inv
<1>. QED  BY <1>1, Invariant, PTL

\* When every fetch was answered, the list has every conversation whose upload this
\* process was told of and those that were uploaded before it was launched.
THEOREM CompleteCorrect == Spec => []ListIsComplete
<1>1. Inv => ListIsComplete
  <2>. SUFFICES ASSUME Inv, ~missed, fetching = {}, answers = <<>>,
                       NEW doc \in server \ unanswered, doc.mine
                PROVE  doc \in Range(conversations)
    BY DEF ListIsComplete
  <2>. QED  BY DEF Inv, Complete, Latest
<1>. QED  BY <1>1, Invariant, PTL

\* The filtered list is longer than the list itself only after an upload was
\* refused that had been listed while it was queued.
THEOREM LongerCorrect == Spec => []LongerOnlyAfterRefusal
<1>1. Inv => LongerOnlyAfterRefusal
  <2>. SUFFICES ASSUME Inv,
                       \A i \in DOMAIN searchedConversations :
                         searchedConversations[i] \notin rejected
                PROVE  ~(Len(searchedConversations) > Len(conversations))
    BY DEF LongerOnlyAfterRefusal
  <2>1. Range(searchedConversations) \subseteq Range(conversations)
    BY DEF Inv, Lists, Range
  <2>2. /\ searchedConversations \in Seq(Conversation) /\ Descending(searchedConversations)
        /\ conversations \in Seq(Conversation) /\ Descending(conversations)
    BY DEF Inv, Lists, TypeOK
  <2>3. Len(searchedConversations) <= Len(conversations)
    BY <2>1, <2>2, NotLonger
  <2>. QED  BY <2>2, <2>3
<1>. QED  BY <1>1, Invariant, PTL

\* A row of the filtered list opens no conversation that is older than the one it
\* shows, unless an upload was refused.  If it did, all the rows down to it would be
\* among those above it in the other list, which are fewer (NotLonger).
THEOREM OpensCorrect == Spec => []OpensNoOlder
<1>1. Inv => OpensNoOlder
  <2>. SUFFICES ASSUME Inv,
                       NEW row \in DOMAIN searchedConversations \cap DOMAIN conversations,
                       conversations[row].no < searchedConversations[row].no,
                       \A i \in DOMAIN searchedConversations :
                         searchedConversations[i] \notin rejected
                PROVE  FALSE
    BY DEF OpensNoOlder
  <2>. DEFINE f == searchedConversations
              c == conversations
              s == [i \in 1 .. row |-> f[i]]
              t == [i \in 1 .. row - 1 |-> c[i]]
  <2>1. /\ f \in Seq(Conversation) /\ Descending(f) /\ DOMAIN f = 1 .. Len(f) /\ Len(f) \in Nat
        /\ c \in Seq(Conversation) /\ Descending(c) /\ DOMAIN c = 1 .. Len(c) /\ Len(c) \in Nat
        /\ row \in 1 .. Len(f) /\ row \in 1 .. Len(c) /\ c[row].no < f[row].no
    BY DEF Inv, Lists, TypeOK
  <2>2. \A i \in DOMAIN f : \E k \in DOMAIN c : c[k] = f[i]
    BY DEF Inv, Lists, Range
  <2>. HIDE DEF f, c
  <2>3. /\ \A i \in 1 .. Len(f) : f[i] \in Conversation /\ f[i].no \in Nat
        /\ \A i \in 1 .. Len(c) : c[i] \in Conversation /\ c[i].no \in Nat
    <3>1. \A a \in Conversation : a.no \in Nat
      BY ConversationsAssumption DEF Conversation, Number
    <3>2. /\ \A i \in 1 .. Len(f) : f[i] \in Conversation
          /\ \A i \in 1 .. Len(c) : c[i] \in Conversation
      BY <2>1, ElementOfSeq
    <3>. QED  BY <3>1, <3>2
  <2>4. /\ s \in Seq(Conversation) /\ Len(s) = row /\ DOMAIN s = 1 .. row
        /\ t \in Seq(Conversation) /\ Len(t) = row - 1 /\ DOMAIN t = 1 .. row - 1
    <3>1. row \in Nat /\ row - 1 \in Nat
      BY <2>1
    <3>2. /\ \A i \in 1 .. row : f[i] \in Conversation
          /\ \A i \in 1 .. row - 1 : c[i] \in Conversation
      BY <2>1, <2>3
    <3>3. s \in Seq(Conversation) /\ t \in Seq(Conversation)
      BY <3>1, <3>2, IsASeq
    <3>. QED  BY <3>1, <3>3
  <2>5. Descending(s) /\ Descending(t)
    <3>1. ASSUME NEW i \in 1 .. row, NEW j \in 1 .. row, i < j PROVE s[i].no > s[j].no
      <4>1. i \in 1 .. Len(f) /\ j \in 1 .. Len(f)
        BY <2>1
      <4>2. f[i].no > f[j].no
        BY <2>1, <3>1, <4>1 DEF Descending
      <4>. QED  BY <4>2
    <3>2. ASSUME NEW i \in 1 .. row - 1, NEW j \in 1 .. row - 1, i < j PROVE t[i].no > t[j].no
      <4>1. i \in 1 .. Len(c) /\ j \in 1 .. Len(c)
        BY <2>1
      <4>2. c[i].no > c[j].no
        BY <2>1, <3>2, <4>1 DEF Descending
      <4>. QED  BY <4>2
    <3>. HIDE DEF s, t
    <3>. QED  BY <2>4, <3>1, <3>2 DEF Descending
  <2>6. Range(s) \subseteq Range(t)
    <3>. SUFFICES ASSUME NEW i \in 1 .. row PROVE f[i] \in Range(t)
      BY <2>4 DEF Range
    <3>1. i \in 1 .. Len(f) /\ f[i].no >= f[row].no
      <4>1. i \in 1 .. Len(f) /\ (i = row \/ i < row)
        BY <2>1
      <4>2. i < row => f[i].no > f[row].no
        BY <2>1, <4>1 DEF Descending
      <4>. QED  BY <2>1, <2>3, <4>1, <4>2
    <3>2. PICK k \in 1 .. Len(c) : c[k] = f[i]
      BY <2>1, <2>2, <3>1
    <3>3. c[k].no > c[row].no
      BY <2>1, <2>3, <3>1, <3>2
    <3>4. k < row
      <4>1. row < k => c[row].no > c[k].no
        BY <2>1 DEF Descending
      <4>2. c[k].no \in Nat /\ c[row].no \in Nat /\ k \in Nat /\ row \in Nat
        BY <2>1, <2>3
      <4>3. k # row /\ ~(row < k)
        BY <3>3, <4>1, <4>2
      <4>. QED  BY <4>2, <4>3
    <3>5. k \in 1 .. row - 1 /\ t[k] = f[i]
      BY <2>1, <3>2, <3>4
    <3>. QED  BY <2>4, <3>5 DEF Range
  <2>. HIDE DEF s, t
  <2>7. Len(s) <= Len(t)
    BY <2>4, <2>5, <2>6, NotLonger
  <2>. QED  BY <2>1, <2>4, <2>7
<1>. QED  BY <1>1, Invariant, PTL

\* No answer takes a conversation off the list that an earlier one has put there,
\* unless the server has refused it, as long as the process lives.
THEOREM ListKeepsCorrect == Spec => ListKeepsWhatItShowed
<1>1. Inv /\ [Next]_vars =>
        [crashes' = crashes => Range(conversations) \ rejected \subseteq Range(conversations')]_vars
  <2>. SUFFICES ASSUME Inv, Next, crashes' = crashes
                PROVE  Range(conversations) \ rejected \subseteq Range(conversations')
    OBVIOUS
  <2>1. CASE FetchArrives
    <3>1. 1 \in DOMAIN answers /\ conversations' = answers[1].list
      BY <2>1 DEF FetchArrives, Inv, TypeOK
    <3>. QED  BY <3>1 DEF Inv, Kept
  <2>2. ~Relaunch
    BY DEF Relaunch, Inv, TypeOK
  <2>3. CASE ~FetchArrives
    <3>1. conversations' = conversations
      BY <2>2, <2>3
      DEF Next, Firestore, Callbacks, FetchRead, FetchFails, ServerDecides, KeyboardHasLeft,
          UploadAnswered, didChangeText, didTapStartButton, ClosePlayer, didTapCreateButton,
          didTapCloseButton, SelectRow, didTapRegisterButton, UploadedElsewhere, Crash,
          TapRowWithoutConversation, listVars
    <3>. QED  BY <3>1
  <2>. QED  BY <2>1, <2>3
<1>. QED  BY <1>1, Invariant, PTL DEF Spec, ListKeepsWhatItShowed

=============================================================================
