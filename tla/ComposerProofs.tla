---------------------------- MODULE ComposerProofs ----------------------------
(***************************************************************************)
(* Proofs about the composer, for any characters, lines and registrations. *)
(*                                                                         *)
(* RowsAreTrue is inductive by itself: a handler either reloads the table  *)
(* after it has changed the lines, or leaves both alone, or empties the    *)
(* labels of the rows whose lines it takes away.                           *)
(*                                                                         *)
(* That the list offers nobody twice rests on what the closures of the     *)
(* register pages hold, and that on the collection itself: a character is  *)
(* published when its registration leaves the state "working", so no one   *)
(* on the server is still to be published, and every copy of the           *)
(* collection a closure or the list ever took has everyone at most once.   *)
(*                                                                         *)
(* What filter returns is proved here too: it is a recursive function, and *)
(* that such a function exists is shown by the least length at which there *)
(* would be none.                                                          *)
(***************************************************************************)
EXTENDS Composer, SequenceTheorems, WellFoundedInduction, NaturalsInduction, TLAPS

-----------------------------------------------------------------------------
\* The table

\* A table that was just reloaded shows its lines.
LEMMA ReloadTrue ==
  ASSUME Reload
  PROVE  RowsAreTrue'
BY DEF Reload, RowsAreTrue

\* A handler that touches neither the lines nor the table.
LEMMA TableKept ==
  ASSUME RowsAreTrue, UNCHANGED <<selectedDialogues, rows>>
  PROVE  RowsAreTrue'
BY DEF RowsAreTrue

\* defaultUI, whether it comes to its end or returns early.
LEMMA OpenAgainTrue ==
  ASSUME RowsAreTrue, OpenAgain
  PROVE  RowsAreTrue'
<1>1. ASSUME NEW n \in DOMAIN selectedDialogues,
             EmptyLabels(1 .. n - 1), UNCHANGED selectedDialogues
      PROVE  RowsAreTrue'
  BY <1>1 DEF EmptyLabels, RowsAreTrue
<1>2. ASSUME EmptyLabels(DOMAIN selectedDialogues), selectedDialogues' = <<>>
      PROVE  RowsAreTrue'
  <2>1. \A i \in DOMAIN rows' : rows'[i] = Blank
    BY <1>2 DEF EmptyLabels, RowsAreTrue
  <2>. QED  BY <2>1 DEF RowsAreTrue
<1>. QED  BY <1>1, <1>2 DEF OpenAgain

LEMMA NextTrue == RowsAreTrue /\ [Next]_vars => RowsAreTrue'
<1>. SUFFICES ASSUME RowsAreTrue, [Next]_vars PROVE RowsAreTrue'
  OBVIOUS
<1>1. CASE fetchCharacters
  BY <1>1, TableKept DEF fetchCharacters, selection
<1>2. CASE fetchDialogues
  BY <1>2, TableKept DEF fetchDialogues, selection
<1>3. CASE Dismiss
  BY <1>3, TableKept DEF Dismiss, selection
<1>4. CASE OpenAgain
  BY <1>4, OpenAgainTrue
<1>5. ASSUME NEW c \in Character, selectCharacter(c) PROVE RowsAreTrue'
  BY <1>5, ReloadTrue DEF selectCharacter, updateDialogues
<1>6. ASSUME NEW c \in Character, RegisterCharacter(c) \/ CharactersRead(c)
      PROVE  RowsAreTrue'
  BY <1>6, TableKept DEF RegisterCharacter, CharactersRead, selection
<1>7. ASSUME NEW c \in Character, CharacterRegistered(c) PROVE RowsAreTrue'
  BY <1>7, ReloadTrue DEF CharacterRegistered, updateCharacter
<1>8. ASSUME NEW l \in Line, RegisterLine(l) PROVE RowsAreTrue'
  BY <1>8, TableKept DEF RegisterLine, selection
<1>9. ASSUME NEW l \in Line, LineRegistered(l) PROVE RowsAreTrue'
  BY <1>9, ReloadTrue DEF LineRegistered, updateDialogues
<1>10. ASSUME NEW i \in DOMAIN rows, SelectRow(i) \/ SelectMissingRow(i)
       PROVE  RowsAreTrue'
  BY <1>10, TableKept DEF SelectRow, SelectMissingRow, selection
<1>11. CASE UNCHANGED vars
  BY <1>11, TableKept DEF vars, selection
<1>. QED
  BY <1>1, <1>2, <1>3, <1>4, <1>5, <1>6, <1>7, <1>8, <1>9, <1>10, <1>11 DEF Next

\* A row that shows a line is that line: whatever registrations answer and however
\* often the composer is left and opened, a tap picks what the row shows.
THEOREM RowsCorrect == Spec => []RowsAreTrue
<1>1. Init => RowsAreTrue  BY DEF Init, RowsAreTrue
<1>. QED  BY <1>1, NextTrue, PTL DEF Spec

-----------------------------------------------------------------------------
\* filter

\* A set of numbers has a least one.
LEMMA LeastNumber ==
  ASSUME NEW T, T \subseteq Nat, T # {}
  PROVE \E x \in T : \A y \in T : x <= y
  <1> DEFINE R == OpToRel(<, Nat)
  <1>1. \E x \in T : \A y \in T : ~(<<y, x>> \in R)
    <2>1. IsWellFoundedOn(R, Nat)
      BY NatLessThanWellFounded
    <2> HIDE DEF R
    <2> QED BY <2>1, WFMin
  <1>2. \A x, y \in Nat : y < x => <<y, x>> \in R
    BY DEF OpToRel
  <1>3. PICK x \in T : \A y \in T : ~(<<y, x>> \in R)
    BY <1>1
  <1> HIDE DEF R
  <1>4. \A y \in T : ~(y < x)
    BY <1>2, <1>3
  <1> QED BY <1>4

\* One step of filter: before is what it has taken of the entries in front of n.
Taken(s, wanted, before, n) ==
  IF s[n] \in wanted THEN Append(before, s[n]) ELSE before

\* The function behind filter exists (there is no least length without one), so it
\* is what its definition says.
LEMMA FilterSteps ==
  ASSUME NEW S, NEW s \in Seq(S), NEW wanted
  PROVE  \E f : /\ f[0] = <<>>
                /\ \A n \in 1 .. Len(s) : f[n] = Taken(s, wanted, f[n - 1], n)
                /\ Filter(s, wanted) = f[Len(s)]
<1>. DEFINE Rec(f, m) == f = [n \in 0 .. m |-> IF n = 0 THEN <<>>
                                               ELSE Taken(s, wanted, f[n - 1], n)]
            Missing == {m \in Nat : ~ \E f : Rec(f, m)}
<1>1. Missing = {}
  <2>. SUFFICES ASSUME Missing # {} PROVE FALSE
    OBVIOUS
  <2>1. PICK m \in Missing : \A k \in Missing : m <= k
    BY LeastNumber
  <2>2. m # 0
    <3>1. Rec([n \in 0 .. 0 |-> <<>>], 0)
      OBVIOUS
    <3>. QED  BY <3>1, <2>1
  <2>3. m - 1 \in Nat /\ m - 1 \notin Missing
    BY <2>1, <2>2
  <2>4. PICK g : Rec(g, m - 1)
    BY <2>3
  <2>. DEFINE h == [n \in 0 .. m |-> IF n = m THEN Taken(s, wanted, g[m - 1], m) ELSE g[n]]
  <2>5. Rec(h, m)
    <3>1. \A n \in 0 .. m - 1 : h[n] = g[n]
      BY <2>1
    <3>2. \A n \in 0 .. m - 1 : g[n] = IF n = 0 THEN <<>> ELSE Taken(s, wanted, g[n - 1], n)
      BY <2>3, <2>4
    <3>3. \A n \in 0 .. m : h[n] = IF n = 0 THEN <<>> ELSE Taken(s, wanted, h[n - 1], n)
      <4>. SUFFICES ASSUME NEW n \in 0 .. m
                    PROVE  h[n] = IF n = 0 THEN <<>> ELSE Taken(s, wanted, h[n - 1], n)
        OBVIOUS
      <4>1. CASE n = m
        <5>1. m - 1 \in 0 .. m - 1
          BY <2>3
        <5>2. h[m] = Taken(s, wanted, g[m - 1], m)
          BY <2>1
        <5>. QED  BY <2>2, <3>1, <4>1, <5>1, <5>2
      <4>2. CASE n # m
        <5>1. n \in 0 .. m - 1 /\ (n # 0 => n - 1 \in 0 .. m - 1)
          BY <2>1, <4>2
        <5>. HIDE DEF h
        <5>. QED  BY <3>1, <3>2, <5>1
      <4>. QED  BY <4>1, <4>2
    <3>. QED  BY <3>3
  <2>. QED  BY <2>1, <2>5
<1>2. Len(s) \in Nat
  BY LenProperties
<1>3. \E f : Rec(f, Len(s))
  BY <1>1, <1>2
<1>4. Filter(s, wanted) = (CHOOSE f : Rec(f, Len(s)))[Len(s)]
  BY DEF Filter, Taken
<1>. DEFINE g == CHOOSE f : Rec(f, Len(s))
<1>5. Rec(g, Len(s))
  BY <1>3
<1>6. Filter(s, wanted) = g[Len(s)]
  BY <1>4
<1>. HIDE DEF g
<1>7. g[0] = <<>> /\ \A n \in 1 .. Len(s) : g[n] = Taken(s, wanted, g[n - 1], n)
  BY <1>2, <1>5
<1>. QED  BY <1>6, <1>7

\* filter returns entries of s that are in wanted.
LEMMA FilterProperties ==
  ASSUME NEW S, NEW s \in Seq(S), NEW wanted
  PROVE  /\ Filter(s, wanted) \in Seq(S)
         /\ \A i \in DOMAIN Filter(s, wanted) : Filter(s, wanted)[i] \in wanted
<1>. DEFINE Good(q) == q \in Seq(S) /\ \A i \in 1 .. Len(q) : q[i] \in wanted
<1>1. PICK f : /\ f[0] = <<>>
               /\ \A n \in 1 .. Len(s) : f[n] = Taken(s, wanted, f[n - 1], n)
               /\ Filter(s, wanted) = f[Len(s)]
  BY FilterSteps
<1>. DEFINE Bad == {n \in 0 .. Len(s) : ~Good(f[n])}
<1>2. Good(f[0])
  BY <1>1
<1>3. ASSUME NEW n \in 1 .. Len(s), Good(f[n - 1])
      PROVE  Good(f[n])
  <2>1. s[n] \in S /\ f[n] = Taken(s, wanted, f[n - 1], n)
    BY <1>1
  <2>2. CASE s[n] \in wanted
    <3>. DEFINE q == f[n - 1]
    <3>1. f[n] = Append(q, s[n])
      BY <2>1, <2>2 DEF Taken
    <3>2. q \in Seq(S) /\ \A i \in 1 .. Len(q) : q[i] \in wanted
      BY <1>3
    <3>. HIDE DEF q
    <3>3. Append(q, s[n]) \in Seq(S) /\ Len(Append(q, s[n])) = Len(q) + 1
      BY <2>1, <3>2
    <3>4. \A i \in 1 .. Len(q) + 1 : Append(q, s[n])[i] \in wanted
      BY <2>1, <2>2, <3>2
    <3>. QED  BY <3>1, <3>3, <3>4
  <2>3. CASE s[n] \notin wanted
    BY <1>3, <2>1, <2>3 DEF Taken
  <2>. QED  BY <2>2, <2>3
<1>. HIDE DEF Good
<1>4. Bad = {}
  <2>. SUFFICES ASSUME Bad # {} PROVE FALSE
    OBVIOUS
  <2>0. Bad \subseteq Nat
    OBVIOUS
  <2>1. PICK n \in Bad : \A k \in Bad : n <= k
    BY <2>0, LeastNumber
  <2>2. n \in 1 .. Len(s)
    BY <1>2, <2>1
  <2>3. n - 1 \in 0 .. Len(s) /\ n - 1 \notin Bad
    BY <2>1, <2>2
  <2>. QED  BY <1>3, <2>1, <2>2, <2>3
<1>5. Len(s) \in 0 .. Len(s)
  <2>1. Len(s) \in Nat
    OBVIOUS
  <2>. QED  BY <2>1
<1>6. Good(Filter(s, wanted))
  BY <1>1, <1>4, <1>5
<1>. QED  BY <1>6 DEF Good
-----------------------------------------------------------------------------
\* The lines on offer and the list of characters

\* A collection after a write is a collection.
LEMMA PublishedType ==
  ASSUME NEW S, NEW q \in Seq(S), NEW x \in S, NEW p \in Published(q, x)
  PROVE  p \in Seq(S)
<1>1. <<x>> \in Seq(S)
  OBVIOUS
<1>2. <<x>> \o q \in Seq(S)
  BY <1>1, ConcatProperties
<1>. QED  BY <1>2 DEF Published

\* The rows of a character: lines, and all of them that character's.
LEMMA LinesOfType ==
  ASSUME NEW ls \in Seq(Line), NEW c
  PROVE  /\ LinesOf(ls, c) \in Seq(Line)
         /\ \A i \in DOMAIN LinesOf(ls, c) : CharacterOf[LinesOf(ls, c)[i]] = c
<1>. DEFINE wanted == {l \in Line : CharacterOf[l] = c}
<1>1. /\ Filter(ls, wanted) \in Seq(Line)
      /\ \A i \in DOMAIN Filter(ls, wanted) : Filter(ls, wanted)[i] \in wanted
  BY FilterProperties
<1>2. LinesOf(ls, c) = Filter(ls, wanted)
  BY DEF LinesOf
<1>. QED  BY <1>1, <1>2

\* A reloaded table shows lines.
LEMMA ReloadType ==
  ASSUME selectedDialogues' \in Seq(Line), Reload
  PROVE  rows' \in Seq(Line \cup {Blank})
<1>1. Seq(Line) \subseteq Seq(Line \cup {Blank})
  <2>. SUFFICES ASSUME NEW q \in Seq(Line) PROVE q \in Seq(Line \cup {Blank})
    OBVIOUS
  <2>. QED  OBVIOUS
<1>. QED  BY <1>1 DEF Reload

\* updateDialogues puts the lines of one character on offer.
LEMMA updateDialoguesType ==
  ASSUME NEW ls, ls \in Seq(Line), NEW c, updateDialogues(ls, c)
  PROVE  /\ selectedDialogues' \in Seq(Line)
         /\ rows' \in Seq(Line \cup {Blank})
         /\ OneCharacterAtATime'
<1>1. selectedDialogues' = LinesOf(ls, c)
  BY DEF updateDialogues
<1>2. selectedDialogues' \in Seq(Line)
  BY <1>1, LinesOfType
<1>3. OneCharacterAtATime'
  <2>. DEFINE q == LinesOf(ls, c)
  <2>1. \A i \in DOMAIN q : CharacterOf[q[i]] = c
    BY LinesOfType
  <2>. HIDE DEF q
  <2>2. selectedDialogues' = q
    BY <1>1 DEF q
  <2>. QED  BY <2>1, <2>2 DEF OneCharacterAtATime
<1>. QED  BY <1>2, <1>3, ReloadType DEF updateDialogues

\* updateCharacter offers one line, or leaves the lines on offer as they were.
LEMMA updateCharacterType ==
  ASSUME TypeOK, OneCharacterAtATime,
         NEW cs \in Seq(Character), NEW ls \in Seq(Line), updateCharacter(cs, ls)
  PROVE  /\ listed' = cs /\ dialogues' = ls
         /\ selectedCharacter' \in Character \cup {None}
         /\ selectedDialogues' \in Seq(Line)
         /\ rows' \in Seq(Line \cup {Blank})
         /\ OneCharacterAtATime'
<1>. DEFINE wanted == {l \in Line : cs # <<>> /\ NameOf[CharacterOf[l]] = NameOf[Head(cs)]}
            sameName == Filter(ls, wanted)
<1>1. sameName \in Seq(Line)
  BY FilterProperties
<1>2. /\ selectedDialogues' = IF sameName = <<>> THEN selectedDialogues
                              ELSE <<sameName[Len(sameName)]>>
      /\ listed' = cs /\ dialogues' = ls /\ Reload
      /\ selectedCharacter' = IF cs = <<>> THEN None ELSE Head(cs)
  BY DEF updateCharacter, ReplaceList, SelectFirst
<1>3. selectedCharacter' \in Character \cup {None}
  BY <1>2
<1>. HIDE DEF sameName
<1>4. CASE sameName = <<>>
  BY <1>2, <1>3, <1>4, ReloadType DEF TypeOK, OneCharacterAtATime
<1>5. CASE sameName # <<>>
  <2>1. sameName[Len(sameName)] \in Line
    BY <1>1, <1>5
  <2>2. selectedDialogues' = <<sameName[Len(sameName)]>>
    BY <1>2, <1>5
  <2>3. selectedDialogues' \in Seq(Line) /\ OneCharacterAtATime'
    BY <2>1, <2>2 DEF OneCharacterAtATime
  <2>. QED  BY <1>2, <1>3, <2>3, ReloadType
<1>. QED  BY <1>4, <1>5

\* defaultUI leaves the lines on offer or takes them all away.
LEMMA OpenAgainType ==
  ASSUME TypeOK, OneCharacterAtATime, OpenAgain
  PROVE  /\ selectedCharacter' \in Character \cup {None}
         /\ selectedDialogues' \in Seq(Line)
         /\ rows' \in Seq(Line \cup {Blank})
         /\ OneCharacterAtATime'
<1>1. ASSUME NEW emptied, EmptyLabels(emptied)
      PROVE  rows' \in Seq(Line \cup {Blank})
  <2>1. Len(rows) \in Nat /\ DOMAIN rows = 1 .. Len(rows)
    BY DEF TypeOK
  <2>2. rows' \in [1 .. Len(rows) -> Line \cup {Blank}]
    BY <1>1, <2>1 DEF EmptyLabels, TypeOK
  <2>. QED  BY <2>1, <2>2, SeqDef
<1>2. CASE /\ \E n \in DOMAIN selectedDialogues : EmptyLabels(1 .. n - 1)
           /\ UNCHANGED <<selectedCharacter, selectedDialogues>>
  BY <1>1, <1>2 DEF TypeOK, OneCharacterAtATime
<1>3. CASE /\ EmptyLabels(DOMAIN selectedDialogues) /\ selectedCharacter' = None
           /\ selectedDialogues' = <<>>
  BY <1>1, <1>3 DEF OneCharacterAtATime
<1>. QED  BY <1>2, <1>3 DEF OpenAgain

\* No entry twice.
NoneTwice(s) == \A i, j \in DOMAIN s : s[i] = s[j] => i = j

\* The inductive invariant.
Inv ==
  /\ TypeOK
  /\ OneCharacterAtATime
  /\ NoneTwice(chars)
  /\ \A i \in DOMAIN chars : stage[chars[i]] \in {"read", "over"}
  /\ \A c \in Character : NoneTwice(seen[c])
  /\ OfferedOnce

\* A character whose writes are decided now is on the server at most once.
LEMMA PublishedOnce ==
  ASSUME NEW q \in Seq(Character), NEW c \in Character, NEW p \in Published(q, c),
         NoneTwice(q), \A i \in DOMAIN q : q[i] # c
  PROVE  /\ NoneTwice(p)
         /\ \A i \in DOMAIN p : p[i] = c \/ \E j \in DOMAIN q : p[i] = q[j]
<1>1. CASE p = q
  BY <1>1
<1>2. CASE p = <<c>> \o q
  <2>1. <<c>> \in Seq(Character) /\ Len(<<c>>) = 1 /\ <<c>>[1] = c
    OBVIOUS
  <2>3. /\ Len(<<c>> \o q) = Len(<<c>>) + Len(q)
        /\ \A i \in 1 .. Len(<<c>>) + Len(q) :
             (<<c>> \o q)[i] = IF i <= Len(<<c>>) THEN <<c>>[i] ELSE q[i - Len(<<c>>)]
    BY <2>1, ConcatProperties
  <2>4. Len(p) = Len(q) + 1 /\ p[1] = c /\ \A i \in 2 .. Len(p) : p[i] = q[i - 1]
    BY <1>2, <2>1, <2>3
  <2>2. p \in Seq(Character)
    BY PublishedType
  <2>5. \A i \in 1 .. Len(p) : i = 1 \/ i - 1 \in 1 .. Len(q)
    BY <2>4
  <2>6. DOMAIN p = 1 .. Len(p) /\ DOMAIN q = 1 .. Len(q)
    BY <2>2
  <2>7. \A i \in DOMAIN p : i # 1 => i - 1 \in DOMAIN q /\ p[i] = q[i - 1] /\ p[i] # c
    BY <2>4, <2>5, <2>6
  <2>8. ASSUME NEW i \in DOMAIN p, NEW j \in DOMAIN p, p[i] = p[j] PROVE i = j
    <3>1. CASE i # 1 /\ j # 1
      BY <2>6, <2>7, <2>8, <3>1 DEF NoneTwice
    <3>2. CASE i = 1 \/ j = 1
      BY <2>4, <2>7, <2>8, <3>2
    <3>. QED  BY <3>1, <3>2
  <2>. QED  BY <2>4, <2>7, <2>8 DEF NoneTwice
<1>. QED  BY <1>1, <1>2 DEF Published

\* The composer is opened for the first time.
LEMMA InitInv == Init => Inv
<1>. SUFFICES ASSUME Init PROVE Inv
  OBVIOUS
<1>. USE ComposerAssumption
<1>1. lines \in Seq(Line)
  <2>1. Len(Early) \in Nat /\ DOMAIN Early = 1 .. Len(Early)
    OBVIOUS
  <2>2. \A i \in 1 .. Len(Early) : FirstLine[Early[i]] \in Line
    OBVIOUS
  <2>3. lines = [i \in 1 .. Len(Early) |-> FirstLine[Early[i]]]
    BY <2>1 DEF Init
  <2>4. lines \in [1 .. Len(Early) -> Line]
    BY <2>2, <2>3
  <2>. QED  BY <2>1, <2>4, SeqDef
<1>2. TypeOK
  <2>1. stage \in [Registrations -> {"new", "working", "read", "over"}]
    BY DEF Init
  <2>2. seen \in [Character -> Seq(Character)]
    BY DEF Init
  <2>3. chars \in Seq(Character) /\ listed \in Seq(Character)
    BY DEF Init
  <2>4. /\ screen \in {"hidden", "composer", "ended"} \cup Registrations
        /\ asked \subseteq {"characters", "dialogues"} /\ late \in BOOLEAN
        /\ selectedCharacter \in Character \cup {None} /\ picked \in Line \cup {None}
    BY DEF Init
  <2>5. /\ dialogues \in Seq(Line) /\ selectedDialogues \in Seq(Line)
        /\ rows \in Seq(Line \cup {Blank})
    BY DEF Init
  <2>. QED  BY <1>1, <2>1, <2>2, <2>3, <2>4, <2>5 DEF TypeOK
<1>3. \A i \in DOMAIN chars : stage[chars[i]] \in {"read", "over"}
  BY DEF Init, EarlyOnes, Registrations
<1>4. \A c \in Character : NoneTwice(seen[c])
  BY DEF Init, NoneTwice
<1>5. NoneTwice(chars)
  BY DEF Init, NoneTwice
<1>6. OneCharacterAtATime /\ OfferedOnce
  BY DEF Init, OneCharacterAtATime, OfferedOnce
<1>. QED  BY <1>2, <1>3, <1>4, <1>5, <1>6 DEF Inv

\* Every handler keeps the invariant.
LEMMA NextInv == Inv /\ [Next]_vars => Inv'
<1>. SUFFICES ASSUME Inv, [Next]_vars PROVE Inv'
  OBVIOUS
<1>. USE DEF Inv
<1>1. CASE fetchCharacters
  <2>1. listed' \in Seq(Character) /\ late' \in BOOLEAN
    BY <1>1 DEF fetchCharacters, TypeOK
  <2>2. OfferedOnce'
    <3>1. CASE listed = <<>>
      BY <1>1, <3>1 DEF fetchCharacters, OfferedOnce, NoneTwice, TypeOK
    <3>2. CASE listed # <<>>
      BY <1>1, <3>2 DEF fetchCharacters, OfferedOnce
    <3>. QED  BY <3>1, <3>2
  <2>. QED
    BY <1>1, <2>1, <2>2
    DEF fetchCharacters, TypeOK, OneCharacterAtATime, catalogue, selection
<1>2. CASE fetchDialogues
  BY <1>2 DEF fetchDialogues, TypeOK, OneCharacterAtATime, OfferedOnce, catalogue, selection
<1>3. CASE Dismiss
  BY <1>3 DEF Dismiss, TypeOK, OneCharacterAtATime, OfferedOnce, catalogue, selection
<1>4. CASE OpenAgain
  BY <1>4, OpenAgainType DEF OpenAgain, TypeOK, OfferedOnce, catalogue
<1>5. ASSUME NEW c \in Character, selectCharacter(c) PROVE Inv'
  BY <1>5, updateDialoguesType DEF selectCharacter, TypeOK, OfferedOnce, catalogue
<1>6. ASSUME NEW c \in Character, RegisterCharacter(c) PROVE Inv'
  <2>1. stage' \in [Registrations -> {"new", "working", "read", "over"}] /\ screen' = c
    BY <1>6 DEF RegisterCharacter, TypeOK, Registrations
  <2>2. \A i \in DOMAIN chars : stage'[chars[i]] \in {"read", "over"}
    BY <1>6 DEF RegisterCharacter, TypeOK, Registrations
  <2>. QED
    BY <1>6, <2>1, <2>2
    DEF RegisterCharacter, TypeOK, OneCharacterAtATime, OfferedOnce, Registrations,
        catalogue, selection
<1>7. ASSUME NEW c \in Character, CharactersRead(c) PROVE Inv'
  <2>1. /\ chars' \in Published(chars, c) /\ lines' \in Published(lines, FirstLine[c])
        /\ stage' = [stage EXCEPT ![c] = "read"]
        /\ seen' = [seen EXCEPT ![c] = chars']
        /\ stage[c] = "working"
        /\ UNCHANGED <<screen, asked, late, listed, dialogues, selection>>
    BY <1>7 DEF CharactersRead
  <2>2. chars' \in Seq(Character) /\ lines' \in Seq(Line)
    BY <2>1, PublishedType, ComposerAssumption DEF TypeOK
  <2>3. stage' \in [Registrations -> {"new", "working", "read", "over"}]
    BY <2>1 DEF TypeOK, Registrations
  <2>4. \A i \in DOMAIN chars : chars[i] # c
    BY <2>1
  <2>5. NoneTwice(chars') /\ \A i \in DOMAIN chars' :
                               chars'[i] = c \/ \E j \in DOMAIN chars : chars'[i] = chars[j]
    BY <2>1, <2>4, PublishedOnce DEF TypeOK
  <2>6. \A i \in DOMAIN chars' : stage'[chars'[i]] \in {"read", "over"}
    BY <2>1, <2>2, <2>5 DEF TypeOK, Registrations
  <2>7. seen' \in [Character -> Seq(Character)] /\ \A d \in Character : NoneTwice(seen'[d])
    BY <2>1, <2>2, <2>5 DEF TypeOK
  <2>. QED
    BY <2>1, <2>2, <2>3, <2>5, <2>6, <2>7
    DEF TypeOK, OneCharacterAtATime, OfferedOnce, selection
<1>8. ASSUME NEW c \in Character, CharacterRegistered(c) PROVE Inv'
  <2>1. /\ updateCharacter(seen[c], lines) /\ late' = FALSE
        /\ stage' = [stage EXCEPT ![c] = "over"]
        /\ UNCHANGED <<catalogue, seen, asked, picked>>
        /\ screen' \in {screen, "composer"}
    BY <1>8 DEF CharacterRegistered, PopPage
  <2>2. seen[c] \in Seq(Character) /\ lines \in Seq(Line)
    BY DEF TypeOK
  <2>3. /\ listed' = seen[c] /\ dialogues' = lines
        /\ selectedCharacter' \in Character \cup {None}
        /\ selectedDialogues' \in Seq(Line)
        /\ rows' \in Seq(Line \cup {Blank})
        /\ OneCharacterAtATime'
    BY <2>1, <2>2, updateCharacterType
  <2>4. stage' \in [Registrations -> {"new", "working", "read", "over"}]
    BY <2>1 DEF TypeOK, Registrations
  <2>5. \A i \in DOMAIN chars' : stage'[chars'[i]] \in {"read", "over"}
    BY <2>1 DEF TypeOK, Registrations, catalogue
  <2>6. OfferedOnce'
    BY <2>3 DEF OfferedOnce, NoneTwice
  <2>. QED
    BY <2>1, <2>2, <2>3, <2>4, <2>5, <2>6 DEF TypeOK, catalogue
<1>9. ASSUME NEW l \in Line, RegisterLine(l) PROVE Inv'
  <2>1. stage' \in [Registrations -> {"new", "working", "read", "over"}] /\ screen' = l
    BY <1>9 DEF RegisterLine, TypeOK, Registrations
  <2>2. \A i \in DOMAIN chars : stage'[chars[i]] \in {"read", "over"}
    BY <1>9 DEF RegisterLine, TypeOK, Registrations
  <2>. QED
    BY <1>9, <2>1, <2>2
    DEF RegisterLine, TypeOK, OneCharacterAtATime, OfferedOnce, Registrations,
        catalogue, selection
<1>10. ASSUME NEW l \in Line, LineRegistered(l) PROVE Inv'
  <2>1. /\ lines' \in Published(lines, l) /\ dialogues' = lines'
        /\ updateDialogues(lines', CharacterOf[l])
        /\ stage' = [stage EXCEPT ![l] = "over"]
        /\ UNCHANGED <<chars, seen, asked, late, listed, selectedCharacter, picked>>
        /\ screen' \in {screen, "composer"}
    BY <1>10 DEF LineRegistered, PopPage
  <2>2. lines' \in Seq(Line)
    BY <2>1, PublishedType DEF TypeOK
  <2>3. /\ selectedDialogues' \in Seq(Line)
        /\ rows' \in Seq(Line \cup {Blank})
        /\ OneCharacterAtATime'
    BY <2>1, <2>2, updateDialoguesType
  <2>4. stage' \in [Registrations -> {"new", "working", "read", "over"}]
    BY <2>1 DEF TypeOK, Registrations
  <2>5. \A i \in DOMAIN chars' : stage'[chars'[i]] \in {"read", "over"}
    BY <2>1 DEF TypeOK, Registrations
  <2>. QED
    BY <2>1, <2>2, <2>3, <2>4, <2>5 DEF TypeOK, OfferedOnce
<1>11. ASSUME NEW i \in DOMAIN rows, SelectRow(i) PROVE Inv'
  <2>1. picked' \in Line
    BY <1>11 DEF SelectRow, TypeOK
  <2>. QED
    BY <1>11, <2>1 DEF SelectRow, TypeOK, OneCharacterAtATime, OfferedOnce, catalogue
<1>12. ASSUME NEW i \in DOMAIN rows, SelectMissingRow(i) PROVE Inv'
  <2>1. /\ stage' = [r \in Registrations |-> "over"]
        /\ UNCHANGED <<catalogue, seen, late, listed, dialogues, selection>>
        /\ screen' = "ended" /\ asked' = {}
    BY <1>12 DEF SelectMissingRow
  <2>2. \A j \in DOMAIN chars : stage'[chars[j]] \in {"read", "over"}
    BY <2>1 DEF TypeOK, Registrations
  <2>. QED
    BY <2>1, <2>2
    DEF TypeOK, OneCharacterAtATime, OfferedOnce, catalogue, selection
<1>13. CASE UNCHANGED vars
  BY <1>13 DEF vars, TypeOK, OneCharacterAtATime, OfferedOnce, catalogue, selection
<1>. QED
  BY <1>1, <1>2, <1>3, <1>4, <1>5, <1>6, <1>7, <1>8, <1>9, <1>10, <1>11, <1>12, <1>13
  DEF Next

\* So it holds throughout.
LEMMA Invariant == Spec => []Inv
BY InitInv, NextInv, PTL DEF Spec

\* Type correctness.
THEOREM TypeCorrect == Spec => []TypeOK
<1>1. Inv => TypeOK  BY DEF Inv
<1>. QED  BY <1>1, Invariant, PTL

\* The lines on offer are of one character at any time, whichever registrations
\* answer, in whatever order, and whoever is selected by then.
THEOREM OneCharacterCorrect == Spec => []OneCharacterAtATime
<1>1. Inv => OneCharacterAtATime  BY DEF Inv
<1>. QED  BY <1>1, Invariant, PTL

\* The list offers every character once, unless a registration answered before the
\* first fetch and the late answer was appended.
THEOREM OfferedCorrect == Spec => []OfferedOnce
<1>1. Inv => OfferedOnce  BY DEF Inv
<1>. QED  BY <1>1, Invariant, PTL

-----------------------------------------------------------------------------
\* The selection

\* Every step leaves selected someone the list offers: where the list is replaced
\* the first on it is selected, and elsewhere the list only grows.
LEMMA NextSelected ==
  ASSUME TypeOK, SelectedIsOffered, [Next]_vars
  PROVE  SelectedIsOffered'
<1>1. CASE fetchCharacters
  <2>1. listed' = listed \o chars /\ selectedCharacter' = selectedCharacter
    BY <1>1 DEF fetchCharacters, selection
  <2>2. /\ listed \in Seq(Character) /\ chars \in Seq(Character)
    BY DEF TypeOK
  <2>3. \A i \in DOMAIN listed : i \in DOMAIN (listed \o chars) /\ (listed \o chars)[i] = listed[i]
    BY <2>2
  <2>. QED  BY <2>1, <2>3 DEF SelectedIsOffered
<1>2. CASE \E c \in Character : selectCharacter(c)
  BY <1>2 DEF selectCharacter, SelectedIsOffered
<1>3. CASE \E c \in Character : CharacterRegistered(c)
  <2>1. PICK c \in Character : updateCharacter(seen[c], lines)
    BY <1>3 DEF CharacterRegistered
  <2>2. /\ listed' = seen[c] /\ seen[c] \in Seq(Character)
        /\ selectedCharacter' = IF seen[c] = <<>> THEN None ELSE Head(seen[c])
    BY <2>1 DEF updateCharacter, ReplaceList, SelectFirst, TypeOK
  <2>3. seen[c] # <<>> => 1 \in DOMAIN seen[c] /\ Head(seen[c]) = seen[c][1]
    BY <2>2
  <2>. QED  BY <2>2, <2>3 DEF SelectedIsOffered
<1>4. CASE OpenAgain
  <2>1. listed' = listed /\ selectedCharacter' \in {selectedCharacter, None}
    BY <1>4 DEF OpenAgain
  <2>. QED  BY <2>1 DEF SelectedIsOffered
<1>5. CASE \/ fetchDialogues \/ Dismiss \/ UNCHANGED vars
           \/ \E c \in Character : RegisterCharacter(c) \/ CharactersRead(c)
           \/ \E l \in Line : RegisterLine(l) \/ LineRegistered(l)
           \/ \E i \in DOMAIN rows : SelectRow(i) \/ SelectMissingRow(i)
  <2>1. UNCHANGED <<listed, selectedCharacter>>
    BY <1>5 DEF fetchDialogues, Dismiss, RegisterCharacter, CharactersRead, RegisterLine,
                LineRegistered, SelectRow, SelectMissingRow, vars, selection
  <2>. QED  BY <2>1 DEF SelectedIsOffered
<1>. QED  BY <1>1, <1>2, <1>3, <1>4, <1>5 DEF Next

\* Whoever is selected is on the list, in whatever order the registrations answer:
\* no line is registered for a character that has gone from the list.
THEOREM SelectedCorrect == Spec => []SelectedIsOffered
<1>1. Init => SelectedIsOffered
  BY DEF Init, SelectedIsOffered
<1>2. TypeOK /\ SelectedIsOffered /\ [Next]_vars => SelectedIsOffered'
  BY NextSelected
<1>. QED  BY <1>1, <1>2, TypeCorrect, PTL DEF Spec

=============================================================================
