-------------------------- MODULE MetainfoProofs ----------------------------
(***************************************************************************)
(* Proofs about Metainfo, for paths of any depth over any components and   *)
(* for files of any length: the files of an accepted metainfo stay inside  *)
(* the torrent's directory and do not get into each other's way, one is    *)
(* turned down for a conflict only if there is one, and its pieces tile    *)
(* its bytes.                                                              *)
(***************************************************************************)
EXTENDS Metainfo, SequenceTheorems, WellFoundedInduction, TLAPS

-----------------------------------------------------------------------------
(* Induction and recursion.                                                *)

\* Induction up to a number, with a set in the place of a predicate, from the
\* least number that is not in it.
LEMMA Induction ==
    ASSUME NEW S, NEW top \in Nat, 0 \in S,
           \A n \in 0 .. top - 1 : n \in S => n + 1 \in S
    PROVE  \A n \in 0 .. top : n \in S
  <1> DEFINE T == (0 .. top) \ S
             R == OpToRel(<, Nat)
  <1> SUFFICES ASSUME T # {} PROVE FALSE
    OBVIOUS
  <1>1. IsWellFoundedOn(R, Nat)
    BY NatLessThanWellFounded
  <1>2. R = {pair \in Nat \X Nat : pair[1] < pair[2]}
    BY DEF OpToRel
  <1>3. T \subseteq Nat
    OBVIOUS
  <1> HIDE DEF R, T
  <1>4. PICK least \in T : \A n \in T : ~ (<<n, least>> \in R)
    BY <1>1, <1>3, WFMin
  <1>5. \A n \in T : ~ (n < least)
    BY <1>2, <1>3, <1>4
  <1>6. least \in 0 .. top /\ least \notin S
    BY <1>4 DEF T
  <1>7. least # 0
    BY <1>6
  <1>8. least - 1 \in 0 .. top - 1 /\ least - 1 < least
    BY <1>6, <1>7
  <1>9. least - 1 \in S
    BY <1>5, <1>8 DEF T
  <1>10. (least - 1) + 1 \in S /\ (least - 1) + 1 = least
    BY <1>6, <1>8, <1>9
  <1>11. QED
    BY <1>6, <1>10

\* f takes these steps up to top.
Follows(f, step, top) == \A n \in 0 .. top - 1 : f[n + 1] = step[n + 1][f[n]]

\* A recursion with a step that is a function has a solution.
LEMMA BoundedRecursion ==
    ASSUME NEW V, NEW base \in V, NEW step \in [Nat -> [V -> V]], NEW top \in Nat
    PROVE  \E f \in [0 .. top -> V] : f[0] = base /\ Follows(f, step, top)
  <1> DEFINE Solves(f, n) == f[0] = base /\ Follows(f, step, n)
             S == {n \in 0 .. top : \E f \in [0 .. n -> V] : Solves(f, n)}
  <1>1. 0 \in S
    <2> DEFINE f == [n \in 0 .. 0 |-> base]
    <2>1. f \in [0 .. 0 -> V] /\ f[0] = base
      OBVIOUS
    <2> HIDE DEF f
    <2>2. Follows(f, step, 0)
      BY DEF Follows
    <2>3. QED
      BY <2>1, <2>2
  <1>2. ASSUME NEW n \in 0 .. top - 1, n \in S PROVE n + 1 \in S
    <2>1. PICK f \in [0 .. n -> V] : Solves(f, n)
      BY <1>2
    <2>2. n \in Nat /\ f[n] \in V
      BY <2>1
    <2>3. step[n + 1][f[n]] \in V
      BY <2>2
    <2> DEFINE g == [k \in 0 .. n + 1 |-> IF k = n + 1 THEN step[n + 1][f[n]] ELSE f[k]]
    <2>4. g \in [0 .. n + 1 -> V]
      BY <2>1, <2>2, <2>3
    <2>5. g[n + 1] = step[n + 1][f[n]] /\ \A k \in 0 .. n : g[k] = f[k]
      BY <2>2
    <2> HIDE DEF g
    <2>6. ASSUME NEW k \in 0 .. (n + 1) - 1 PROVE g[k + 1] = step[k + 1][g[k]]
      <3>1. CASE k = n
        BY <2>2, <2>5, <3>1
      <3>2. CASE k # n
        <4>1. k \in 0 .. n - 1 /\ k \in 0 .. n /\ k + 1 \in 0 .. n
          BY <2>2, <3>2
        <4>2. f[k + 1] = step[k + 1][f[k]]
          BY <2>1, <4>1 DEF Follows
        <4>3. QED
          BY <2>5, <4>1, <4>2
      <3>3. QED
        BY <3>1, <3>2
    <2>7. g[0] = base
      BY <2>1, <2>2, <2>5
    <2>8. Solves(g, n + 1)
      BY <2>6, <2>7 DEF Follows
    <2>9. n + 1 \in 0 .. top
      OBVIOUS
    <2> HIDE DEF Solves
    <2>10. QED
      BY <2>4, <2>8, <2>9
  <1>3. \A n \in 0 .. top : n \in S
    <2> HIDE DEF S
    <2>1. QED
      BY <1>1, <1>2, Induction
  <1>4. top \in S
    BY <1>3
  <1>5. QED
    BY <1>4

\* Induction over the sequences that Append makes.
LEMMA InductionAppend ==
    ASSUME NEW E, NEW S, <<>> \in S,
           \A s \in Seq(E), e \in E : s \in S => Append(s, e) \in S
    PROVE  \A s \in Seq(E) : s \in S
  <1> SUFFICES ASSUME NEW s \in Seq(E) PROVE s \in S
    OBVIOUS
  <1> DEFINE top == Len(s)
             T == {n \in 0 .. top : SubSeq(s, 1, n) \in S}
  <1>1. top \in Nat
    BY LenProperties
  <1>2. 0 \in T
    <2>1. SubSeq(s, 1, 0) = <<>>
      BY SubSeqEmpty
    <2>2. 0 \in 0 .. top
      BY <1>1
    <2>3. SubSeq(s, 1, 0) \in S
      BY <2>1, Zenon
    <2>4. QED
      BY <2>2, <2>3, Zenon
  <1>3. ASSUME NEW n \in 0 .. top - 1, n \in T PROVE n + 1 \in T
    <2>1. n + 1 \in 1 .. top /\ n + 1 \in 0 .. top /\ (n + 1) - 1 = n
      BY <1>1
    <2>2. /\ SubSeq(s, 1, n) \in Seq(E) /\ s[n + 1] \in E
      <3>1. \A i \in 1 .. n : s[i] \in E
        BY <1>1, <2>1, ElementOfSeq
      <3>2. SubSeq(s, 1, n) \in Seq(E)
        BY <3>1, SubSeqProperties
      <3>3. QED
        BY <2>1, <3>2, ElementOfSeq
    <2>3. SubSeq(s, 1, n + 1) = Append(SubSeq(s, 1, n), s[n + 1])
      <3>1. SubSeq(s, 1, n + 1) = SubSeq(s, 1, (n + 1) - 1) \o <<s[n + 1]>>
        <4>1. 1 \in 1 .. Len(s) /\ n + 1 \in 1 .. Len(s)
          BY <1>1, <2>1
        <4>2. QED
          BY <4>1, SubSeqRecursiveSecond
      <3>2. Append(SubSeq(s, 1, n), s[n + 1]) = SubSeq(s, 1, n) \o <<s[n + 1]>>
        BY <2>2, AppendIsConcat
      <3>3. QED
        BY <2>1, <3>1, <3>2
    <2>4. QED
      BY <1>3, <2>1, <2>2, <2>3
  <1>4. \A n \in 0 .. top : n \in T
    <2> HIDE DEF T, top
    <2>1. QED
      BY <1>1, <1>2, <1>3, Induction
  <1>5. SubSeq(s, 1, top) \in S
    BY <1>1, <1>4
  <1>6. QED
    BY <1>5, SubSeqFull

-----------------------------------------------------------------------------
(* Strings.                                                                *)

Text  == Seq(Chars)
Parts == Seq(Text)

\* What the operations on sequences give for strings.
LEMMA TextOperations ==
    /\ <<>> \in Text
    /\ \A c \in Chars : <<c>> \in Text
    /\ \A s, t \in Text : s \o t \in Text
    /\ \A s \in Text, c \in Chars : Append(s, c) \in Text
    /\ \A s \in Text : s \o <<>> = s /\ <<>> \o s = s
    /\ \A s, t, u \in Text : (s \o t) \o u = s \o (t \o u)
    /\ \A s, t \in Text, c \in Chars : s \o Append(t, c) = Append(s \o t, c)
  <1>1. /\ <<>> \in Text
        /\ \A c \in Chars : <<c>> \in Text
        /\ \A s, t \in Text : s \o t \in Text
        /\ \A s \in Text, c \in Chars : Append(s, c) \in Text
    BY DEF Text
  <1>2. \A s \in Text : s \o <<>> = s /\ <<>> \o s = s
    BY ConcatEmptySeq DEF Text
  <1>3. \A s, t, u \in Text : (s \o t) \o u = s \o (t \o u)
    BY ConcatAssociative DEF Text
  <1>4. ASSUME NEW s \in Text, NEW t \in Text, NEW c \in Chars
        PROVE  s \o Append(t, c) = Append(s \o t, c)
    <2>1. Append(t, c) = t \o <<c>> /\ Append(s \o t, c) = (s \o t) \o <<c>>
      <3>1. s \o t \in Seq(Chars) /\ t \in Seq(Chars)
        BY <1>1 DEF Text
      <3>2. QED
        BY <3>1, AppendIsConcat
    <2>2. (s \o t) \o <<c>> = s \o (t \o <<c>>)
      BY <1>1, <1>3
    <2>3. QED
      BY <2>1, <2>2, Zenon
  <1>5. QED
    BY <1>1, <1>2, <1>3, <1>4, Zenon

\* The brackets of a concatenation do not matter.
LEMMA ConcatThree ==
    ASSUME NEW s \in Text, NEW t \in Text, NEW u \in Text
    PROVE  (s \o t) \o u = s \o (t \o u)
  BY TextOperations, Zenon

\* A character at the end of the second string is at the end of the whole.
LEMMA ConcatAppend ==
    ASSUME NEW s \in Text, NEW t \in Text, NEW c \in Chars
    PROVE  s \o Append(t, c) = Append(s \o t, c)
  BY TextOperations, Zenon

\* The strings that Join makes one after the other.
Joining(f, parts, c) ==
    /\ f \in [0 .. Len(parts) -> Text]
    /\ \A n \in 1 .. Len(parts) :
           f[n] = IF n = 1 THEN parts[1] ELSE f[n - 1] \o <<c>> \o parts[n]
    /\ Join(parts, c) = f[Len(parts)]

\* Join has these steps: its recursive function exists and takes them.
LEMMA JoinSteps ==
    ASSUME NEW parts \in Parts, NEW c \in Chars
    PROVE  \E f : Joining(f, parts, c)
  <1> DEFINE top == Len(parts)
             Body(n, x) == IF n = 1 THEN parts[1] ELSE x \o <<c>> \o parts[n]
             Rule(f) == f = [n \in 0 .. top |->
                                IF n = 0 THEN <<>>
                                ELSE IF n = 1 THEN parts[1]
                                ELSE f[n - 1] \o <<c>> \o parts[n]]
             step == [n \in Nat |-> [x \in Text |->
                                       IF n \in 1 .. top THEN Body(n, x) ELSE <<>>]]
             joined == CHOOSE f : Rule(f)
  <1>1. top \in Nat /\ \A n \in 1 .. top : parts[n] \in Text
    BY DEF Parts
  <1>2. \A n \in 1 .. top, x \in Text : Body(n, x) \in Text
    BY <1>1, TextOperations
  <1>3. step \in [Nat -> [Text -> Text]]
    BY <1>2, TextOperations
  <1>4. PICK f \in [0 .. top -> Text] : f[0] = <<>> /\ Follows(f, step, top)
    <2> HIDE DEF step, top
    <2>1. QED
      BY <1>1, <1>3, TextOperations, BoundedRecursion
  <1>5. ASSUME NEW n \in 1 .. top PROVE f[n] = Body(n, f[n - 1])
    <2>1. /\ n - 1 \in 0 .. top - 1 /\ n - 1 \in 0 .. top /\ (n - 1) + 1 = n /\ n \in Nat
      BY <1>1
    <2>2. f[n] = step[n][f[n - 1]] /\ f[n - 1] \in Text
      BY <1>4, <2>1 DEF Follows
    <2> HIDE DEF Body
    <2>3. QED
      BY <2>1, <2>2
  <1>6. Rule(f)
    <2>1. ASSUME NEW n \in 0 .. top, n # 0 PROVE f[n] = Body(n, f[n - 1])
      <3>1. n \in 1 .. top
        BY <1>1, <2>1
      <3>2. QED
        BY <1>5, <3>1
    <2> HIDE DEF top
    <2>2. QED
      BY <1>4, <2>1
  <1>7. Rule(joined)
    BY <1>6, Zenon
  <1>8. Join(parts, c) = joined[top]
    BY Zenon DEF Join
  <1> HIDE DEF joined
  <1>9. joined = f
    <2> DEFINE S == {n \in 0 .. top : joined[n] = f[n]}
    <2>1. 0 \in S
      BY <1>1, <1>4, <1>7
    <2>2. ASSUME NEW n \in 0 .. top - 1, n \in S PROVE n + 1 \in S
      <3>1. n + 1 \in 1 .. top /\ n + 1 \in 0 .. top /\ n + 1 # 0 /\ (n + 1) - 1 = n
        BY <1>1
      <3>2. joined[n + 1] = Body(n + 1, joined[n])
        <4> HIDE DEF top
        <4>1. QED
          BY <1>7, <3>1
      <3>3. f[n + 1] = Body(n + 1, f[n])
        BY <1>5, <3>1
      <3> HIDE DEF Body
      <3>4. QED
        BY <2>2, <3>1, <3>2, <3>3
    <2>3. \A n \in 0 .. top : n \in S
      <3> HIDE DEF S, top
      <3>1. QED
        BY <1>1, <2>1, <2>2, Induction
    <2>4. \A n \in 0 .. top : joined[n] = f[n]
      BY <2>3
    <2> HIDE DEF top
    <2>5. joined = [n \in 0 .. top |-> joined[n]]
      BY <1>7
    <2>6. f = [n \in 0 .. top |-> f[n]]
      BY <1>4
    <2>7. QED
      BY <2>4, <2>5, <2>6, Zenon
  <1>10. Joining(f, parts, c)
    BY <1>1, <1>4, <1>5, <1>8, <1>9 DEF Joining
  <1>11. QED
    BY <1>10

\* One part, and one part more.
LEMMA JoinLaws ==
    ASSUME NEW c \in Chars
    PROVE  /\ \A parts \in Parts : Join(parts, c) \in Text
           /\ \A part \in Text : Join(Append(<<>>, part), c) = part
           /\ \A parts \in Parts, part \in Text :
                  parts # <<>> =>
                      Join(Append(parts, part), c) = Join(parts, c) \o <<c>> \o part
  <1>1. ASSUME NEW parts \in Parts PROVE Join(parts, c) \in Text
    <2>1. PICK f : Joining(f, parts, c)
      BY JoinSteps
    <2>2. Len(parts) \in 0 .. Len(parts)
      BY DEF Parts
    <2>3. QED
      BY <2>1, <2>2 DEF Joining
  <1>2. ASSUME NEW part \in Text PROVE Join(Append(<<>>, part), c) = part
    <2>1. PICK parts \in Parts : parts = Append(<<>>, part)
      BY AppendProperties, EmptySeq DEF Parts
    <2>2. Len(parts) = 1 /\ parts[1] = part
      BY <2>1
    <2>3. PICK f : Joining(f, parts, c)
      BY JoinSteps
    <2>4. Join(parts, c) = f[1] /\ f[1] = parts[1]
      BY <2>2, <2>3 DEF Joining
    <2>5. QED
      BY <2>1, <2>2, <2>4, Zenon
  <1>3. ASSUME NEW parts \in Parts, NEW part \in Text, parts # <<>>
        PROVE  Join(Append(parts, part), c) = Join(parts, c) \o <<c>> \o part
    <2> DEFINE top == Len(parts)
    <2>1. PICK more \in Parts : more = Append(parts, part)
      BY AppendProperties DEF Parts
    <2>2. /\ top \in Nat \ {0} /\ Len(more) = top + 1 /\ more[top + 1] = part
          /\ \A n \in 1 .. top : more[n] = parts[n]
      <3>1. top \in Nat \ {0}
        BY <1>3, EmptySeq DEF Parts
      <3>2. QED
        BY <2>1, <3>1, AppendProperties DEF Parts
    <2>3. PICK f : Joining(f, parts, c)
      BY JoinSteps
    <2>4. PICK g : Joining(g, more, c)
      BY JoinSteps
    <2> DEFINE S == {n \in 0 .. top : n # 0 => f[n] = g[n]}
    <2>5. 0 \in S
      BY <2>2
    <2>6. ASSUME NEW n \in 0 .. top - 1, n \in S PROVE n + 1 \in S
      <3>1. /\ n + 1 \in 1 .. top /\ n + 1 \in 1 .. top + 1 /\ (n + 1) - 1 = n
            /\ n + 1 \in 0 .. top /\ n \in Nat
        BY <2>2
      <3>2. f[n + 1] = IF n + 1 = 1 THEN parts[1] ELSE f[n] \o <<c>> \o parts[n + 1]
        BY <2>3, <3>1 DEF Joining
      <3>3. g[n + 1] = IF n + 1 = 1 THEN more[1] ELSE g[n] \o <<c>> \o more[n + 1]
        BY <2>2, <2>4, <3>1 DEF Joining
      <3>4. more[n + 1] = parts[n + 1] /\ more[1] = parts[1]
        BY <2>2, <3>1
      <3>5. f[n + 1] = g[n + 1]
        <4>1. CASE n = 0
          BY <3>2, <3>3, <3>4, <4>1
        <4>2. CASE n # 0
          <5>1. f[n] = g[n] /\ n + 1 # 1
            BY <2>6, <3>1, <4>2
          <5>2. QED
            BY <3>2, <3>3, <3>4, <5>1, Zenon
        <4>3. QED
          BY <4>1, <4>2
      <3>6. QED
        BY <3>1, <3>5
    <2>7. \A n \in 0 .. top : n \in S
      <3>1. top \in Nat
        BY <2>2
      <3> HIDE DEF S, top
      <3>2. QED
        BY <2>5, <2>6, <3>1, Induction
    <2>8. f[top] = g[top]
      BY <2>2, <2>7
    <2>9. g[top + 1] = g[top] \o <<c>> \o part
      <3>1. top + 1 \in 1 .. top + 1 /\ (top + 1) - 1 = top /\ top + 1 # 1
        BY <2>2
      <3> HIDE DEF top
      <3>2. QED
        BY <2>2, <2>4, <3>1 DEF Joining
    <2>10. Join(parts, c) = f[top] /\ Join(more, c) = g[top + 1]
      BY <2>2, <2>3, <2>4 DEF Joining
    <2>11. QED
      BY <2>1, <2>8, <2>9, <2>10, Zenon
  <1>4. QED
    BY <1>1, <1>2, <1>3, Zenon

\* One more part comes after one more separator.
LEMMA JoinMore ==
    ASSUME NEW c \in Chars, NEW parts \in Parts, NEW part \in Text, parts # <<>>
    PROVE  Join(Append(parts, part), c) = (Join(parts, c) \o <<c>>) \o part
  BY JoinLaws

\* What Split makes: there is always a last part.
Full == Parts \ {<<>>}

\* One more character leaves a list of parts that is not empty.
LEMMA PutType ==
    ASSUME NEW parts \in Full, NEW char \in Chars, NEW c
    PROVE  Put(parts, char, c) \in Full
  <1>1. parts \in Seq(Text) /\ Len(parts) \in Nat \ {0}
    BY EmptySeq DEF Full, Parts
  <1>2. /\ Front(parts) \in Seq(Text) /\ Last(parts) \in Text
    <2>1. \A i \in 1 .. Len(parts) : parts[i] \in Text
      BY <1>1
    <2>2. SubSeq(parts, 1, Len(parts) - 1) \in Seq(Text)
      BY <1>1, <2>1, SubSeqProperties
    <2>3. QED
      BY <1>1, <2>1, <2>2 DEF Front, Last
  <1>3. <<>> \in Text /\ Append(Last(parts), char) \in Text
    BY <1>2, TextOperations
  <1>4. Append(parts, <<>>) \in Full
    BY <1>1, <1>3, AppendProperties DEF Full, Parts
  <1>5. Append(Front(parts), Append(Last(parts), char)) \in Full
    BY <1>2, <1>3, AppendProperties DEF Full, Parts
  <1>6. QED
    BY <1>4, <1>5, Zenon DEF Put

\* The parts that Split makes one after the other.
Splitting(f, s, c) ==
    /\ f \in [0 .. Len(s) -> Full]
    /\ f[0] = << <<>> >>
    /\ \A n \in 1 .. Len(s) : f[n] = Put(f[n - 1], s[n], c)
    /\ Split(s, c) = f[Len(s)]

\* A string is a list of one part.
LEMMA OnePart == \A s \in Text : <<s>> \in Full /\ <<s>> = Append(<<>>, s)
  BY DEF Full, Parts

\* Split has these steps.
LEMMA SplitSteps ==
    ASSUME NEW s \in Text, NEW c \in Chars
    PROVE  \E f : Splitting(f, s, c)
  <1> DEFINE top == Len(s)
             first == << <<>> >>
             Rule(f) == f = [n \in 0 .. top |->
                                IF n = 0 THEN first ELSE Put(f[n - 1], s[n], c)]
             step == [n \in Nat |-> [x \in Full |->
                                       IF n \in 1 .. top THEN Put(x, s[n], c) ELSE first]]
             parts == CHOOSE f : Rule(f)
  <1>1. top \in Nat /\ \A n \in 1 .. top : s[n] \in Chars
    BY DEF Text
  <1>2. first \in Full
    BY OnePart, TextOperations
  <1>3. step \in [Nat -> [Full -> Full]]
    <2> HIDE DEF first, top
    <2>1. ASSUME NEW n \in Nat, NEW x \in Full
          PROVE  (IF n \in 1 .. top THEN Put(x, s[n], c) ELSE first) \in Full
      BY <1>1, <1>2, PutType
    <2>2. QED
      BY <2>1, Zenon
  <1>4. PICK f \in [0 .. top -> Full] : f[0] = first /\ Follows(f, step, top)
    <2> HIDE DEF step, top, first
    <2>1. QED
      BY <1>1, <1>2, <1>3, BoundedRecursion
  <1>5. ASSUME NEW n \in 1 .. top PROVE f[n] = Put(f[n - 1], s[n], c)
    <2>1. /\ n - 1 \in 0 .. top - 1 /\ n - 1 \in 0 .. top /\ (n - 1) + 1 = n /\ n \in Nat
      BY <1>1
    <2>2. f[n] = step[n][f[n - 1]] /\ f[n - 1] \in Full
      BY <1>4, <2>1 DEF Follows
    <2> HIDE DEF first, top
    <2>3. QED
      BY <2>1, <2>2
  <1>6. Rule(f)
    <2>1. ASSUME NEW n \in 0 .. top, n # 0 PROVE f[n] = Put(f[n - 1], s[n], c)
      <3>1. n \in 1 .. top
        BY <1>1, <2>1
      <3>2. QED
        BY <1>5, <3>1
    <2> HIDE DEF top, first
    <2>2. QED
      BY <1>4, <2>1
  <1>7. Rule(parts)
    BY <1>6, Zenon
  <1>8. Split(s, c) = parts[top]
    BY Zenon DEF Split
  <1> HIDE DEF parts
  <1>9. parts = f
    <2> HIDE DEF first
    <2> DEFINE S == {n \in 0 .. top : parts[n] = f[n]}
    <2>1. 0 \in S
      BY <1>1, <1>4, <1>7
    <2>2. ASSUME NEW n \in 0 .. top - 1, n \in S PROVE n + 1 \in S
      <3>1. n + 1 \in 1 .. top /\ n + 1 \in 0 .. top /\ n + 1 # 0 /\ (n + 1) - 1 = n
        BY <1>1
      <3>2. parts[n + 1] = Put(parts[n], s[n + 1], c)
        <4> HIDE DEF top
        <4>1. QED
          BY <1>7, <3>1
      <3>3. f[n + 1] = Put(f[n], s[n + 1], c)
        BY <1>5, <3>1
      <3>4. QED
        BY <2>2, <3>1, <3>2, <3>3
    <2>3. \A n \in 0 .. top : n \in S
      <3> HIDE DEF S, top
      <3>1. QED
        BY <1>1, <2>1, <2>2, Induction
    <2>4. \A n \in 0 .. top : parts[n] = f[n]
      BY <2>3
    <2> HIDE DEF top
    <2>5. parts = [n \in 0 .. top |-> parts[n]]
      BY <1>7
    <2>6. f = [n \in 0 .. top |-> f[n]]
      BY <1>4
    <2>7. QED
      BY <2>4, <2>5, <2>6, Zenon
  <1>10. Splitting(f, s, c)
    <2> HIDE DEF step
    <2>1. QED
      BY <1>4, <1>5, <1>8, <1>9, Zenon DEF Splitting
  <1>11. QED
    BY <1>10

\* No character, and one character more.
LEMMA SplitLaws ==
    ASSUME NEW c \in Chars
    PROVE  /\ Split(<<>>, c) = << <<>> >>
           /\ \A s \in Text : Split(s, c) \in Full
           /\ \A s \in Text, char \in Chars :
                  Split(Append(s, char), c) = Put(Split(s, c), char, c)
  <1>1. ASSUME NEW s \in Text PROVE Split(s, c) \in Full
    <2>1. PICK f : Splitting(f, s, c)
      BY SplitSteps
    <2>2. Len(s) \in 0 .. Len(s)
      BY DEF Text
    <2>3. QED
      BY <2>1, <2>2 DEF Splitting
  <1>2. Split(<<>>, c) = << <<>> >>
    <2>1. PICK none \in Text : none = <<>>
      BY TextOperations
    <2>2. Len(none) = 0
      BY <2>1
    <2>3. PICK f : Splitting(f, none, c)
      BY SplitSteps
    <2>4. Split(none, c) = f[0] /\ f[0] = << <<>> >>
      BY <2>2, <2>3, Zenon DEF Splitting
    <2>5. QED
      BY <2>1, <2>4, Zenon
  <1>3. ASSUME NEW s \in Text, NEW char \in Chars
        PROVE  Split(Append(s, char), c) = Put(Split(s, c), char, c)
    <2> DEFINE top == Len(s)
    <2>1. PICK more \in Text : more = Append(s, char)
      BY TextOperations
    <2>2. /\ top \in Nat /\ Len(more) = top + 1 /\ more[top + 1] = char
          /\ \A n \in 1 .. top : more[n] = s[n]
      BY <2>1, AppendProperties, LenProperties DEF Text
    <2>3. PICK f : Splitting(f, s, c)
      BY SplitSteps
    <2>4. PICK g : Splitting(g, more, c)
      BY SplitSteps
    <2> DEFINE S == {n \in 0 .. top : f[n] = g[n]}
    <2>5. 0 \in S
      <3>1. 0 \in 0 .. top
        BY <2>2
      <3>2. f[0] = g[0]
        BY <2>3, <2>4, Zenon DEF Splitting
      <3>3. QED
        BY <3>1, <3>2
    <2>6. ASSUME NEW n \in 0 .. top - 1, n \in S PROVE n + 1 \in S
      <3>1. /\ n + 1 \in 1 .. top /\ n + 1 \in 1 .. top + 1 /\ (n + 1) - 1 = n
            /\ n + 1 \in 0 .. top
        BY <2>2
      <3>2. f[n + 1] = Put(f[n], s[n + 1], c)
        BY <2>3, <3>1 DEF Splitting
      <3>3. g[n + 1] = Put(g[n], more[n + 1], c)
        BY <2>2, <2>4, <3>1 DEF Splitting
      <3>4. more[n + 1] = s[n + 1]
        BY <2>2, <3>1
      <3>5. QED
        BY <2>6, <3>1, <3>2, <3>3, <3>4
    <2>7. \A n \in 0 .. top : n \in S
      <3>1. top \in Nat
        BY <2>2
      <3> HIDE DEF S, top
      <3>2. QED
        BY <2>5, <2>6, <3>1, Induction
    <2>8. f[top] = g[top]
      BY <2>2, <2>7
    <2>9. g[top + 1] = Put(g[top], char, c)
      <3>1. top + 1 \in 1 .. top + 1 /\ (top + 1) - 1 = top
        BY <2>2
      <3> HIDE DEF top
      <3>2. QED
        BY <2>2, <2>4, <3>1 DEF Splitting
    <2>10. Split(s, c) = f[top] /\ Split(more, c) = g[top + 1]
      BY <2>2, <2>3, <2>4 DEF Splitting
    <2>11. QED
      BY <2>1, <2>8, <2>9, <2>10, Zenon
  <1>4. QED
    BY <1>1, <1>2, <1>3, Zenon

\* A string without the separator is one part.
Plain(s, c) == \A i \in 1 .. Len(s) : s[i] # c

\* Nothing separates a string without the separator.
LEMMA SplitPlain ==
    ASSUME NEW c \in Chars
    PROVE  \A s \in Text : Plain(s, c) => Split(s, c) = <<s>>
  <1> DEFINE S == {s \in Text : Plain(s, c) => Split(s, c) = <<s>>}
  <1>1. <<>> \in S
    BY SplitLaws, TextOperations
  <1>2. ASSUME NEW s \in Seq(Chars), NEW char \in Chars, s \in S
        PROVE  Append(s, char) \in S
    <2>1. s \in Text /\ Append(s, char) \in Text
      BY TextOperations DEF Text
    <2> SUFFICES ASSUME Plain(Append(s, char), c)
                 PROVE  Split(Append(s, char), c) = <<Append(s, char)>>
      BY <2>1
    <2>2. Plain(s, c) /\ char # c
      <3>1. /\ Len(Append(s, char)) = Len(s) + 1 /\ Append(s, char)[Len(s) + 1] = char
            /\ \A i \in 1 .. Len(s) : Append(s, char)[i] = s[i]
            /\ Len(s) \in Nat
        BY AppendProperties, LenProperties
      <3>2. QED
        BY <3>1 DEF Plain
    <2>3. Split(s, c) = <<s>>
      BY <1>2, <2>2
    <2>4. Split(Append(s, char), c) = Put(<<s>>, char, c)
      BY <2>1, <2>3, SplitLaws
    <2>5. Front(<<s>>) = <<>> /\ Last(<<s>>) = s
      BY DEF Front, Last
    <2>6. Put(<<s>>, char, c) = Append(<<>>, Append(s, char))
      BY <2>2, <2>5, Zenon DEF Put
    <2>7. QED
      BY <2>1, <2>4, <2>6, OnePart, Zenon
  <1>3. \A s \in Seq(Chars) : s \in S
    <2> HIDE DEF S
    <2>1. QED
      BY <1>1, <1>2, InductionAppend
  <1>4. QED
    BY <1>3 DEF Text

\* A character is put into the last part, whatever comes before.
LEMMA PutConcat ==
    ASSUME NEW a \in Parts, NEW b \in Full, NEW char \in Chars, NEW c
    PROVE  Put(a \o b, char, c) = a \o Put(b, char, c)
  <1>1. a \in Seq(Text) /\ b \in Seq(Text) /\ Len(b) \in Nat \ {0} /\ Len(a) \in Nat
    BY EmptySeq, LenProperties DEF Full, Parts
  <1>2. PICK s \in Seq(Text), x \in Text : b = Append(s, x)
    BY SequenceEmptyOrAppend DEF Full, Parts
  <1>3. \A u \in Seq(Text), e \in Text : Front(Append(u, e)) = u /\ Last(Append(u, e)) = e
    <2> SUFFICES ASSUME NEW u \in Seq(Text), NEW e \in Text
                 PROVE  Front(Append(u, e)) = u /\ Last(Append(u, e)) = e
      OBVIOUS
    <2>1. PICK w \in Seq(Text) : w = Append(u, e)
      BY AppendProperties
    <2>2. /\ Len(w) = Len(u) + 1 /\ w[Len(u) + 1] = e /\ Len(u) \in Nat
          /\ \A i \in 1 .. Len(u) : w[i] = u[i]
      BY <2>1, AppendProperties, LenProperties
    <2>3. Last(w) = e
      BY <2>2 DEF Last
    <2>4. Front(w) = SubSeq(w, 1, Len(u))
      BY <2>2 DEF Front
    <2>5. /\ SubSeq(w, 1, Len(u)) \in Seq(Text) /\ Len(SubSeq(w, 1, Len(u))) = Len(u)
          /\ \A i \in 1 .. Len(u) : SubSeq(w, 1, Len(u))[i] = w[i]
      <3>1. \A i \in 1 .. Len(u) : w[i] \in Text
        BY <2>2
      <3>2. QED
        BY <2>2, <3>1, SubSeqProperties
    <2>6. SubSeq(w, 1, Len(u)) = u
      BY <2>2, <2>5, SeqEqual
    <2>7. QED
      BY <2>1, <2>3, <2>4, <2>6, Zenon
  <1>4. \A u, v \in Seq(Text), e \in Text : u \o Append(v, e) = Append(u \o v, e)
    <2> SUFFICES ASSUME NEW u \in Seq(Text), NEW v \in Seq(Text), NEW e \in Text
                 PROVE  u \o Append(v, e) = Append(u \o v, e)
      OBVIOUS
    <2>1. u \o v \in Seq(Text) /\ <<e>> \in Seq(Text)
      BY ConcatProperties
    <2>2. Append(v, e) = v \o <<e>> /\ Append(u \o v, e) = (u \o v) \o <<e>>
      BY <2>1, AppendIsConcat
    <2>3. (u \o v) \o <<e>> = u \o (v \o <<e>>)
      BY <2>1, ConcatAssociative
    <2>4. QED
      BY <2>2, <2>3, Zenon
  <1>5. /\ a \o b = Append(a \o s, x) /\ a \o s \in Seq(Text) /\ <<>> \in Text
        /\ Append(x, char) \in Text
    <2>1. a \o s \in Seq(Text)
      BY <1>1, ConcatProperties
    <2>2. QED
      BY <1>1, <1>2, <1>4, <2>1, TextOperations
  <1>6. CASE char = c
    <2>1. a \o Append(b, <<>>) = Append(a \o b, <<>>)
      BY <1>1, <1>4, <1>5
    <2>2. QED
      BY <1>6, <2>1, Zenon DEF Put
  <1>7. CASE char # c
    <2>1. Put(a \o b, char, c) = Append(a \o s, Append(x, char))
      BY <1>3, <1>5, <1>7, Zenon DEF Put
    <2>2. Put(b, char, c) = Append(s, Append(x, char))
      BY <1>2, <1>3, <1>7, Zenon DEF Put
    <2>3. a \o Append(s, Append(x, char)) = Append(a \o s, Append(x, char))
      BY <1>1, <1>2, <1>4, <1>5
    <2>4. QED
      BY <2>1, <2>2, <2>3, Zenon
  <1>8. QED
    BY <1>6, <1>7

\* The parts on both sides of a separator are the parts of the whole.
LEMMA SplitParts ==
    ASSUME NEW c \in Chars, NEW s \in Text
    PROVE  \A t \in Text : Split((s \o <<c>>) \o t, c) = Split(s, c) \o Split(t, c)
  <1> DEFINE front == s \o <<c>>
             S == {t \in Text : Split(front \o t, c) = Split(s, c) \o Split(t, c)}
  <1>1. front \in Text /\ front = Append(s, c) /\ Split(s, c) \in Full
    BY TextOperations, AppendIsConcat, SplitLaws DEF Text
  <1>2. <<>> \in S
    <2>1. front \o <<>> = front /\ <<>> \in Text
      BY <1>1, TextOperations
    <2>2. Split(front, c) = Put(Split(s, c), c, c)
      BY <1>1, SplitLaws
    <2>3. Put(Split(s, c), c, c) = Append(Split(s, c), <<>>)
      BY Zenon DEF Put
    <2>4. Append(Split(s, c), <<>>) = Split(s, c) \o << <<>> >>
      BY <1>1, <2>1, AppendIsConcat DEF Full, Parts
    <2>5. Split(<<>>, c) = << <<>> >>
      BY SplitLaws
    <2> HIDE DEF front
    <2>6. Split(front \o <<>>, c) = Split(s, c) \o Split(<<>>, c)
      BY <2>1, <2>2, <2>3, <2>4, <2>5, Zenon
    <2>7. QED
      BY <2>1, <2>6
  <1> HIDE DEF front
  <1>3. ASSUME NEW t \in Seq(Chars), NEW char \in Chars, t \in S
        PROVE  Append(t, char) \in S
    <2>1. t \in Text /\ Append(t, char) \in Text /\ front \o t \in Text
      BY <1>1, TextOperations DEF Text
    <2>2. front \o Append(t, char) = Append(front \o t, char)
      BY <1>1, <2>1, ConcatAppend
    <2>3. Split(front \o Append(t, char), c) = Put(Split(front \o t, c), char, c)
      BY <2>1, <2>2, SplitLaws
    <2>4. Split(front \o t, c) = Split(s, c) \o Split(t, c)
      BY <1>3
    <2>5. Split(s, c) \in Parts /\ Split(t, c) \in Full
      BY <1>1, <2>1, SplitLaws DEF Full
    <2>6. Put(Split(s, c) \o Split(t, c), char, c)
              = Split(s, c) \o Put(Split(t, c), char, c)
      BY <2>5, PutConcat
    <2>7. Split(Append(t, char), c) = Put(Split(t, c), char, c)
      BY <2>1, SplitLaws
    <2>8. Split(front \o Append(t, char), c) = Split(s, c) \o Split(Append(t, char), c)
      BY <2>3, <2>4, <2>6, <2>7, Zenon
    <2>9. QED
      BY <2>1, <2>8
  <1>4. \A t \in Seq(Chars) : t \in S
    <2> HIDE DEF S
    <2>1. QED
      BY <1>2, <1>3, InductionAppend
  <1>5. QED
    BY <1>4 DEF Text, front

\* Splitting undoes joining.
AllPlain(parts, c) == \A i \in 1 .. Len(parts) : Plain(parts[i], c)

\* The components come back from the string that strings.Join makes of them.
LEMMA SplitJoin ==
    ASSUME NEW c \in Chars, NEW parts \in Full, AllPlain(parts, c)
    PROVE  Split(Join(parts, c), c) = parts
  <1> DEFINE S == {ps \in Parts : ps # <<>> /\ AllPlain(ps, c) =>
                                      Split(Join(ps, c), c) = ps}
  <1>1. <<>> \in S
    BY EmptySeq DEF Parts
  <1>2. ASSUME NEW ps \in Seq(Text), NEW p \in Text, ps \in S
        PROVE  Append(ps, p) \in S
    <2> DEFINE all == Append(ps, p)
    <2>1. all \in Parts
      BY AppendProperties DEF Parts
    <2> SUFFICES ASSUME AllPlain(all, c) PROVE Split(Join(all, c), c) = all
      BY <2>1
    <2>2. AllPlain(ps, c) /\ Plain(p, c)
      <3>1. /\ Len(all) = Len(ps) + 1 /\ all[Len(ps) + 1] = p /\ Len(ps) \in Nat
            /\ \A i \in 1 .. Len(ps) : all[i] = ps[i]
        BY AppendProperties, LenProperties
      <3> HIDE DEF all
      <3>2. Len(ps) + 1 \in 1 .. Len(all) /\ \A i \in 1 .. Len(ps) : i \in 1 .. Len(all)
        BY <3>1
      <3>3. QED
        BY <3>1, <3>2, Zenon DEF AllPlain
    <2>3. Split(p, c) = <<p>>
      BY <2>2, SplitPlain
    <2>4. CASE ps = <<>>
      <3>1. Join(all, c) = p
        BY <2>4, JoinLaws
      <3>2. all = <<p>>
        BY <2>4, OnePart
      <3>3. QED
        BY <2>3, <3>1, <3>2, Zenon
    <2>5. CASE ps # <<>>
      <3>1. ps \in Parts /\ Join(ps, c) \in Text
        BY JoinLaws DEF Parts
      <3>2. Join(all, c) = Join(ps, c) \o <<c>> \o p
        BY <2>5, <3>1, JoinLaws
      <3>3. Split((Join(ps, c) \o <<c>>) \o p, c) = Split(Join(ps, c), c) \o Split(p, c)
        BY <3>1, SplitParts
      <3>4. Split(Join(ps, c), c) = ps
        BY <1>2, <2>2, <2>5
      <3>5. all = ps \o <<p>>
        BY AppendIsConcat
      <3> HIDE DEF all
      <3>6. QED
        BY <2>3, <3>2, <3>3, <3>4, <3>5, Zenon
    <2>6. QED
      BY <2>4, <2>5
  <1>3. \A ps \in Seq(Text) : ps \in S
    <2> HIDE DEF S
    <2>1. QED
      BY <1>1, <1>2, InductionAppend
  <1>4. QED
    BY <1>3 DEF Full, Parts

\* Joining all parts is joining what two ends of them join to.
LEMMA JoinConcat ==
    ASSUME NEW c \in Chars, NEW a \in Full
    PROVE  \A b \in Full : Join(a \o b, c) = (Join(a, c) \o <<c>>) \o Join(b, c)
  <1> DEFINE S == {b \in Parts : b # <<>> =>
                      Join(a \o b, c) = (Join(a, c) \o <<c>>) \o Join(b, c)}
             front == Join(a, c) \o <<c>>
  <1>1. a \in Parts /\ a \in Seq(Text) /\ a # <<>> /\ front \in Text /\ <<c>> \in Text
    BY JoinLaws, TextOperations DEF Full, Parts
  <1>2. <<>> \in S
    BY EmptySeq DEF Parts
  <1>3. ASSUME NEW b \in Seq(Text), NEW p \in Text, b \in S
        PROVE  Append(b, p) \in S
    <2>1. Append(b, p) \in Parts /\ b \in Parts
      BY AppendProperties DEF Parts
    <2>2. a \o Append(b, p) = Append(a \o b, p) /\ a \o b \in Parts
      <3>1. a \o b \in Seq(Text) /\ <<p>> \in Seq(Text)
        BY <1>1, ConcatProperties
      <3>2. Append(b, p) = b \o <<p>> /\ Append(a \o b, p) = (a \o b) \o <<p>>
        BY <3>1, AppendIsConcat
      <3>3. (a \o b) \o <<p>> = a \o (b \o <<p>>)
        BY <1>1, <3>1, ConcatAssociative
      <3>4. QED
        BY <3>1, <3>2, <3>3 DEF Parts
    <2>3. a \o b # <<>>
      BY <1>1, ConcatEqualIffEmpty
    <2>4. Join(a \o Append(b, p), c) = (Join(a \o b, c) \o <<c>>) \o p
      BY <2>2, <2>3, JoinMore
    <2>5. CASE b = <<>>
      <3>1. a \o b = a
        BY <1>1, <2>5, ConcatEmptySeq
      <3>2. Join(Append(b, p), c) = p
        BY <2>5, JoinLaws
      <3>3. Join(a \o Append(b, p), c) = front \o Join(Append(b, p), c)
        BY <2>4, <3>1, <3>2, Zenon
      <3>4. QED
        BY <2>1, <3>3
    <2>6. CASE b # <<>>
      <3>1. Join(a \o b, c) = front \o Join(b, c) /\ Join(b, c) \in Text
        BY <1>3, <2>1, <2>6, JoinLaws
      <3>2. Join(Append(b, p), c) = (Join(b, c) \o <<c>>) \o p
        BY <2>1, <2>6, JoinLaws
      <3> DEFINE s == Join(b, c)
      <3> HIDE DEF front, s
      <3>3. ((front \o s) \o <<c>>) \o p = front \o ((s \o <<c>>) \o p)
        <4>1. s \in Text /\ s \o <<c>> \in Text
          BY <1>1, <3>1, TextOperations DEF s
        <4>2. (front \o s) \o <<c>> = front \o (s \o <<c>>)
          BY <1>1, <4>1, ConcatThree
        <4>3. (front \o (s \o <<c>>)) \o p = front \o ((s \o <<c>>) \o p)
          BY <1>1, <4>1, ConcatThree
        <4>4. QED
          BY <4>2, <4>3, Zenon
      <3>4. Join(a \o Append(b, p), c) = front \o Join(Append(b, p), c)
        BY <2>4, <3>1, <3>2, <3>3, Zenon DEF s
      <3>5. QED
        BY <2>1, <3>4 DEF front
    <2>7. QED
      BY <2>5, <2>6
  <1>4. \A b \in Seq(Text) : b \in S
    <2> HIDE DEF S, front
    <2>1. QED
      BY <1>2, <1>3, InductionAppend
  <1>5. QED
    BY <1>4 DEF Full, Parts

-----------------------------------------------------------------------------
(* Lower case.                                                             *)

\* The characters that the code tells apart are different ones.
LEMMA Characters ==
    /\ {NUL, Dot, Slash} \subseteq Chars
    /\ UpperA \in Chars /\ LowerA \in Chars /\ Chars \subseteq Nat
    /\ NUL = 0 /\ NUL # Dot /\ NUL # Slash /\ Slash # Dot /\ UpperA # NUL /\ LowerA # NUL
    /\ LowerA # UpperA
  BY DEF NUL, Dot, Slash, UpperA, LowerA, Chars

\* strings.ToLower keeps the length and the NULs, and goes through \o.
LEMMA ToLowerLaws ==
    /\ \A s \in Text : /\ ToLower(s) \in Text /\ Len(ToLower(s)) = Len(s)
                       /\ Plain(s, NUL) => Plain(ToLower(s), NUL)
    /\ \A s, t \in Text : ToLower(s \o t) = ToLower(s) \o ToLower(t)
    /\ ToLower(<<NUL>>) = <<NUL>> /\ ToLower(<<>>) = <<>>
  <1>1. ASSUME NEW s \in Text
        PROVE  /\ ToLower(s) \in Text /\ Len(ToLower(s)) = Len(s)
               /\ \A i \in 1 .. Len(s) :
                      ToLower(s)[i] = IF s[i] = UpperA THEN LowerA ELSE s[i]
    BY Characters DEF Text, ToLower
  <1>2. ASSUME NEW s \in Text, Plain(s, NUL) PROVE Plain(ToLower(s), NUL)
    BY <1>1, <1>2, Characters DEF Plain
  <1>3. ASSUME NEW s \in Text, NEW t \in Text
        PROVE  ToLower(s \o t) = ToLower(s) \o ToLower(t)
    <2>1. PICK u \in Text : u = s \o t
      BY TextOperations
    <2>2. PICK x \in Text, y \in Text : x = ToLower(s) /\ y = ToLower(t)
      BY <1>1
    <2>3. /\ Len(u) = Len(s) + Len(t) /\ Len(s) \in Nat /\ Len(t) \in Nat
          /\ \A i \in 1 .. Len(s) + Len(t) :
                 u[i] = IF i <= Len(s) THEN s[i] ELSE t[i - Len(s)]
      BY <2>1, ConcatProperties, LenProperties DEF Text
    <2>4. /\ x \o y \in Seq(Chars) /\ Len(x \o y) = Len(x) + Len(y)
          /\ \A i \in 1 .. Len(x) + Len(y) :
                 (x \o y)[i] = IF i <= Len(x) THEN x[i] ELSE y[i - Len(x)]
      BY ConcatProperties DEF Text
    <2>5. Len(x) = Len(s) /\ Len(y) = Len(t)
      BY <1>1, <2>2
    <2>6. ASSUME NEW i \in 1 .. Len(u) PROVE ToLower(u)[i] = (x \o y)[i]
      <3>1. ToLower(u)[i] = IF u[i] = UpperA THEN LowerA ELSE u[i]
        BY <1>1
      <3>2. CASE i <= Len(s)
        <4>1. i \in 1 .. Len(s) /\ u[i] = s[i] /\ (x \o y)[i] = x[i]
          BY <2>3, <2>4, <2>5, <3>2
        <4>2. x[i] = IF s[i] = UpperA THEN LowerA ELSE s[i]
          BY <1>1, <2>2, <4>1
        <4>3. QED
          BY <3>1, <4>1, <4>2, Zenon
      <3>3. CASE ~ (i <= Len(s))
        <4>1. /\ i - Len(s) \in 1 .. Len(t) /\ u[i] = t[i - Len(s)]
              /\ (x \o y)[i] = y[i - Len(s)]
          BY <2>3, <2>4, <2>5, <3>3
        <4>2. y[i - Len(s)] = IF t[i - Len(s)] = UpperA THEN LowerA ELSE t[i - Len(s)]
          BY <1>1, <2>2, <4>1
        <4>3. QED
          BY <3>1, <4>1, <4>2, Zenon
      <3>4. QED
        BY <3>2, <3>3
    <2>7. ToLower(u) \in Seq(Chars) /\ Len(ToLower(u)) = Len(u)
      BY <1>1 DEF Text
    <2>8. ToLower(u) = x \o y
      BY <2>3, <2>4, <2>5, <2>6, <2>7, SeqEqual
    <2>9. QED
      BY <2>1, <2>2, <2>8, Zenon
  <1>4. ToLower(<<>>) = <<>>
    BY DEF ToLower
  <1>5. ToLower(<<NUL>>) = <<NUL>>
    <2>1. PICK z \in Text : z = <<NUL>>
      BY TextOperations, Characters
    <2>2. Len(z) = 1 /\ z[1] = NUL
      BY <2>1
    <2>3. Len(ToLower(z)) = 1 /\ ToLower(z)[1] = NUL /\ ToLower(z) \in Seq(Chars)
      BY <1>1, <2>2, Characters DEF Text
    <2>4. ToLower(z) = z
      BY <2>2, <2>3, SeqEqual DEF Text
    <2>5. QED
      BY <2>1, <2>4, Zenon
  <1>6. QED
    BY <1>1, <1>2, <1>3, <1>4, <1>5, Zenon

Lower(path) == [i \in 1 .. Len(path) |-> ToLower(path[i])]

\* Components in lower case are components.
LEMMA LowerType ==
    ASSUME NEW path \in Parts
    PROVE  /\ Lower(path) \in Parts /\ Len(Lower(path)) = Len(path)
           /\ \A i \in 1 .. Len(path) : Lower(path)[i] = ToLower(path[i])
           /\ AllPlain(path, NUL) => AllPlain(Lower(path), NUL)
  <1>1. Len(path) \in Nat /\ \A i \in 1 .. Len(path) : path[i] \in Text
    BY DEF Parts
  <1>2. \A i \in 1 .. Len(path) : ToLower(path[i]) \in Text
    BY <1>1, ToLowerLaws
  <1>3. /\ Lower(path) \in Parts /\ Len(Lower(path)) = Len(path)
        /\ \A i \in 1 .. Len(path) : Lower(path)[i] = ToLower(path[i])
    BY <1>1, <1>2 DEF Lower, Parts
  <1>4. ASSUME AllPlain(path, NUL) PROVE AllPlain(Lower(path), NUL)
    BY <1>1, <1>3, <1>4, ToLowerLaws DEF AllPlain
  <1>5. QED
    BY <1>3, <1>4

\* The key of a path is its names in lower case, joined.
LEMMA KeyOfPath ==
    ASSUME NEW path \in Parts
    PROVE  PathKey(path) = Join(Lower(path), NUL)
  <1> DEFINE S == {ps \in Parts : ToLower(Join(ps, NUL)) = Join(Lower(ps), NUL)}
  <1>1. <<>> \in S
    <2>1. PICK none \in Parts : none = <<>>
      BY EmptySeq DEF Parts
    <2>2. Lower(none) = <<>> /\ Len(none) = 0
      BY <2>1 DEF Lower
    <2>3. Join(none, NUL) = <<>>
      <3> DEFINE Rule(g) == g = [n \in 0 .. Len(none) |->
                                IF n = 0 THEN <<>>
                                ELSE IF n = 1 THEN none[1]
                                ELSE g[n - 1] \o <<NUL>> \o none[n]]
                 joined == CHOOSE g : Rule(g)
      <3>1. Rule([n \in 0 .. 0 |-> <<>>])
        BY <2>2
      <3>2. Rule(joined)
        BY <3>1, Zenon
      <3>3. Join(none, NUL) = joined[Len(none)]
        BY Zenon DEF Join
      <3> HIDE DEF joined
      <3>4. QED
        BY <2>2, <3>2, <3>3
    <2>4. QED
      BY <2>1, <2>2, <2>3, ToLowerLaws
  <1>2. ASSUME NEW ps \in Seq(Text), NEW p \in Text, ps \in S
        PROVE  Append(ps, p) \in S
    <2>0. NUL \in Chars /\ <<NUL>> \in Text
      BY Characters, TextOperations
    <2>1. PICK all \in Parts : all = Append(ps, p)
      BY AppendProperties DEF Parts
    <2>2. /\ ps \in Parts /\ Len(all) = Len(ps) + 1 /\ all[Len(ps) + 1] = p
          /\ Len(ps) \in Nat /\ \A i \in 1 .. Len(ps) : all[i] = ps[i]
      BY <2>1, AppendProperties, LenProperties DEF Parts
    <2>3. ToLower(p) \in Text
      BY ToLowerLaws
    <2>4. Lower(all) = Append(Lower(ps), ToLower(p))
      <3>1. PICK low \in Parts : low = Lower(ps)
        BY <2>2, LowerType
      <3>2. Len(low) = Len(ps) /\ \A i \in 1 .. Len(ps) : low[i] = ToLower(ps[i])
        BY <2>2, <3>1, LowerType
      <3>3. /\ Append(low, ToLower(p)) \in Seq(Text)
            /\ Len(Append(low, ToLower(p))) = Len(ps) + 1
            /\ \A i \in 1 .. Len(ps) : Append(low, ToLower(p))[i] = low[i]
            /\ Append(low, ToLower(p))[Len(ps) + 1] = ToLower(p)
        <4>1. \A e \in Text :
                  /\ Append(low, e) \in Seq(Text)
                  /\ Len(Append(low, e)) = Len(low) + 1
                  /\ \A i \in 1 .. Len(low) : Append(low, e)[i] = low[i]
                  /\ Append(low, e)[Len(low) + 1] = e
          BY AppendProperties DEF Parts
        <4>2. QED
          BY <2>3, <3>2, <4>1, Zenon
      <3>4. /\ Lower(all) \in Seq(Text) /\ Len(Lower(all)) = Len(ps) + 1
            /\ \A i \in 1 .. Len(ps) + 1 : Lower(all)[i] = ToLower(all[i])
        BY <2>2, LowerType DEF Parts
      <3>5. \A i \in 1 .. Len(ps) + 1 : Lower(all)[i] = Append(low, ToLower(p))[i]
        BY <2>2, <3>2, <3>3, <3>4
      <3>6. QED
        BY <3>1, <3>3, <3>4, <3>5, SeqEqual
    <2>5. CASE ps = <<>>
      <3>1. Join(all, NUL) = p
        BY <2>0, <2>1, <2>5, JoinLaws
      <3>2. Lower(ps) = <<>>
        BY <2>5 DEF Lower
      <3>3. Join(Lower(all), NUL) = ToLower(p)
        BY <2>0, <2>3, <2>4, <3>2, JoinLaws
      <3>4. QED
        BY <2>1, <3>1, <3>3
    <2>6. CASE ps # <<>>
      <3>1. Lower(ps) \in Parts /\ Lower(ps) # <<>>
        <4>1. Len(ps) # 0
          BY <2>6, EmptySeq
        <4>2. Lower(ps) \in Parts /\ Len(Lower(ps)) # 0
          BY <2>2, <4>1, LowerType
        <4>3. QED
          BY <4>2
      <3>2. Join(all, NUL) = (Join(ps, NUL) \o <<NUL>>) \o p /\ Join(ps, NUL) \in Text
        BY <2>0, <2>1, <2>2, <2>6, JoinLaws
      <3>3. Join(Lower(all), NUL) = (Join(Lower(ps), NUL) \o <<NUL>>) \o ToLower(p)
        BY <2>0, <2>3, <2>4, <3>1, JoinMore
      <3>4. ToLower((Join(ps, NUL) \o <<NUL>>) \o p)
                = (ToLower(Join(ps, NUL)) \o <<NUL>>) \o ToLower(p)
        <4>1. Join(ps, NUL) \o <<NUL>> \in Text
          BY <2>0, <3>2, TextOperations
        <4>2. ToLower((Join(ps, NUL) \o <<NUL>>) \o p)
                  = ToLower(Join(ps, NUL) \o <<NUL>>) \o ToLower(p)
          BY <4>1, ToLowerLaws
        <4>3. ToLower(Join(ps, NUL) \o <<NUL>>)
                  = ToLower(Join(ps, NUL)) \o ToLower(<<NUL>>)
          BY <2>0, <3>2, ToLowerLaws
        <4>4. ToLower(<<NUL>>) = <<NUL>>
          BY ToLowerLaws
        <4>5. QED
          BY <4>2, <4>3, <4>4, Zenon
      <3>5. ToLower(Join(ps, NUL)) = Join(Lower(ps), NUL)
        BY <1>2
      <3>6. ToLower(Join(all, NUL)) = Join(Lower(all), NUL)
        BY <3>2, <3>3, <3>4, <3>5, Zenon
      <3>7. QED
        BY <2>1, <3>6
    <2>7. QED
      BY <2>5, <2>6
  <1>3. \A ps \in Seq(Text) : ps \in S
    <2> HIDE DEF S
    <2>1. QED
      BY <1>1, <1>2, InductionAppend
  <1>4. QED
    BY <1>3 DEF Parts, PathKey

-----------------------------------------------------------------------------
(* Where a path leads.                                                     *)

\* A path that ReadFile lets pass.
Valid(path) ==
    /\ path \in Full
    /\ \A i \in 1 .. Len(path) : ValidatePathComponent(path[i])

\* What ValidatePathComponent makes sure of for every component.
LEMMA ValidComponents ==
    ASSUME NEW path, Valid(path)
    PROVE  /\ path \in Parts /\ Len(path) \in Nat \ {0}
           /\ AllPlain(path, NUL) /\ AllPlain(path, Slash)
           /\ \A i \in 1 .. Len(path) :
                  /\ path[i] \in Text /\ Len(path[i]) \in Nat \ {0}
                  /\ path[i] \notin {<<>>, <<Dot>>, <<Dot, Dot>>}
                  /\ path[i][Len(path[i])] # Dot
                  /\ path[i] # <<NUL>>
                  /\ ToLower(Stem(path[i])) \notin Devices
  <1>1. path \in Parts /\ Len(path) \in Nat \ {0}
    BY EmptySeq DEF Valid, Full, Parts
  <1>2. ASSUME NEW i \in 1 .. Len(path)
        PROVE  /\ path[i] \in Text /\ Len(path[i]) \in Nat \ {0}
               /\ path[i] \notin {<<>>, <<Dot>>, <<Dot, Dot>>}
               /\ path[i][Len(path[i])] # Dot
               /\ ToLower(Stem(path[i])) \notin Devices
               /\ Plain(path[i], NUL) /\ Plain(path[i], Slash)
    <2> DEFINE s == path[i]
    <2>1. s \in Text
      BY <1>1 DEF Parts
    <2>2. ValidatePathComponent(s)
      BY DEF Valid
    <2>3. Plain(s, NUL) /\ Plain(s, Slash)
      <3>1. DOMAIN s = 1 .. Len(s)
        BY <2>1 DEF Text
      <3> HIDE DEF s
      <3>2. QED
        BY <2>2, <3>1 DEF ValidatePathComponent, Range, Plain
    <2>4. s # <<>> /\ s # <<Dot>> /\ s # <<Dot, Dot>>
      BY <2>2, Zenon DEF ValidatePathComponent
    <2>5. Len(s) \in Nat \ {0}
      BY <2>1, <2>4, EmptySeq DEF Text
    <2>6. s[Len(s)] # Dot /\ ToLower(Stem(s)) \notin Devices
      BY <2>2, Zenon DEF ValidatePathComponent, Last
    <2>7. QED
      BY <2>1, <2>3, <2>4, <2>5, <2>6, Zenon
  <1>3. \A i \in 1 .. Len(path) : path[i] # <<NUL>>
    BY <1>2 DEF Plain
  <1>4. QED
    BY <1>1, <1>2, <1>3, Zenon DEF AllPlain

\* The names are the components again, and the walk goes down through them.
LEMMA ResolveValid ==
    ASSUME NEW path, Valid(path)
    PROVE  Resolve(path) = path
  <1> DEFINE top == Len(path)
  <1>1. Names(path) = path
    BY ValidComponents, SplitJoin, Characters DEF Names, Valid
  <1>2. top \in Nat \ {0} /\ path \in Seq(Text)
    BY ValidComponents DEF Parts
  <1> DEFINE Rule(f) == f = [n \in 0 .. top |->
                                IF n = 0 THEN <<>> ELSE Walk(f[n - 1], path[n])]
             walked == [n \in 0 .. top |-> SubSeq(path, 1, n)]
             at == CHOOSE f : Rule(f)
  <1>3. ASSUME NEW n \in 1 .. top
        PROVE  Walk(SubSeq(path, 1, n - 1), path[n]) = SubSeq(path, 1, n)
    <2>1. n - 1 \in 0 .. top /\ n \in Nat /\ path[n] \in Text
      BY <1>2
    <2>2. PICK before \in Seq(Text) : before = SubSeq(path, 1, n - 1)
      <3>1. \A i \in 1 .. n - 1 : path[i] \in Text
        BY <1>2, <2>1
      <3>2. SubSeq(path, 1, n - 1) \in Seq(Text)
        BY <2>1, <3>1, SubSeqProperties
      <3>3. QED
        BY <3>2
    <2>3. before # Outside
      <3> SUFFICES ASSUME before = Outside PROVE FALSE
        OBVIOUS
      <3>1. Len(before) = 1 /\ before[1] = <<NUL>>
        BY DEF Outside
      <3>2. /\ Len(before) = IF 1 <= n - 1 THEN (n - 1) - 1 + 1 ELSE 0
            /\ \A i \in 1 .. (n - 1) - 1 + 1 : before[i] = path[1 + i - 1]
        <4>1. \A i \in 1 .. n - 1 : path[i] \in Text
          BY <1>2, <2>1
        <4>2. QED
          BY <2>1, <2>2, <4>1, SubSeqProperties
      <3>3. before[1] = path[1]
        BY <2>1, <3>1, <3>2
      <3>4. QED
        BY <1>2, <3>1, <3>3, ValidComponents
    <2>4. path[n] \notin {<<>>, <<Dot>>, <<Dot, Dot>>}
      BY ValidComponents
    <2>5. Walk(before, path[n]) = Append(before, path[n])
      BY <2>3, <2>4, Zenon DEF Walk
    <2>6. SubSeq(path, 1, n) = before \o <<path[n]>>
      <3>1. 1 \in 1 .. Len(path) /\ n \in 1 .. Len(path)
        BY <1>2
      <3>2. QED
        BY <1>2, <2>2, <3>1, SubSeqRecursiveSecond
    <2>7. Append(before, path[n]) = before \o <<path[n]>>
      BY <2>1, AppendIsConcat
    <2>8. QED
      BY <2>2, <2>5, <2>6, <2>7, Zenon
  <1>4. \A n \in 0 .. top : walked[n] = SubSeq(path, 1, n)
    OBVIOUS
  <1>5. SubSeq(path, 1, 0) = <<>> /\ SubSeq(path, 1, top) = path
    BY <1>2, SubSeqEmpty, SubSeqFull
  <1>6. Rule(walked)
    <2>1. ASSUME NEW n \in 0 .. top, n # 0
          PROVE  SubSeq(path, 1, n) = Walk(walked[n - 1], path[n])
      <3>1. n \in 1 .. top /\ n - 1 \in 0 .. top
        BY <1>2, <2>1
      <3>2. walked[n - 1] = SubSeq(path, 1, n - 1)
        BY <3>1, Zenon
      <3>3. QED
        BY <1>3, <3>1, <3>2, Zenon
    <2>2. ASSUME NEW n \in 0 .. top
          PROVE  SubSeq(path, 1, n)
                     = IF n = 0 THEN <<>> ELSE Walk(walked[n - 1], path[n])
      BY <1>5, <2>1, Zenon
    <2>3. QED
      BY <2>2, Zenon
  <1>7. Rule(at)
    BY <1>6, Zenon
  <1>8. Resolve(path) = at[top]
    BY <1>1, Zenon DEF Resolve
  <1> HIDE DEF at, walked
  <1>9. \A n \in 0 .. top : at[n] = SubSeq(path, 1, n)
    <2> DEFINE S == {n \in 0 .. top : at[n] = SubSeq(path, 1, n)}
    <2>1. 0 \in S
      <3>1. 0 \in 0 .. top
        BY <1>2
      <3>2. at[0] = <<>>
        <4> HIDE DEF top
        <4>1. QED
          BY <1>7, <3>1
      <3>3. QED
        BY <1>5, <3>1, <3>2, Zenon
    <2>2. ASSUME NEW n \in 0 .. top - 1, n \in S PROVE n + 1 \in S
      <3>1. n + 1 \in 1 .. top /\ n + 1 \in 0 .. top /\ n + 1 # 0 /\ (n + 1) - 1 = n
        BY <1>2
      <3>2. at[n + 1] = Walk(at[n], path[n + 1])
        <4> HIDE DEF top
        <4>1. QED
          BY <1>7, <3>1
      <3>3. Walk(SubSeq(path, 1, n), path[n + 1]) = SubSeq(path, 1, n + 1)
        BY <1>3, <3>1
      <3>4. at[n + 1] = SubSeq(path, 1, n + 1)
        BY <2>2, <3>2, <3>3, Zenon
      <3>5. QED
        BY <3>1, <3>4
    <2>3. top \in Nat
      BY <1>2
    <2>4. \A n \in 0 .. top : n \in S
      <3> HIDE DEF S, top
      <3>1. QED
        BY <2>1, <2>2, <2>3, Induction
    <2>5. QED
      BY <2>4
  <1>10. at[top] = path
    BY <1>2, <1>5, <1>9
  <1>11. QED
    BY <1>8, <1>10

\* On disk its names are in lower case, and nothing is cut off.
LEMMA OnDiskValid ==
    ASSUME NEW path, Valid(path)
    PROVE  OnDisk(path) = Lower(path)
  <1>1. Resolve(path) = path
    BY ResolveValid
  <1>2. path \in Parts /\ DOMAIN path = 1 .. Len(path)
    BY ValidComponents DEF Parts
  <1>3. ASSUME NEW i \in 1 .. Len(path)
        PROVE  SubSeq(path[i], 1, SelectLastInSeq(path[i], LAMBDA char : char # Dot))
                   = path[i]
    <2> DEFINE s == path[i]
               I == {k \in 1 .. Len(s) : s[k] # Dot}
    <2>1. s \in Text /\ Len(s) \in Nat \ {0} /\ s[Len(s)] # Dot
      BY ValidComponents
    <2> HIDE DEF s
    <2>2. Len(s) \in I /\ \A k \in I : Len(s) >= k /\ k \in Nat
      BY <2>1
    <2>3. Max(I) = Len(s)
      <3>1. \A x \in I : (\A y \in I : x >= y) => x = Len(s)
        BY <2>2
      <3>2. \E x \in I : \A y \in I : x >= y
        BY <2>2
      <3> HIDE DEF I
      <3>3. Max(I) \in I /\ \A y \in I : Max(I) >= y
        BY <3>2, Zenon DEF Max
      <3>4. QED
        BY <3>1, <3>3
    <2>4. SelectLastInSeq(s, LAMBDA char : char # Dot) = Max(I)
      <3>1. I # {}
        BY <2>2
      <3>2. QED
        BY <3>1, Zenon DEF SelectLastInSeq
    <2>5. SubSeq(s, 1, Len(s)) = s
      BY <2>1, SubSeqFull DEF Text
    <2>6. SubSeq(s, 1, SelectLastInSeq(s, LAMBDA char : char # Dot)) = s
      BY <2>3, <2>4, <2>5, Zenon
    <2>7. QED
      BY <2>6 DEF s
  <1>4. OnDisk(path) = [i \in DOMAIN path |->
            ToLower(SubSeq(path[i], 1, SelectLastInSeq(path[i], LAMBDA char : char # Dot)))]
    BY <1>1, Zenon DEF OnDisk
  <1>5. \A i \in 1 .. Len(path) :
            ToLower(SubSeq(path[i], 1, SelectLastInSeq(path[i], LAMBDA char : char # Dot)))
                = ToLower(path[i])
    BY <1>3, Zenon
  <1>6. QED
    BY <1>2, <1>4, <1>5, Zenon DEF Lower

-----------------------------------------------------------------------------
(* Prefixes and the order of keys.                                         *)

\* s is where t begins.
Begins(s, t) == Len(s) <= Len(t) /\ \A i \in 1 .. Len(s) : s[i] = t[i]

\* IsPrefix, place by place.
LEMMA PrefixBegins ==
    ASSUME NEW E, NEW s \in Seq(E), NEW t \in Seq(E)
    PROVE  IsPrefix(s, t) <=> Begins(s, t)
  <1>1. /\ Len(s) \in Nat /\ Len(t) \in Nat
        /\ \A i \in 1 .. Len(t) : t[i] \in E
    BY LenProperties, ElementOfSeq
  <1>2. SubSeq(s, 1, Len(s)) = s
    BY SubSeqFull
  <1>3. ASSUME Len(s) <= Len(t)
        PROVE  (SubSeq(t, 1, Len(s)) = s) <=> (\A i \in 1 .. Len(s) : s[i] = t[i])
    <2>1. /\ SubSeq(t, 1, Len(s)) \in Seq(E)
          /\ Len(SubSeq(t, 1, Len(s))) = Len(s)
          /\ \A i \in 1 .. Len(s) : SubSeq(t, 1, Len(s))[i] = t[i]
      <3>1. \A i \in 1 .. Len(s) : t[i] \in E
        BY <1>1, <1>3
      <3>2. QED
        BY <1>1, <3>1, SubSeqProperties
    <2>2. ASSUME \A i \in 1 .. Len(s) : s[i] = t[i]
          PROVE  SubSeq(t, 1, Len(s)) = s
      BY <2>1, <2>2, SeqEqual
    <2>3. QED
      BY <2>1, <2>2
  <1>4. QED
    BY <1>2, <1>3, Zenon DEF IsPrefix, Begins

\* What begins another string is followed by the rest of it.
LEMMA PrefixRest ==
    ASSUME NEW E, NEW s \in Seq(E), NEW t \in Seq(E), IsPrefix(s, t)
    PROVE  \E u \in Seq(E) : t = s \o u
  <1> DEFINE u == SubSeq(t, Len(s) + 1, Len(t))
  <1>1. /\ Len(s) \in Nat /\ Len(t) \in Nat
        /\ \A i \in 1 .. Len(t) : t[i] \in E
    BY LenProperties, ElementOfSeq
  <1>2. Len(s) <= Len(t) /\ SubSeq(t, 1, Len(s)) = s
    BY SubSeqFull, Zenon DEF IsPrefix
  <1>3. u \in Seq(E)
    <2>1. \A i \in Len(s) + 1 .. Len(t) : t[i] \in E
      BY <1>1
    <2>2. QED
      BY <1>1, <2>1, SubSeqProperties
  <1>4. SubSeq(t, 1, Len(s)) \o u = SubSeq(t, 1, Len(t))
    <2>1. /\ 1 \in 1 .. Len(t) + 1 /\ Len(s) \in 1 - 1 .. Len(t)
          /\ Len(t) \in Len(s) .. Len(t)
      BY <1>1, <1>2
    <2>2. QED
      BY <2>1, ConcatAdjacentSubSeq
  <1>5. t = s \o u
    BY <1>2, <1>4, SubSeqFull, Zenon
  <1> HIDE DEF u
  <1>6. QED
    BY <1>3, <1>5

\* A string begins with the first of the strings it is made of.
LEMMA PrefixOfConcat ==
    ASSUME NEW E, NEW s \in Seq(E), NEW u \in Seq(E)
    PROVE  IsPrefix(s, s \o u)
  <1>1. PICK t \in Seq(E) : t = s \o u
    BY ConcatProperties
  <1>2. /\ Len(s) \in Nat /\ Len(u) \in Nat /\ Len(t) = Len(s) + Len(u)
        /\ \A i \in 1 .. Len(s) + Len(u) :
               t[i] = IF i <= Len(s) THEN s[i] ELSE u[i - Len(s)]
    BY <1>1, ConcatProperties, LenProperties
  <1>3. Begins(s, t)
    BY <1>2 DEF Begins
  <1>4. QED
    BY <1>1, <1>3, PrefixBegins

\* Every place of a string has a character.
LEMMA TextPlaces ==
    ASSUME NEW s \in Text
    PROVE  /\ s \in Seq(Chars) /\ Len(s) \in Nat /\ DOMAIN s = 1 .. Len(s)
           /\ \A i \in 1 .. Len(s) : s[i] \in Nat
  <1>1. s \in Seq(Chars)
    BY DEF Text
  <1>2. Len(s) \in Nat /\ DOMAIN s = 1 .. Len(s)
    BY <1>1, LenProperties
  <1>3. \A i \in 1 .. Len(s) : s[i] \in Chars
    BY <1>1, ElementOfSeq
  <1>4. QED
    BY <1>1, <1>2, <1>3, Characters, Zenon

\* s comes before t because of what is at i.
Before(s, t, i) ==
    /\ i \in 1 .. Len(s) + 1 /\ i \in 1 .. Len(t)
    /\ \A j \in 1 .. i - 1 : s[j] = t[j]
    /\ i <= Len(s) => s[i] < t[i]

\* Less, by the first place where two strings differ.
LEMMA LessBefore ==
    ASSUME NEW s \in Text, NEW t \in Text
    PROVE  Less(s, t) <=> \E i \in Nat : Before(s, t, i)
  <1>1. /\ Len(s) \in Nat /\ Len(t) \in Nat
        /\ DOMAIN s = 1 .. Len(s) /\ DOMAIN t = 1 .. Len(t)
    BY DEF Text
  <1>2. IsPrefix(s, t) <=> (Len(s) <= Len(t) /\ \A i \in 1 .. Len(s) : s[i] = t[i])
    BY PrefixBegins DEF Text, Begins
  <1>3. ASSUME IsStrictPrefix(s, t) PROVE Before(s, t, Len(s) + 1) /\ Len(s) + 1 \in Nat
    <2>1. Len(s) # Len(t)
      <3>1. ASSUME Len(s) = Len(t) PROVE s = t
        BY <1>2, <1>3, <3>1, SeqEqual DEF IsStrictPrefix, Text
      <3>2. QED
        BY <1>3, <3>1 DEF IsStrictPrefix
    <2>2. Len(s) + 1 \in 1 .. Len(t) /\ Len(s) + 1 \in 1 .. Len(s) + 1
      <3>1. Len(s) <= Len(t)
        BY <1>2, <1>3, Zenon DEF IsStrictPrefix
      <3>2. \A m, n \in Nat : m <= n /\ m # n => m + 1 \in 1 .. n /\ m + 1 \in 1 .. m + 1
        OBVIOUS
      <3>3. QED
        BY <1>1, <2>1, <3>1, <3>2, Zenon
    <2>3. QED
      BY <1>1, <1>2, <1>3, <2>2 DEF Before, IsStrictPrefix
  <1>4. ASSUME NEW i \in DOMAIN s \cap DOMAIN t, s[i] < t[i],
               \A j \in 1 .. i - 1 : s[j] = t[j]
        PROVE  Before(s, t, i) /\ i \in Nat
    BY <1>1, <1>4 DEF Before
  <1>5. ASSUME NEW i \in Nat, Before(s, t, i) PROVE Less(s, t)
    <2>1. CASE i <= Len(s)
      <3>1. i \in DOMAIN s \cap DOMAIN t
        BY <1>1, <1>5, <2>1 DEF Before
      <3>2. QED
        BY <1>5, <2>1, <3>1 DEF Before, Less
    <2>2. CASE ~ (i <= Len(s))
      <3>1. i = Len(s) + 1 /\ Len(s) < Len(t) /\ i - 1 = Len(s)
        BY <1>1, <1>5, <2>2 DEF Before
      <3>2. IsPrefix(s, t) /\ s # t
        BY <1>1, <1>2, <1>5, <3>1 DEF Before
      <3>3. QED
        BY <3>2 DEF Less, IsStrictPrefix
    <2>3. QED
      BY <2>1, <2>2
  <1>6. QED
    BY <1>3, <1>4, <1>5 DEF Less

\* Less is a strict order.
LEMMA LessOrder ==
    /\ \A s \in Text : ~Less(s, s)
    /\ \A s, t, u \in Text : Less(s, t) /\ Less(t, u) => Less(s, u)
  <1>1. \A s \in Text : Len(s) \in Nat /\ \A i \in 1 .. Len(s) : s[i] \in Nat
    BY TextPlaces, Zenon
  <1>2. ASSUME NEW s \in Text, Less(s, s) PROVE FALSE
    <2>1. PICK i \in Nat : Before(s, s, i)
      BY <1>2, LessBefore
    <2>2. i \in 1 .. Len(s) /\ s[i] \in Nat /\ s[i] < s[i]
      BY <1>1, <2>1 DEF Before
    <2>3. QED
      BY <2>2
  <1>3. ASSUME NEW s \in Text, NEW t \in Text, NEW u \in Text, Less(s, t), Less(t, u)
        PROVE  Less(s, u)
    <2>1. PICK i \in Nat : Before(s, t, i)
      BY <1>3, LessBefore
    <2>2. PICK k \in Nat : Before(t, u, k)
      BY <1>3, LessBefore
    <2>3. /\ Len(s) \in Nat /\ Len(t) \in Nat /\ Len(u) \in Nat
          /\ \A j \in 1 .. Len(s) : s[j] \in Nat
          /\ \A j \in 1 .. Len(t) : t[j] \in Nat
          /\ \A j \in 1 .. Len(u) : u[j] \in Nat
      BY <1>1
    <2>4. CASE i < k
      <3>1. Before(s, u, i)
        BY <2>1, <2>2, <2>3, <2>4 DEF Before
      <3>2. QED
        BY <3>1, LessBefore
    <2>5. CASE i = k
      <3>1. Before(s, u, i)
        BY <2>1, <2>2, <2>3, <2>5 DEF Before
      <3>2. QED
        BY <3>1, LessBefore
    <2>6. CASE k < i
      <3>1. Before(s, u, k)
        BY <2>1, <2>2, <2>3, <2>6 DEF Before
      <3>2. QED
        BY <3>1, LessBefore
    <2>7. QED
      BY <2>4, <2>5, <2>6
  <1>4. QED
    BY <1>2, <1>3

\* What a directory is, place by place.
LEMMA DirectoryPlaces ==
    ASSUME NEW a \in Text, NEW b \in Text
    PROVE  UsedAsDirectory(a, b) <=> (/\ Len(a) < Len(b)
                                      /\ \A i \in 1 .. Len(a) : b[i] = a[i]
                                      /\ b[Len(a) + 1] = NUL)
  <1>1. PICK d \in Text : d = a \o <<NUL>>
    BY TextOperations, Characters
  <1>2. /\ Len(a) \in Nat /\ Len(b) \in Nat /\ Len(d) = Len(a) + 1
        /\ \A i \in 1 .. Len(a) : d[i] = a[i]
        /\ d[Len(a) + 1] = NUL
    <2>1. Len(a) \in Nat /\ Len(b) \in Nat
      BY DEF Text
    <2>2. PICK z \in Text : z = <<NUL>> /\ Len(z) = 1 /\ z[1] = NUL
      BY TextOperations, Characters
    <2>3. /\ Len(a \o z) = Len(a) + Len(z)
          /\ \A i \in 1 .. Len(a) + Len(z) :
                 (a \o z)[i] = IF i <= Len(a) THEN a[i] ELSE z[i - Len(a)]
      BY ConcatProperties DEF Text
    <2>4. /\ Len(d) = Len(a) + 1
          /\ \A i \in 1 .. Len(a) + 1 : d[i] = IF i <= Len(a) THEN a[i] ELSE z[i - Len(a)]
      BY <1>1, <2>2, <2>3
    <2>5. QED
      BY <2>1, <2>2, <2>4
  <1>3. IsPrefix(d, b) <=> (Len(d) <= Len(b) /\ \A i \in 1 .. Len(d) : d[i] = b[i])
    BY PrefixBegins DEF Text, Begins
  <1>4. UsedAsDirectory(a, b) <=> IsPrefix(d, b)
    BY <1>1, Zenon DEF UsedAsDirectory
  <1>5. QED
    BY <1>2, <1>3, <1>4

\* A NUL is the lowest character: whatever is between a file and what it is a
\* directory of has it as a directory, too.
LEMMA DirectoryBetween ==
    ASSUME NEW a \in Text, NEW b \in Text, NEW k \in Text,
           UsedAsDirectory(a, b), Less(a, k), Less(k, b)
    PROVE  UsedAsDirectory(a, k)
  <1>1. PICK i \in Nat : Before(a, k, i)
    BY LessBefore
  <1>2. PICK j \in Nat : Before(k, b, j)
    BY LessBefore
  <1>3. /\ Len(a) < Len(b)
        /\ \A n \in 1 .. Len(a) : b[n] = a[n]
        /\ b[Len(a) + 1] = NUL
    BY DirectoryPlaces
  <1>4. /\ Len(a) \in Nat /\ Len(b) \in Nat /\ Len(k) \in Nat /\ NUL = 0
        /\ \A n \in 1 .. Len(a) : a[n] \in Nat
        /\ \A n \in 1 .. Len(b) : b[n] \in Nat
        /\ \A n \in 1 .. Len(k) : k[n] \in Nat
    BY Characters, TextPlaces, Zenon
  <1>5. i = Len(a) + 1
    <2> SUFFICES ASSUME i <= Len(a) PROVE FALSE
      BY <1>1, <1>4 DEF Before
    <2>1. a[i] < k[i] /\ i \in 1 .. Len(a) /\ i \in 1 .. Len(k) /\ b[i] = a[i]
      BY <1>1, <1>3, <1>4 DEF Before
    <2>2. CASE j < i
      <3>1. k[j] < b[j] /\ a[j] = k[j] /\ b[j] = a[j] /\ j \in 1 .. Len(b)
        BY <1>1, <1>2, <1>3, <1>4, <2>1, <2>2 DEF Before
      <3>2. QED
        BY <1>4, <3>1
    <2>3. CASE j = i
      <3>1. k[i] < b[i]
        BY <1>2, <2>1, <2>3 DEF Before
      <3>2. QED
        BY <1>4, <2>1, <3>1
    <2>4. CASE i < j
      <3>1. k[i] = b[i]
        BY <1>2, <2>1, <2>4 DEF Before
      <3>2. QED
        BY <1>4, <2>1, <3>1
    <2>5. QED
      BY <2>2, <2>3, <2>4
  <1>6. Len(a) < Len(k) /\ \A n \in 1 .. Len(a) : k[n] = a[n]
    BY <1>1, <1>4, <1>5 DEF Before
  <1>7. k[Len(a) + 1] = NUL
    <2>1. Len(a) + 1 \in 1 .. Len(k) /\ Len(a) + 1 \in 1 .. Len(b)
      BY <1>3, <1>4, <1>6
    <2>2. CASE j <= Len(a)
      <3>1. k[j] < b[j] /\ k[j] = a[j] /\ b[j] = a[j] /\ j \in 1 .. Len(b)
        BY <1>2, <1>3, <1>4, <1>6, <2>2 DEF Before
      <3>2. QED
        BY <1>4, <3>1
    <2>3. CASE j = Len(a) + 1
      <3>1. k[Len(a) + 1] < b[Len(a) + 1]
        BY <1>2, <2>1, <2>3 DEF Before
      <3>2. k[Len(a) + 1] \in Nat /\ b[Len(a) + 1] = 0
        BY <1>3, <1>4, <2>1
      <3>3. QED
        BY <3>1, <3>2
    <2>4. CASE j > Len(a) + 1
      <3>1. k[Len(a) + 1] = b[Len(a) + 1]
        BY <1>2, <1>4, <2>4 DEF Before
      <3>2. QED
        BY <1>3, <3>1
    <2>5. QED
      BY <1>4, <2>2, <2>3, <2>4
  <1>8. QED
    BY <1>6, <1>7, DirectoryPlaces

\* One of finitely many keys has no other before it.
LEMMA LeastKey ==
    ASSUME NEW top \in Nat, NEW key, NEW T,
           \A n \in 1 .. top : key[n] \in Text,
           \E n \in 1 .. top : key[n] \in T
    PROVE  \E m \in 1 .. top :
               /\ key[m] \in T
               /\ \A n \in 1 .. top : key[n] \in T => ~Less(key[n], key[m])
  <1> DEFINE Least(m, up) == /\ key[m] \in T
                             /\ \A n \in 1 .. up : key[n] \in T => ~Less(key[n], key[m])
             S == {up \in 0 .. top : (\E n \in 1 .. up : key[n] \in T) =>
                                         \E m \in 1 .. up : Least(m, up)}
  <1>1. 0 \in S
    OBVIOUS
  <1>2. ASSUME NEW up \in 0 .. top - 1, up \in S PROVE up + 1 \in S
    <2>1. up + 1 \in 0 .. top /\ up + 1 \in 1 .. top /\ up \in Nat
      OBVIOUS
    <2> SUFFICES ASSUME \E n \in 1 .. up + 1 : key[n] \in T
                 PROVE  \E m \in 1 .. up + 1 : Least(m, up + 1)
      BY <2>1
    <2>2. \A n \in 1 .. up + 1 : n \in 1 .. up \/ n = up + 1
      BY <2>1
    <2>3. ~Less(key[up + 1], key[up + 1])
      BY <2>1, LessOrder
    <2>4. CASE key[up + 1] \notin T
      <3>1. PICK m \in 1 .. up : Least(m, up)
        BY <1>2, <2>2, <2>4
      <3>2. Least(m, up + 1) /\ m \in 1 .. up + 1
        BY <2>1, <2>2, <2>4, <3>1
      <3> HIDE DEF Least
      <3>3. QED
        BY <3>2
    <2>5. CASE key[up + 1] \in T /\ ~ \E n \in 1 .. up : key[n] \in T
      <3>1. Least(up + 1, up + 1) /\ up + 1 \in 1 .. up + 1
        BY <2>1, <2>2, <2>3, <2>5
      <3> HIDE DEF Least
      <3>2. QED
        BY <3>1
    <2>6. CASE key[up + 1] \in T /\ \E n \in 1 .. up : key[n] \in T
      <3>1. PICK m \in 1 .. up : Least(m, up)
        BY <1>2, <2>6
      <3>2. CASE Less(key[up + 1], key[m])
        <4>1. ASSUME NEW n \in 1 .. up, key[n] \in T, Less(key[n], key[up + 1])
              PROVE  FALSE
          <5>1. key[n] \in Text /\ key[m] \in Text /\ key[up + 1] \in Text
            BY <2>1
          <5>2. Less(key[n], key[m])
            BY <3>2, <4>1, <5>1, LessOrder
          <5>3. QED
            BY <3>1, <4>1, <5>2
        <4>2. Least(up + 1, up + 1) /\ up + 1 \in 1 .. up + 1
          BY <2>1, <2>2, <2>3, <2>6, <4>1
        <4> HIDE DEF Least
        <4>3. QED
          BY <4>2
      <3>3. CASE ~Less(key[up + 1], key[m])
        <4>1. Least(m, up + 1) /\ m \in 1 .. up + 1
          BY <2>1, <2>2, <3>1, <3>3
        <4> HIDE DEF Least
        <4>2. QED
          BY <4>1
      <3>4. QED
        BY <3>2, <3>3
    <2>7. QED
      BY <2>4, <2>5, <2>6
  <1>3. \A n \in 0 .. top : n \in S
    <2> HIDE DEF S
    <2>1. QED
      BY <1>1, <1>2, Induction
  <1>4. top \in S
    <2> HIDE DEF S
    <2>1. top \in 0 .. top
      OBVIOUS
    <2>2. QED
      BY <1>3, <2>1
  <1>5. QED
    BY <1>4, Zenon

\* The key of a valid path is as good as its names on disk.
LEMMA ValidKey ==
    ASSUME NEW path, Valid(path)
    PROVE  /\ Lower(path) \in Full /\ AllPlain(Lower(path), NUL)
           /\ PathKey(path) = Join(Lower(path), NUL)
           /\ PathKey(path) \in Text
           /\ Split(PathKey(path), NUL) = Lower(path)
  <1>1. path \in Parts /\ Len(path) \in Nat \ {0} /\ AllPlain(path, NUL)
    BY ValidComponents
  <1>2. /\ Lower(path) \in Parts /\ Len(Lower(path)) = Len(path)
        /\ AllPlain(Lower(path), NUL)
    BY <1>1, LowerType
  <1>3. Lower(path) \in Full
    <2>1. Lower(path) # <<>>
      BY <1>1, <1>2
    <2>2. QED
      BY <1>2, <2>1 DEF Full
  <1>4. PathKey(path) = Join(Lower(path), NUL)
    BY <1>1, KeyOfPath
  <1>5. Join(Lower(path), NUL) \in Text
    BY <1>2, JoinLaws, Characters
  <1>6. Split(Join(Lower(path), NUL), NUL) = Lower(path)
    BY <1>2, <1>3, SplitJoin, Characters
  <1>7. QED
    BY <1>2, <1>3, <1>4, <1>5, <1>6, Zenon

\* A file is a directory of another by its key exactly if it is so on disk.
LEMMA DirectoryOnDisk ==
    ASSUME NEW p, NEW q, Valid(p), Valid(q)
    PROVE  UsedAsDirectory(PathKey(p), PathKey(q)) <=> IsStrictPrefix(Lower(p), Lower(q))
  <1> DEFINE a == Lower(p)
             b == Lower(q)
             s == Join(a, NUL)
             t == Join(b, NUL)
  <1>1. /\ a \in Full /\ b \in Full /\ s = PathKey(p) /\ t = PathKey(q)
        /\ s \in Text /\ t \in Text /\ Split(s, NUL) = a /\ Split(t, NUL) = b
    BY ValidKey, Zenon
  <1> HIDE DEF a, b
  <1>2. /\ a \in Seq(Text) /\ b \in Seq(Text) /\ NUL \in Chars
        /\ s \o <<NUL>> \in Text /\ s \o <<NUL>> \in Seq(Chars) /\ t \in Seq(Chars)
    BY <1>1, Characters, TextOperations DEF Full, Parts, Text
  <1>3. ASSUME IsPrefix(s \o <<NUL>>, t) PROVE IsStrictPrefix(a, b)
    <2>1. PICK u \in Seq(Chars) : t = (s \o <<NUL>>) \o u
      BY <1>2, <1>3, PrefixRest
    <2>2. u \in Text /\ Split(u, NUL) \in Full
      BY <1>2, SplitLaws DEF Text
    <2>3. Split(t, NUL) = Split(s, NUL) \o Split(u, NUL)
      BY <1>1, <1>2, <2>1, <2>2, SplitParts
    <2>4. PICK rest \in Full : b = a \o rest
      BY <1>1, <2>2, <2>3, Zenon
    <2>5. rest \in Seq(Text) /\ rest # <<>>
      BY DEF Full, Parts
    <2>6. IsPrefix(a, b)
      BY <1>2, <2>4, <2>5, PrefixOfConcat
    <2>7. a # b
      BY <1>2, <2>4, <2>5, ConcatEqualIffEmpty
    <2>8. QED
      BY <2>6, <2>7 DEF IsStrictPrefix
  <1>4. ASSUME IsStrictPrefix(a, b) PROVE IsPrefix(s \o <<NUL>>, t)
    <2>1. PICK rest \in Seq(Text) : b = a \o rest
      BY <1>2, <1>4, PrefixRest DEF IsStrictPrefix
    <2>2. rest # <<>>
      BY <1>2, <1>4, <2>1, ConcatEmptySeq DEF IsStrictPrefix
    <2>3. rest \in Full
      BY <2>2 DEF Full, Parts
    <2>4. t = (s \o <<NUL>>) \o Join(rest, NUL)
      BY <1>1, <1>2, <2>1, <2>3, JoinConcat
    <2>5. Join(rest, NUL) \in Seq(Chars)
      BY <1>2, <2>3, JoinLaws DEF Full, Text
    <2>6. QED
      BY <1>2, <2>4, <2>5, PrefixOfConcat
  <1>5. QED
    BY <1>1, <1>3, <1>4, Zenon DEF a, b, UsedAsDirectory

-----------------------------------------------------------------------------
(* Sums.                                                                   *)

\* The sums of the first numbers.
Adding(f, numbers) ==
    /\ f \in [0 .. Len(numbers) -> Int]
    /\ f[0] = 0
    /\ \A n \in 1 .. Len(numbers) : f[n] = f[n - 1] + numbers[n]
    /\ Sum(numbers) = f[Len(numbers)]

\* Sum has these steps.
LEMMA SumSteps ==
    ASSUME NEW numbers \in Seq(Int)
    PROVE  \E f : Adding(f, numbers)
  <1> DEFINE top == Len(numbers)
             Rule(f) == f = [n \in 0 .. top |->
                                IF n = 0 THEN 0 ELSE f[n - 1] + numbers[n]]
             step == [n \in Nat |-> [x \in Int |->
                                       IF n \in 1 .. top THEN x + numbers[n] ELSE 0]]
             sum == CHOOSE f : Rule(f)
  <1>1. top \in Nat /\ \A n \in 1 .. top : numbers[n] \in Int
    BY LenProperties, ElementOfSeq
  <1>2. step \in [Nat -> [Int -> Int]]
    BY <1>1
  <1>3. PICK f \in [0 .. top -> Int] : f[0] = 0 /\ Follows(f, step, top)
    <2> HIDE DEF step, top
    <2>1. 0 \in Int
      OBVIOUS
    <2>2. QED
      BY <1>1, <1>2, <2>1, BoundedRecursion, Zenon
  <1>4. ASSUME NEW n \in 1 .. top PROVE f[n] = f[n - 1] + numbers[n]
    <2>1. /\ n - 1 \in 0 .. top - 1 /\ n - 1 \in 0 .. top /\ (n - 1) + 1 = n /\ n \in Nat
      BY <1>1
    <2>2. f[n] = step[n][f[n - 1]] /\ f[n - 1] \in Int
      BY <1>3, <2>1 DEF Follows
    <2> HIDE DEF top
    <2>3. QED
      BY <2>1, <2>2
  <1>5. Rule(f)
    <2>1. ASSUME NEW n \in 0 .. top, n # 0 PROVE f[n] = f[n - 1] + numbers[n]
      <3>1. n \in 1 .. top
        BY <1>1, <2>1
      <3>2. QED
        BY <1>4, <3>1
    <2> HIDE DEF top
    <2>2. QED
      BY <1>3, <2>1
  <1>6. Rule(sum)
    BY <1>5, Zenon
  <1>7. Sum(numbers) = sum[top]
    BY Zenon DEF Sum
  <1> HIDE DEF sum
  <1>8. sum = f
    <2> DEFINE S == {n \in 0 .. top : sum[n] = f[n]}
    <2>1. 0 \in S
      BY <1>1, <1>3, <1>6
    <2>2. ASSUME NEW n \in 0 .. top - 1, n \in S PROVE n + 1 \in S
      <3>1. n + 1 \in 1 .. top /\ n + 1 \in 0 .. top /\ n + 1 # 0 /\ (n + 1) - 1 = n
        BY <1>1
      <3>2. sum[n + 1] = sum[n] + numbers[n + 1]
        <4> HIDE DEF top
        <4>1. QED
          BY <1>6, <3>1
      <3>3. f[n + 1] = f[n] + numbers[n + 1]
        BY <1>4, <3>1
      <3>4. QED
        BY <2>2, <3>1, <3>2, <3>3
    <2>3. \A n \in 0 .. top : n \in S
      <3> HIDE DEF S, top
      <3>1. QED
        BY <1>1, <2>1, <2>2, Induction
    <2>4. \A n \in 0 .. top : sum[n] = f[n]
      BY <2>3
    <2> HIDE DEF top
    <2>5. sum = [n \in 0 .. top |-> sum[n]]
      BY <1>6
    <2>6. f = [n \in 0 .. top |-> f[n]]
      BY <1>3
    <2>7. QED
      BY <2>4, <2>5, <2>6, Zenon
  <1>9. Adding(f, numbers)
    <2> HIDE DEF step
    <2>1. QED
      BY <1>3, <1>4, <1>7, <1>8, Zenon DEF Adding
  <1>10. QED
    BY <1>9

\* A function with the first sum and the steps of the sums has them all.
LEMMA SumOf ==
    ASSUME NEW numbers \in Seq(Int), NEW f, f[0] = 0,
           \A n \in 1 .. Len(numbers) : f[n] = f[n - 1] + numbers[n]
    PROVE  Sum(numbers) = f[Len(numbers)]
  <1> DEFINE top == Len(numbers)
  <1>1. PICK g : Adding(g, numbers)
    BY SumSteps
  <1> DEFINE S == {n \in 0 .. top : f[n] = g[n]}
  <1>2. top \in Nat
    BY LenProperties
  <1>3. 0 \in S
    BY <1>1, <1>2 DEF Adding
  <1>4. ASSUME NEW n \in 0 .. top - 1, n \in S PROVE n + 1 \in S
    <2>1. n + 1 \in 1 .. top /\ n + 1 \in 0 .. top /\ (n + 1) - 1 = n
      BY <1>2
    <2>2. f[n + 1] = f[n] + numbers[n + 1]
      BY <2>1
    <2>3. g[n + 1] = g[n] + numbers[n + 1]
      BY <1>1, <2>1 DEF Adding
    <2>4. QED
      BY <1>4, <2>1, <2>2, <2>3
  <1>5. \A n \in 0 .. top : n \in S
    <2> HIDE DEF S, top
    <2>1. QED
      BY <1>2, <1>3, <1>4, Induction
  <1>6. f[top] = g[top]
    BY <1>2, <1>5
  <1>7. QED
    BY <1>1, <1>6 DEF Adding

\* One number more.
LEMMA SumMore ==
    ASSUME NEW numbers \in Seq(Int), NEW x \in Int
    PROVE  Sum(Append(numbers, x)) = Sum(numbers) + x
  <1> DEFINE top == Len(numbers)
  <1>1. PICK more \in Seq(Int) : more = Append(numbers, x)
    BY AppendProperties
  <1>2. /\ top \in Nat /\ Len(more) = top + 1 /\ more[top + 1] = x
        /\ \A n \in 1 .. top : more[n] = numbers[n]
    BY <1>1, AppendProperties, LenProperties
  <1>3. PICK g : Adding(g, more)
    BY SumSteps
  <1>4. \A n \in 1 .. top : n \in 1 .. top + 1
    BY <1>2
  <1>5. g[0] = 0 /\ \A n \in 1 .. top : g[n] = g[n - 1] + numbers[n]
    BY <1>2, <1>3, <1>4 DEF Adding
  <1>6. Sum(numbers) = g[top]
    BY <1>5, SumOf
  <1>7. top + 1 \in 1 .. top + 1 /\ (top + 1) - 1 = top
    BY <1>2
  <1>8. g[top + 1] = g[top] + x
    <2> HIDE DEF top
    <2>1. QED
      BY <1>2, <1>3, <1>7 DEF Adding
  <1>9. QED
    BY <1>1, <1>2, <1>3, <1>6, <1>8 DEF Adding

-----------------------------------------------------------------------------
(* Pieces.                                                                 *)

\* All pieces but the last have the standard length, and the last has the rest.
LEMMA PiecesFit ==
    ASSUME NEW bytes \in Nat, NEW standard \in Nat \ {0}, NEW count,
           count = pieceCount(bytes, standard), bytes # 0
    PROVE  /\ count \in Nat \ {0}
           /\ bytes - (count - 1) * standard \in 1 .. standard
  <1> DEFINE q == bytes \div standard
             r == bytes % standard
  <1>1. q \in Nat /\ r \in 0 .. standard - 1 /\ bytes = standard * q + r
    BY Z3
  <1>2. count = q + (IF r # 0 THEN 1 ELSE 0)
    BY DEF pieceCount
  <1> HIDE DEF q, r
  <1>3. q * standard = standard * q /\ (q - 1) * standard = standard * q - standard
    BY <1>1
  <1>4. CASE r = 0
    <2>1. count = q /\ bytes = standard * q
      BY <1>1, <1>2, <1>4
    <2>2. q # 0
      BY <1>1, <2>1
    <2>3. bytes - (q - 1) * standard = standard
      BY <1>1, <1>3, <2>1
    <2>4. QED
      BY <1>1, <2>1, <2>2, <2>3
  <1>5. CASE r # 0
    <2>1. count = q + 1 /\ count - 1 = q
      BY <1>1, <1>2, <1>5
    <2>2. bytes - q * standard = r
      BY <1>1, <1>3
    <2>3. QED
      BY <1>1, <1>5, <2>1, <2>2
  <1>6. QED
    BY <1>4, <1>5

-----------------------------------------------------------------------------
(* The invariant.                                                          *)

FileType == [length : 0 .. MaxInt64, path : Parts]

Keys == {PathKey(files[i].path) : i \in 1 .. Len(files)}

\* What the loop of extractFiles has made sure of for the entries so far.
FilesInv ==
    /\ files \in Seq(FileType)
    /\ \A i \in 1 .. Len(files) : Valid(files[i].path)
    /\ seen = Keys
    /\ \A i, j \in 1 .. Len(files) :
           i # j => PathKey(files[i].path) # PathKey(files[j].path)

Lengths == [i \in 1 .. Len(files) |-> files[i].length]

\* The total is the sum on paper: it has not wrapped around.
TotalInv ==
    /\ total \in 0 .. MaxInt64
    /\ phase = "length" => files = <<>>
    /\ phase = "files" \/ files # <<>> => total = Sum(Lengths)

\* What the last checks have found out.
VerdictInv ==
    /\ FilesAccepted => \A key, next \in seen : ~UsedAsDirectory(key, next)
    /\ phase = "directory" => \E key, next \in seen : UsedAsDirectory(key, next)
    /\ phase = "accepted" => /\ pieceLength \in Nat \ {0}
                             /\ numPieces = pieceCount(total, pieceLength)

MetainfoInv == TypeOK /\ FilesInv /\ TotalInv /\ VerdictInv

\* What the assumption says of the constants.
LEMMA Constants ==
    /\ MaxInt64 \in Nat /\ MaxPieceLength \in Nat \ {0} /\ MaxHashes \in Nat
    /\ Components \subseteq Text
    /\ \A length \in FileLengths : length \in Int /\ length <= MaxInt64
  BY MetainfoParserAssumption DEF Text

\* Nothing adds up to nothing.
LEMMA EmptySum == Sum(<<>>) = 0
  <1>1. PICK none \in Seq(Int) : none = <<>> /\ Len(none) = 0
    BY EmptySeq
  <1>2. PICK f : Adding(f, none)
    BY SumSteps
  <1>3. Sum(none) = 0
    BY <1>1, <1>2 DEF Adding
  <1>4. QED
    BY <1>1, <1>3, Zenon

\* ExtractMeta starts with nothing read.
LEMMA InitInv == Init => MetainfoInv
  <1> SUFFICES ASSUME Init PROVE MetainfoInv
    OBVIOUS
  <1>1. /\ phase \in {"files", "length"} /\ files = <<>> /\ seen = {} /\ total = 0
        /\ pieceLength = 0 /\ numPieces = 0 /\ Len(files) = 0
    BY DEF Init
  <1>2. TypeOK
    BY <1>1, Constants DEF TypeOK
  <1>3. FilesInv
    <2>1. files \in Seq(FileType)
      BY <1>1
    <2>2. Keys = {}
      BY <1>1 DEF Keys
    <2>3. QED
      BY <1>1, <2>1, <2>2 DEF FilesInv
  <1>4. TotalInv
    <2>1. Lengths = <<>>
      BY <1>1 DEF Lengths
    <2>2. QED
      BY <1>1, <2>1, EmptySum, Constants DEF TotalInv
  <1>5. VerdictInv
    BY <1>1 DEF VerdictInv, FilesAccepted
  <1>6. QED
    BY <1>2, <1>3, <1>4, <1>5 DEF MetainfoInv

\* A rejection leaves everything else as it is.
LEMMA RejectStep ==
    ASSUME MetainfoInv, NEW reason \in {"malformed", "duplicate", "overflow"},
           Reject(reason)
    PROVE  MetainfoInv'
  <1>1. TypeOK'
    BY DEF MetainfoInv, TypeOK, Reject
  <1>2. FilesInv'
    BY DEF MetainfoInv, FilesInv, Keys, Reject
  <1>3. TotalInv'
    BY DEF MetainfoInv, TotalInv, Lengths, Reject
  <1>4. VerdictInv'
    BY DEF MetainfoInv, VerdictInv, FilesAccepted, Reject
  <1>5. QED
    BY <1>1, <1>2, <1>3, <1>4 DEF MetainfoInv

\* Paths that the metainfo contains are lists of strings.
LEMMA PathType == \A path \in Paths : path \in Parts
  <1> SUFFICES ASSUME NEW path \in Paths PROVE path \in Parts
    OBVIOUS
  <1>1. PICK n \in 0 .. MaxDepth : path \in [1 .. n -> Components]
    BY DEF Paths, BoundedSeq, SeqOf
  <1>2. n \in Nat
    BY <1>1
  <1>3. path \in [1 .. n -> Text]
    BY <1>1, Constants
  <1>4. path \in Seq(Text)
    BY <1>2, <1>3
  <1>5. QED
    BY <1>4 DEF Parts

\* An entry is added.
LEMMA AddStep ==
    ASSUME MetainfoInv, phase = "files",
           NEW length \in FileLengths, NEW path \in Paths,
           ~(length < 0), path # <<>>,
           \A i \in DOMAIN path : ValidatePathComponent(path[i]),
           PathKey(path) \notin seen, Fits(length),
           files' = Append(files, [length |-> length, path |-> path]),
           seen' = seen \cup {PathKey(path)},
           total' = Add(total, length),
           UNCHANGED <<phase, pieceLength, numPieces>>
    PROVE  MetainfoInv'
  <1> DEFINE file == [length |-> length, path |-> path]
             top == Len(files)
  <1>1. /\ path \in Parts /\ DOMAIN path = 1 .. Len(path)
        /\ length \in 0 .. MaxInt64 /\ MaxInt64 \in Nat
    BY PathType, Constants DEF Parts
  <1>2. Valid(path)
    BY <1>1 DEF Valid, Full
  <1>3. file \in FileType /\ file.path = path /\ file.length = length
    BY <1>1 DEF FileType
  <1> HIDE DEF file
  <1>4. files \in Seq(FileType) /\ top \in Nat
    BY LenProperties DEF MetainfoInv, FilesInv
  <1>5. /\ files' \in Seq(FileType) /\ Len(files') = top + 1
        /\ files'[top + 1] = file
        /\ \A i \in 1 .. top : files'[i] = files[i]
    <2>1. files' = Append(files, file)
      BY DEF file
    <2>2. QED
      BY <1>3, <1>4, <2>1, AppendProperties
  <1>6. \A i \in 1 .. top + 1 : i \in 1 .. top \/ i = top + 1
    BY <1>4
  <1>7. /\ \A i \in 1 .. top : files'[i].path = files[i].path
                               /\ files'[i].length = files[i].length
        /\ files'[top + 1].path = path /\ files'[top + 1].length = length
    BY <1>3, <1>5
  <1>8. TypeOK'
    <2>1. \A i \in DOMAIN files' : files'[i].length \in 0 .. MaxInt64
      <3>1. DOMAIN files' = 1 .. Len(files')
        BY <1>5, LenProperties
      <3>2. \A i \in 1 .. Len(files') : files'[i] \in FileType
        BY <1>5, ElementOfSeq
      <3>3. \A f \in FileType : f.length \in 0 .. MaxInt64
        BY DEF FileType
      <3>4. QED
        BY <3>1, <3>2, <3>3, Zenon
    <2>2. total \in 0 .. MaxInt64
      BY DEF MetainfoInv, TotalInv
    <2>3. total' \in Int
      BY <1>1, <2>2 DEF Add
    <2>4. QED
      BY <2>1, <2>3 DEF MetainfoInv, TypeOK
  <1>9. FilesInv'
    <2>1. \A i \in 1 .. top + 1 : Valid(files'[i].path)
      BY <1>2, <1>6, <1>7 DEF MetainfoInv, FilesInv
    <2>2. seen = {PathKey(files[i].path) : i \in 1 .. top}
      BY DEF MetainfoInv, FilesInv, Keys
    <2>3. seen' = {PathKey(files'[i].path) : i \in 1 .. top + 1}
      <3>1. \A i \in 1 .. top : i \in 1 .. top + 1
        BY <1>4
      <3>2. top + 1 \in 1 .. top + 1
        BY <1>4
      <3>3. QED
        BY <1>6, <1>7, <2>2, <3>1, <3>2
    <2>4. ASSUME NEW i \in 1 .. top + 1, NEW j \in 1 .. top + 1, i # j
          PROVE  PathKey(files'[i].path) # PathKey(files'[j].path)
      <3>1. \A k \in 1 .. top : PathKey(files'[k].path) \in seen
        BY <1>7, <2>2
      <3>2. CASE i \in 1 .. top /\ j \in 1 .. top
        BY <1>7, <2>4, <3>2 DEF MetainfoInv, FilesInv
      <3>3. CASE i = top + 1 /\ j \in 1 .. top
        BY <1>7, <3>1, <3>3
      <3>4. CASE j = top + 1 /\ i \in 1 .. top
        BY <1>7, <3>1, <3>4
      <3>5. QED
        BY <1>6, <2>4, <3>2, <3>3, <3>4
    <2>5. seen' = Keys'
      BY <1>5, <2>3, Zenon DEF Keys
    <2>6. QED
      BY <1>5, <2>1, <2>4, <2>5, Zenon DEF FilesInv
  <1>10. TotalInv'
    <2>1. total \in 0 .. MaxInt64 /\ total = Sum(Lengths)
      BY DEF MetainfoInv, TotalInv
    <2>2. total' = total + length /\ total' \in 0 .. MaxInt64
      BY <1>1, <2>1 DEF Fits, Add
    <2>3. PICK low \in Seq(Int) : low = Lengths
      <3>1. \A i \in 1 .. top : files[i].length \in Int
        <4>1. \A i \in 1 .. top : files[i] \in FileType
          BY <1>4, ElementOfSeq
        <4>2. \A f \in FileType : f.length \in Int
          BY DEF FileType
        <4>3. QED
          BY <4>1, <4>2, Zenon
      <3>2. Lengths \in Seq(Int)
        BY <1>4, <3>1 DEF Lengths
      <3>3. QED
        BY <3>2
    <2>4. Len(low) = top /\ \A i \in 1 .. top : low[i] = files[i].length
      BY <1>4, <2>3 DEF Lengths
    <2>5. PICK more \in Seq(Int) : more = Append(low, length)
      <3>1. length \in Int
        BY <1>1
      <3>2. Append(low, length) \in Seq(Int)
        BY <3>1, AppendProperties
      <3>3. QED
        BY <3>2
    <2>6. /\ Len(more) = top + 1 /\ more[top + 1] = length
          /\ \A i \in 1 .. top : more[i] = low[i]
      BY <1>1, <2>4, <2>5, AppendProperties
    <2>7. Lengths' = more
      <3>1. more = [i \in 1 .. top + 1 |-> more[i]]
        BY <2>6, LenProperties
      <3>2. \A i \in 1 .. top + 1 : files'[i].length = more[i]
        BY <1>6, <1>7, <2>4, <2>6
      <3>3. Lengths' = [i \in 1 .. top + 1 |-> files'[i].length]
        BY <1>5, Zenon DEF Lengths
      <3>4. QED
        BY <3>1, <3>2, <3>3, Zenon
    <2>8. Sum(more) = total + length
      BY <1>1, <2>1, <2>3, <2>5, SumMore
    <2>9. phase' = "files"
      OBVIOUS
    <2>10. QED
      BY <2>2, <2>7, <2>8, <2>9 DEF TotalInv
  <1>11. VerdictInv'
    BY DEF VerdictInv, FilesAccepted
  <1>12. QED
    BY <1>8, <1>9, <1>10, <1>11 DEF MetainfoInv

\* If no neighbour is used as a directory, no file is.
LEMMA NeighboursDecide ==
    ASSUME FilesInv, NEW key \in seen, NEW next \in seen, UsedAsDirectory(key, next)
    PROVE  \E a, b \in seen : Neighbours(a, b) /\ UsedAsDirectory(a, b)
  <1> DEFINE top == Len(files)
             keys == [i \in 1 .. top |-> PathKey(files[i].path)]
             T == {k \in seen : UsedAsDirectory(key, k)}
  <1>1. top \in Nat /\ seen = {keys[i] : i \in 1 .. top}
    BY LenProperties DEF FilesInv, Keys
  <1>2. \A i \in 1 .. top : keys[i] \in Text
    BY ValidKey DEF FilesInv
  <1> HIDE DEF keys
  <1>3. seen \subseteq Text
    BY <1>1, <1>2
  <1>4. \E i \in 1 .. top : keys[i] \in T
    BY <1>1
  <1>5. PICK m \in 1 .. top : /\ keys[m] \in T
                              /\ \A n \in 1 .. top : keys[n] \in T => ~Less(keys[n], keys[m])
    <2> HIDE DEF T, top
    <2>1. QED
      BY <1>1, <1>2, <1>4, LeastKey, Zenon
  <1> DEFINE least == keys[m]
  <1>6. least \in seen /\ least \in Text /\ UsedAsDirectory(key, least) /\ key \in Text
    BY <1>2, <1>3, <1>5
  <1>7. \A k \in seen : UsedAsDirectory(key, k) => ~Less(k, least)
    BY <1>1, <1>5
  <1> HIDE DEF least, T
  <1>8. Less(key, least)
    <2>1. /\ Len(key) \in Nat /\ Len(least) \in Nat /\ Len(key) < Len(least)
          /\ \A i \in 1 .. Len(key) : least[i] = key[i]
      BY <1>6, DirectoryPlaces, TextPlaces
    <2>2. Before(key, least, Len(key) + 1) /\ Len(key) + 1 \in Nat
      BY <2>1 DEF Before
    <2>3. QED
      BY <1>6, <2>2, LessBefore
  <1>9. ASSUME NEW other \in seen, Less(key, other), Less(other, least) PROVE FALSE
    <2>1. UsedAsDirectory(key, other)
      BY <1>3, <1>6, <1>9, DirectoryBetween
    <2>2. QED
      BY <1>7, <1>9, <2>1
  <1>10. Neighbours(key, least)
    BY <1>8, <1>9 DEF Neighbours
  <1>11. QED
    BY <1>6, <1>10

\* Every step of ExtractMeta keeps the invariant.
LEMMA NextInv == MetainfoInv /\ [Next]_vars => MetainfoInv'
  <1> SUFFICES ASSUME MetainfoInv, [Next]_vars PROVE MetainfoInv'
    OBVIOUS
  <1>1. CASE UNCHANGED vars
    <2>1. TypeOK'
      BY <1>1 DEF vars, MetainfoInv, TypeOK
    <2>2. FilesInv'
      BY <1>1 DEF vars, MetainfoInv, FilesInv, Keys
    <2>3. TotalInv'
      BY <1>1 DEF vars, MetainfoInv, TotalInv, Lengths
    <2>4. VerdictInv'
      BY <1>1 DEF vars, MetainfoInv, VerdictInv, FilesAccepted
    <2>5. QED
      BY <2>1, <2>2, <2>3, <2>4 DEF MetainfoInv
  <1>2. CASE ReadLength
    <2>1. CASE Reject("malformed")
      BY <2>1, RejectStep
    <2>2. ASSUME NEW length \in FileLengths, ~(length < 0), phase = "length",
                 phase' = "pieces", total' = length,
                 UNCHANGED <<files, seen, pieceLength, numPieces>>
          PROVE  MetainfoInv'
      <3>1. files = <<>> /\ seen = {} /\ length \in 0 .. MaxInt64
        <4>1. files = <<>> /\ Len(files) = 0
          BY <2>2 DEF MetainfoInv, TotalInv
        <4>2. seen = {}
          BY <4>1 DEF MetainfoInv, FilesInv, Keys
        <4>3. QED
          BY <2>2, <4>1, <4>2, Constants
      <3>2. TypeOK'
        BY <2>2, <3>1 DEF MetainfoInv, TypeOK
      <3>3. FilesInv'
        BY <2>2 DEF MetainfoInv, FilesInv, Keys
      <3>4. TotalInv'
        BY <2>2, <3>1 DEF TotalInv
      <3>5. VerdictInv'
        BY <2>2, <3>1 DEF VerdictInv, FilesAccepted
      <3>6. QED
        BY <3>2, <3>3, <3>4, <3>5 DEF MetainfoInv
    <2>3. QED
      BY <1>2, <2>1, <2>2 DEF ReadLength
  <1>3. CASE ReadFile
    <2>1. CASE Reject("malformed") \/ Reject("duplicate") \/ Reject("overflow")
      BY <2>1, RejectStep
    <2>2. CASE ~(Reject("malformed") \/ Reject("duplicate") \/ Reject("overflow"))
      <3>1. PICK length \in FileLengths, path \in Paths :
                /\ ~(length < 0) /\ path # <<>>
                /\ \A i \in DOMAIN path : ValidatePathComponent(path[i])
                /\ PathKey(path) \notin seen /\ Fits(length)
                /\ files' = Append(files, [length |-> length, path |-> path])
                /\ seen' = seen \cup {PathKey(path)}
                /\ total' = Add(total, length)
                /\ UNCHANGED <<phase, pieceLength, numPieces>>
        BY <1>3, <2>2, Zenon DEF ReadFile
      <3>2. phase = "files"
        BY <1>3 DEF ReadFile
      <3>3. QED
        BY <3>1, <3>2, AddStep
    <2>3. QED
      BY <2>1, <2>2
  <1>4. CASE EndFiles
    <2>1. CASE Reject("malformed")
      BY <2>1, RejectStep
    <2>2. ASSUME phase' \in {"directory", "pieces"}, phase = "files",
                 UNCHANGED <<files, seen, total, pieceLength, numPieces>>
          PROVE  TypeOK' /\ FilesInv' /\ TotalInv'
      <3>1. TypeOK'
        BY <2>2 DEF MetainfoInv, TypeOK
      <3>2. FilesInv'
        BY <2>2 DEF MetainfoInv, FilesInv, Keys
      <3>3. TotalInv'
        BY <2>2 DEF MetainfoInv, TotalInv, Lengths
      <3>4. QED
        BY <3>1, <3>2, <3>3
    <2>3. CASE /\ \E key, next \in seen :
                      Neighbours(key, next) /\ UsedAsDirectory(key, next)
               /\ Reject("directory")
      <3>1. VerdictInv'
        BY <2>3 DEF VerdictInv, FilesAccepted, Reject
      <3>2. QED
        BY <1>4, <2>2, <2>3, <3>1 DEF MetainfoInv, Reject, EndFiles
    <2>4. CASE /\ ~ \E key, next \in seen :
                        Neighbours(key, next) /\ UsedAsDirectory(key, next)
               /\ phase' = "pieces"
               /\ UNCHANGED <<files, seen, total, pieceLength, numPieces>>
      <3>1. \A key, next \in seen : ~UsedAsDirectory(key, next)
        BY <2>4, NeighboursDecide DEF MetainfoInv
      <3>2. VerdictInv'
        BY <2>4, <3>1 DEF VerdictInv, FilesAccepted
      <3>3. QED
        BY <1>4, <2>2, <2>4, <3>2 DEF MetainfoInv, EndFiles
    <2>5. QED
      BY <1>4, <2>1, <2>3, <2>4, Zenon DEF EndFiles
  <1>5. CASE CheckPieces
    <2>1. CASE Reject("malformed")
      BY <2>1, RejectStep
    <2>2. ASSUME NEW standard \in -1 .. MaxPieceLength + 1, NEW hashes \in 0 .. MaxHashes,
                 ValidPieceLength(standard), hashes = pieceCount(total, standard),
                 phase = "pieces", phase' = "accepted",
                 pieceLength' = standard, numPieces' = hashes,
                 UNCHANGED <<files, seen, total>>
          PROVE  MetainfoInv'
      <3>1. standard \in Nat \ {0} /\ standard \in 0 .. MaxPieceLength
        BY <2>2, Constants DEF ValidPieceLength
      <3>2. TypeOK'
        BY <2>2, <3>1 DEF MetainfoInv, TypeOK
      <3>3. FilesInv'
        BY <2>2 DEF MetainfoInv, FilesInv, Keys
      <3>4. TotalInv'
        BY <2>2 DEF MetainfoInv, TotalInv, Lengths
      <3>5. VerdictInv'
        BY <2>2, <3>1 DEF MetainfoInv, VerdictInv, FilesAccepted, pieceCount
      <3>6. QED
        BY <3>2, <3>3, <3>4, <3>5 DEF MetainfoInv
    <2>3. QED
      BY <1>5, <2>1, <2>2 DEF CheckPieces
  <1>6. QED
    BY <1>1, <1>2, <1>3, <1>4, <1>5 DEF Next

\* The invariant holds in every reachable state.
THEOREM MetainfoInvariance == Spec => []MetainfoInv
  BY InitInv, NextInv, PTL DEF Spec

-----------------------------------------------------------------------------
(* The properties.                                                         *)

\* Whatever ExtractMeta reads, its state has its type: no length is negative, and
\* the numbers of pieces and bytes are in their ranges.
THEOREM TypeCorrect == Spec => []TypeOK
  <1>1. MetainfoInv => TypeOK
    BY DEF MetainfoInv
  <1>2. QED
    BY <1>1, MetainfoInvariance, PTL

\* No path of an accepted metainfo climbs out of the torrent's directory, stops
\* at it, or names a device: ValidatePathComponent lets no such component pass.
THEOREM FilesStayInside == Spec => []StaysInside
  <1>1. MetainfoInv => StaysInside
    <2> SUFFICES ASSUME MetainfoInv, NEW i \in DOMAIN files
                 PROVE  LET names == Resolve(files[i].path)
                        IN  /\ names # Outside /\ names # <<>>
                            /\ \A j \in DOMAIN names :
                                   ToLower(Stem(names[j])) \notin Devices
      BY DEF StaysInside
    <2> DEFINE path == files[i].path
    <2>1. Valid(path)
      BY LenProperties DEF MetainfoInv, FilesInv
    <2> HIDE DEF path
    <2>2. Resolve(path) = path
      BY <2>1, ResolveValid
    <2>3. /\ path \in Parts /\ Len(path) \in Nat \ {0} /\ DOMAIN path = 1 .. Len(path)
          /\ \A j \in 1 .. Len(path) : path[j] # <<NUL>>
                                       /\ ToLower(Stem(path[j])) \notin Devices
      BY <2>1, ValidComponents DEF Parts
    <2>4. path # <<>>
      BY <2>3
    <2>5. path # Outside
      <3> SUFFICES ASSUME path = Outside PROVE FALSE
        OBVIOUS
      <3>1. path[1] = <<NUL>> /\ Len(path) = 1
        BY DEF Outside
      <3>2. QED
        BY <2>3, <3>1
    <2>6. QED
      BY <2>2, <2>3, <2>4, <2>5, Zenon DEF path
  <1>2. QED
    BY <1>1, MetainfoInvariance, PTL

\* The files of an accepted metainfo are different ones on disk and none is a
\* directory of another, although extractFiles compares only neighbours of the
\* sorted keys.
THEOREM FilesDoCoexist == Spec => []FilesCoexist
  <1>1. MetainfoInv => FilesCoexist
    <2> SUFFICES ASSUME MetainfoInv, FilesAccepted,
                        NEW i \in DOMAIN files, NEW j \in DOMAIN files, i # j,
                        IsPrefix(OnDisk(files[i].path), OnDisk(files[j].path))
                 PROVE  FALSE
      BY DEF FilesCoexist
    <2> DEFINE p == files[i].path
               q == files[j].path
    <2>1. i \in 1 .. Len(files) /\ j \in 1 .. Len(files)
      BY LenProperties DEF MetainfoInv, FilesInv
    <2>2. /\ Valid(p) /\ Valid(q) /\ PathKey(p) # PathKey(q)
          /\ PathKey(p) \in seen /\ PathKey(q) \in seen
      BY <2>1 DEF MetainfoInv, FilesInv, Keys
    <2>3. IsPrefix(OnDisk(p), OnDisk(q))
      OBVIOUS
    <2> HIDE DEF p, q
    <2>4. OnDisk(p) = Lower(p) /\ OnDisk(q) = Lower(q)
      BY <2>2, OnDiskValid
    <2>5. Lower(p) # Lower(q)
      BY <2>2, ValidKey, Zenon
    <2>6. IsStrictPrefix(Lower(p), Lower(q))
      BY <2>3, <2>4, <2>5, Zenon DEF IsStrictPrefix
    <2>7. UsedAsDirectory(PathKey(p), PathKey(q))
      BY <2>2, <2>6, DirectoryOnDisk
    <2>8. QED
      BY <2>2, <2>7 DEF MetainfoInv, VerdictInv
  <1>2. QED
    BY <1>1, MetainfoInvariance, PTL

\* A metainfo that is turned down because a file is also a directory has such a
\* file.
THEOREM ConflictsAreReal == Spec => []ConflictReal
  <1>1. MetainfoInv => ConflictReal
    <2> SUFFICES ASSUME MetainfoInv, phase = "directory"
                 PROVE  \E i, j \in DOMAIN files :
                            IsStrictPrefix(OnDisk(files[i].path), OnDisk(files[j].path))
      BY DEF ConflictReal
    <2>1. DOMAIN files = 1 .. Len(files)
      BY LenProperties DEF MetainfoInv, FilesInv
    <2>2. PICK key \in seen, next \in seen : UsedAsDirectory(key, next)
      BY DEF MetainfoInv, VerdictInv
    <2>3. PICK i \in 1 .. Len(files) : key = PathKey(files[i].path)
      BY DEF MetainfoInv, FilesInv, Keys
    <2>4. PICK j \in 1 .. Len(files) : next = PathKey(files[j].path)
      BY DEF MetainfoInv, FilesInv, Keys
    <2> DEFINE p == files[i].path
               q == files[j].path
    <2>5. Valid(p) /\ Valid(q)
      BY DEF MetainfoInv, FilesInv
    <2>6. UsedAsDirectory(PathKey(p), PathKey(q))
      BY <2>2, <2>3, <2>4, Zenon
    <2> HIDE DEF p, q
    <2>7. IsStrictPrefix(OnDisk(p), OnDisk(q))
      BY <2>5, <2>6, DirectoryOnDisk, OnDiskValid
    <2>8. QED
      BY <2>1, <2>7 DEF p, q
  <1>2. QED
    BY <1>1, MetainfoInvariance, PTL

\* The pieces of an accepted metainfo have at least one and at most pieceLength
\* bytes each, and together exactly those of the files.
THEOREM PiecesDoTile == Spec => []PiecesTile
  <1>1. MetainfoInv => PiecesTile
    <2> SUFFICES ASSUME MetainfoInv, phase = "accepted" PROVE PiecesTile
      BY DEF PiecesTile
    <2> DEFINE lengths == [i \in 1 .. numPieces |-> PieceLengthAt(i - 1)]
    <2>1. /\ total \in Nat /\ pieceLength \in Nat \ {0}
          /\ numPieces = pieceCount(total, pieceLength)
      BY Constants DEF MetainfoInv, TotalInv, VerdictInv
    <2>2. Bytes = total
      <3>1. CASE files = <<>>
        BY <3>1 DEF Bytes
      <3>2. CASE files # <<>>
        <4>1. DOMAIN files = 1 .. Len(files)
          BY LenProperties DEF MetainfoInv, FilesInv
        <4>2. Bytes = Sum(Lengths)
          BY <3>2, <4>1, Zenon DEF Bytes, Lengths
        <4>3. QED
          BY <3>2, <4>2 DEF MetainfoInv, TotalInv
      <3>3. QED
        BY <3>1, <3>2
    <2>3. CASE total = 0
      <3>1. numPieces = 0
        BY <2>1, <2>3 DEF pieceCount
      <3>2. lengths = <<>>
        BY <3>1
      <3>3. \A i \in DOMAIN lengths : lengths[i] \in 1 .. pieceLength
        BY <3>2
      <3>4. Sum(lengths) = 0
        BY <3>2, EmptySum, Zenon
      <3>5. QED
        BY <2>2, <2>3, <3>3, <3>4 DEF PiecesTile
    <2>4. CASE total # 0
      <3> DEFINE count == numPieces
      <3>1. count \in Nat \ {0} /\ total - (count - 1) * pieceLength \in 1 .. pieceLength
        BY <2>1, <2>4, PiecesFit
      <3>2. \A i \in 1 .. count :
                lengths[i] = IF i = count THEN total - (count - 1) * pieceLength
                             ELSE pieceLength
        <4>1. ASSUME NEW i \in 1 .. count
              PROVE  PieceLengthAt(i - 1)
                         = IF i = count THEN total - (count - 1) * pieceLength
                           ELSE pieceLength
          <5>1. CASE i = count
            BY <5>1 DEF PieceLengthAt
          <5>2. CASE i # count
            <6>1. i - 1 # count - 1
              BY <3>1, <5>2
            <6>2. QED
              BY <5>2, <6>1 DEF PieceLengthAt
          <5>3. QED
            BY <5>1, <5>2
        <4>2. QED
          BY <4>1, Zenon
      <3>3. \A i \in 1 .. count : lengths[i] \in 1 .. pieceLength
        BY <2>1, <3>1, <3>2
      <3>4. DOMAIN lengths = 1 .. count
        OBVIOUS
      <3>5. lengths \in Seq(Int) /\ Len(lengths) = count
        <4>1. \A i \in 1 .. count : lengths[i] \in Int
          BY <2>1, <3>3
        <4>2. lengths \in [1 .. count -> Int]
          BY <4>1
        <4> HIDE DEF lengths
        <4>3. QED
          BY <3>1, <4>2
      <3> HIDE DEF lengths
      <3> DEFINE sums == [n \in 0 .. count |->
                             IF n = count THEN total ELSE n * pieceLength]
      <3>6. sums[0] = 0
        BY <2>1, <3>1
      <3>7. ASSUME NEW n \in 1 .. count PROVE sums[n] = sums[n - 1] + lengths[n]
        <4>1. n \in 0 .. count /\ n - 1 \in 0 .. count /\ n - 1 # count /\ n \in Nat
          BY <3>1
        <4>2. sums[n - 1] = (n - 1) * pieceLength
          BY <4>1
        <4>3. CASE n = count
          <5>1. sums[n] = total /\ lengths[n] = total - (n - 1) * pieceLength
            BY <3>2, <4>1, <4>3
          <5>2. (n - 1) * pieceLength \in Int
            BY <2>1, <4>1
          <5>3. QED
            BY <2>1, <4>2, <5>1, <5>2
        <4>4. CASE n # count
          <5>1. sums[n] = n * pieceLength /\ lengths[n] = pieceLength
            BY <3>2, <4>1, <4>4
          <5>2. n * pieceLength = (n - 1) * pieceLength + pieceLength
            BY <2>1, <4>1
          <5>3. QED
            BY <4>2, <5>1, <5>2
        <4>5. QED
          BY <4>3, <4>4
      <3>8. sums[count] = total
        BY <3>1
      <3> HIDE DEF sums
      <3>9. Sum(lengths) = total
        <4>1. \A n \in 1 .. Len(lengths) : sums[n] = sums[n - 1] + lengths[n]
          BY <3>5, <3>7
        <4>2. Sum(lengths) = sums[Len(lengths)]
          BY <3>5, <3>6, <4>1, SumOf
        <4>3. QED
          BY <3>5, <3>8, <4>2
      <3>10. QED
        BY <2>2, <3>3, <3>4, <3>9 DEF PiecesTile, lengths
    <2>5. QED
      BY <2>3, <2>4
  <1>2. QED
    BY <1>1, MetainfoInvariance, PTL

=============================================================================
