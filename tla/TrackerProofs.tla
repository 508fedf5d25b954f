--------------------------- MODULE TrackerProofs ----------------------------
(***************************************************************************)
(* Proofs about Tracker, for every metainfo and all answers: no tracker is *)
(* asked twice, the end of a download is told once, and no tracker with    *)
(* peers is hidden by another.                                             *)
(*                                                                         *)
(* The lists of trackers are recursive functions; what they compute is     *)
(* shown by induction over their steps.                                    *)
(***************************************************************************)
EXTENDS Tracker, WellFoundedInduction, TLAPS

-----------------------------------------------------------------------------
(* Induction and recursion.                                                *)

\* Induction, with a set in the place of a predicate, from the least number that
\* is not in it.
LEMMA InductionOnSet ==
    ASSUME NEW S, 0 \in S, \A n \in Nat : n \in S => n + 1 \in S
    PROVE  Nat \subseteq S
  <1> DEFINE T == Nat \ S
             R == OpToRel(<, Nat)
  <1> SUFFICES ASSUME T # {} PROVE FALSE
    OBVIOUS
  <1>1. IsWellFoundedOn(R, Nat)
    BY NatLessThanWellFounded
  <1>2. R = {pair \in Nat \X Nat : pair[1] < pair[2]}
    BY DEF OpToRel
  <1>3. T \subseteq Nat
    OBVIOUS
  <1> HIDE DEF R, T
  <1>4. PICK least \in T : \A n \in T : ~ (<<n, least>> \in R)
    BY <1>1, <1>3, WFMin
  <1>5. \A n \in T : ~ (n < least)
    BY <1>2, <1>3, <1>4
  <1>6. least \in Nat \ S
    BY <1>4 DEF T
  <1>7. least # 0 /\ least - 1 \in Nat /\ least - 1 < least
    BY <1>6
  <1>8. least - 1 \in S
    BY <1>5, <1>7 DEF T
  <1>9. (least - 1) + 1 \in S /\ (least - 1) + 1 = least
    BY <1>6, <1>7, <1>8
  <1>10. QED
    BY <1>6, <1>9

\* What holds of the first value and is kept by each step holds of all.
LEMMA ValuesStay ==
    ASSUME NEW V, NEW low \in Nat, NEW high \in Nat, NEW f,
           f[low] \in V,
           \A n \in low + 1 .. high : f[n - 1] \in V => f[n] \in V
    PROVE  \A n \in low .. high : f[n] \in V
  <1> DEFINE Stays(n) == low + n <= high => f[low + n] \in V
  <1>1. Stays(0)
    <2>1. low + 0 = low
      OBVIOUS
    <2>2. QED
      BY <2>1
  <1>2. ASSUME NEW n \in Nat, Stays(n), low + (n + 1) <= high
        PROVE  f[low + (n + 1)] \in V
    <2>1. /\ low + (n + 1) \in low + 1 .. high /\ low + n <= high
          /\ (low + (n + 1)) - 1 = low + n
      BY <1>2
    <2>2. f[low + n] \in V
      BY <1>2, <2>1
    <2>3. QED
      BY <2>1, <2>2
  <1>3. \A n \in Nat : Stays(n)
    <2>1. \A n \in Nat : Stays(n) => Stays(n + 1)
      BY <1>2
    <2> DEFINE S == {n \in Nat : Stays(n)}
    <2> HIDE DEF Stays
    <2>2. 0 \in S /\ \A n \in Nat : n \in S => n + 1 \in S
      BY <1>1, <2>1
    <2>3. Nat \subseteq S
      <3> HIDE DEF S
      <3>1. QED
        BY <2>2, InductionOnSet
    <2>4. QED
      BY <2>3
  <1>4. ASSUME NEW n \in low .. high PROVE f[n] \in V
    <2>1. n - low \in Nat /\ low + (n - low) = n /\ low + (n - low) <= high
      OBVIOUS
    <2>2. f[low + (n - low)] \in V
      BY <1>3, <2>1
    <2>3. QED
      BY <2>1, <2>2
  <1>5. QED
    BY <1>4

\* f begins with base and goes on with step.
Solution(f, V, base, low, high, step) ==
    /\ f \in [low .. high -> V]
    /\ f[low] = base
    /\ \A n \in low + 1 .. high : f[n] = step[n][f[n - 1]]

Steps(V, low, high) == [low + 1 .. high -> [V -> V]]

\* A recursion with a step that is a function has a solution.
LEMMA RecursionExists ==
    ASSUME NEW V, NEW base \in V, NEW low \in Nat, NEW high \in Nat, low <= high,
           NEW step \in Steps(V, low, high)
    PROVE  \E f : Solution(f, V, base, low, high, step)
  <1> USE DEF Steps
  <1> DEFINE Solves(f, m) ==
                 /\ f[low] = base
                 /\ \A n \in low + 1 .. m : f[n] = step[n][f[n - 1]]
             Solved(n) == low + n <= high =>
                              \E f \in [low .. low + n -> V] : Solves(f, low + n)
  <1>1. Solved(0)
    <2> DEFINE f == [n \in low .. low + 0 |-> base]
    <2>1. f \in [low .. low + 0 -> V] /\ f[low] = base
      OBVIOUS
    <2> HIDE DEF f
    <2>2. \A n \in low + 1 .. low + 0 : f[n] = step[n][f[n - 1]]
      OBVIOUS
    <2>3. QED
      BY <2>1, <2>2
  <1>2. ASSUME NEW m \in Nat, Solved(m), low + (m + 1) <= high
        PROVE  \E h \in [low .. low + (m + 1) -> V] : Solves(h, low + (m + 1))
    <2> DEFINE top == low + (m + 1)
    <2>1. low + m <= high /\ top \in Nat /\ top - 1 = low + m /\ top \in low + 1 .. high
      BY <1>2
    <2>2. PICK f \in [low .. low + m -> V] : Solves(f, low + m)
      BY <1>2, <2>1
    <2>3. f[low + m] \in V
      BY <2>2
    <2>4. step[top][f[low + m]] \in V
      BY <2>1, <2>3
    <2> DEFINE h == [n \in low .. top |->
                        IF n = top THEN step[top][f[low + m]] ELSE f[n]]
    <2>5. h \in [low .. top -> V]
      BY <2>1, <2>2, <2>4
    <2>6. h[top] = step[top][f[low + m]] /\ \A n \in low .. low + m : h[n] = f[n]
      BY <2>1
    <2> HIDE DEF h
    <2>7. h[low] = base
      BY <2>2, <2>6
    <2>8. ASSUME NEW n \in low + 1 .. top PROVE h[n] = step[n][h[n - 1]]
      <3>1. CASE n = top
        BY <2>1, <2>6, <3>1
      <3>2. CASE n # top
        <4>1. n \in low + 1 .. low + m /\ n \in low .. low + m /\ n - 1 \in low .. low + m
          BY <3>2
        <4>2. h[n] = f[n] /\ h[n - 1] = f[n - 1]
          BY <2>6, <4>1
        <4>3. QED
          BY <2>2, <4>1, <4>2
      <3>3. QED
        BY <3>1, <3>2
    <2>9. QED
      BY <2>5, <2>7, <2>8
  <1>3. \A n \in Nat : Solved(n)
    <2>1. \A n \in Nat : Solved(n) => Solved(n + 1)
      BY <1>2
    <2> DEFINE S == {n \in Nat : Solved(n)}
    <2> HIDE DEF Solved
    <2>2. 0 \in S /\ \A n \in Nat : n \in S => n + 1 \in S
      BY <1>1, <2>1
    <2>3. Nat \subseteq S
      <3> HIDE DEF S
      <3>1. QED
        BY <2>2, InductionOnSet
    <2>4. QED
      BY <2>3
  <1>4. high - low \in Nat /\ low + (high - low) = high
    OBVIOUS
  <1>5. \E f \in [low .. low + (high - low) -> V] : Solves(f, low + (high - low))
    <2> HIDE DEF Solves
    <2>1. QED
      BY <1>3, <1>4
  <1>6. QED
    BY <1>4, <1>5 DEF Solution

-----------------------------------------------------------------------------
(* The metainfo's trackers.                                                *)

\* A part of a list is a list over the same elements.
LEMMA WithoutType ==
    ASSUME NEW E, NEW seq \in Seq(E), NEW x
    PROVE  Without(seq, x) \in Seq(E)
  <1> DEFINE top == Len(seq)
             Rule(f) == f = [n \in 0 .. top |->
                               IF n = 0 THEN <<>>
                               ELSE IF seq[n] = x THEN f[n - 1]
                               ELSE Append(f[n - 1], seq[n])]
             step == [n \in 0 + 1 .. top |->
                        [s \in Seq(E) |->
                            IF seq[n] = x THEN s ELSE Append(s, seq[n])]]
  <1>1. top \in Nat /\ 0 \in Nat /\ 0 <= top /\ \A n \in 1 .. top : seq[n] \in E
    OBVIOUS
  <1>2. <<>> \in Seq(E)
    OBVIOUS
  <1>3. step \in [0 + 1 .. top -> [Seq(E) -> Seq(E)]]
    BY <1>1
  <1>4. PICK f \in [0 .. top -> Seq(E)] :
            /\ f[0] = <<>>
            /\ \A n \in 0 + 1 .. top : f[n] = step[n][f[n - 1]]
    <2>1. step \in Steps(Seq(E), 0, top)
      BY <1>3, Zenon DEF Steps
    <2> HIDE DEF step, top
    <2>2. \E f : Solution(f, Seq(E), <<>>, 0, top, step)
      BY <1>1, <1>2, <2>1, RecursionExists
    <2>3. QED
      BY <2>2, Zenon DEF Solution
  <1>5. Rule(f)
    <2>1. ASSUME NEW n \in 0 .. top
          PROVE  f[n] = IF n = 0 THEN <<>>
                        ELSE IF seq[n] = x THEN f[n - 1]
                        ELSE Append(f[n - 1], seq[n])
      <3>1. CASE n = 0
        BY <1>4, <3>1
      <3>2. CASE n # 0
        <4>1. n \in 0 + 1 .. top /\ n - 1 \in 0 .. top
          BY <1>1, <3>2
        <4>2. f[n - 1] \in Seq(E)
          BY <1>4, <4>1
        <4>3. f[n] = step[n][f[n - 1]]
          BY <1>4, <4>1
        <4>4. QED
          BY <3>2, <4>1, <4>2, <4>3
      <3>3. QED
        BY <3>1, <3>2
    <2>2. QED
      BY <1>4, <2>1
  <1> DEFINE kept == CHOOSE g : Rule(g)
  <1>6. Rule(kept)
    BY <1>5, Zenon
  <1>7. Without(seq, x) = kept[top]
    BY Zenon DEF Without
  <1> HIDE DEF kept
  <1>8. kept[0] \in Seq(E)
    BY <1>1, <1>2, <1>6
  <1>9. ASSUME NEW n \in 0 + 1 .. top, kept[n - 1] \in Seq(E)
        PROVE  kept[n] \in Seq(E)
    <2>1. n \in 0 .. top /\ n # 0 /\ seq[n] \in E
      BY <1>1
    <2>2. kept[n] = IF seq[n] = x THEN kept[n - 1] ELSE Append(kept[n - 1], seq[n])
      BY <1>6, <2>1
    <2>3. QED
      BY <1>9, <2>1, <2>2
  <1>10. \A n \in 0 .. top : kept[n] \in Seq(E)
    <2> HIDE DEF top
    <2>1. QED
      BY <1>1, <1>8, <1>9, ValuesStay
  <1>11. QED
    BY <1>1, <1>7, <1>10

\* FlattenSeq gives one list with all elements of the lists.
LEMMA FlattenAll ==
    ASSUME NEW E, NEW seqs \in Seq(Seq(E))
    PROVE  /\ FlattenSeq(seqs) \in Seq(E)
           /\ \A i \in DOMAIN seqs : \A j \in DOMAIN seqs[i] :
                  \E k \in DOMAIN FlattenSeq(seqs) : FlattenSeq(seqs)[k] = seqs[i][j]
  <1> DEFINE top == Len(seqs)
             Rule(f) == f = [i \in 1 .. top |->
                               IF i = 1 THEN seqs[i] ELSE f[i - 1] \o seqs[i]]
             step == [n \in 1 + 1 .. top |-> [s \in Seq(E) |-> s \o seqs[n]]]
  <1>1. top \in Nat /\ DOMAIN seqs = 1 .. top /\ \A n \in 1 .. top : seqs[n] \in Seq(E)
    OBVIOUS
  <1>2. CASE top = 0
    <2>1. FlattenSeq(seqs) = seqs
      BY <1>2, Zenon DEF FlattenSeq
    <2>2. seqs = <<>>
      BY <1>1, <1>2
    <2>3. QED
      BY <1>1, <1>2, <2>1, <2>2
  <1>3. CASE top # 0
    <2>1. 1 <= top /\ 1 \in Nat /\ seqs[1] \in Seq(E)
      BY <1>1, <1>3
    <2>2. step \in [1 + 1 .. top -> [Seq(E) -> Seq(E)]]
      BY <1>1
    <2>3. PICK f \in [1 .. top -> Seq(E)] :
              /\ f[1] = seqs[1]
              /\ \A n \in 1 + 1 .. top : f[n] = step[n][f[n - 1]]
      <3>1. step \in Steps(Seq(E), 1, top)
        BY <2>2, Zenon DEF Steps
      <3> HIDE DEF step, top
      <3>2. \E f : Solution(f, Seq(E), seqs[1], 1, top, step)
        BY <1>1, <2>1, <3>1, RecursionExists
      <3>3. QED
        BY <3>2, Zenon DEF Solution
    <2>4. Rule(f)
      <3>1. ASSUME NEW n \in 1 .. top
            PROVE  f[n] = IF n = 1 THEN seqs[n] ELSE f[n - 1] \o seqs[n]
        <4>1. CASE n = 1
          BY <2>3, <4>1
        <4>2. CASE n # 1
          <5>1. n \in 1 + 1 .. top /\ n - 1 \in 1 .. top
            BY <1>1, <4>2
          <5>2. f[n - 1] \in Seq(E)
            BY <2>3, <5>1
          <5>3. f[n] = step[n][f[n - 1]]
            BY <2>3, <5>1
          <5>4. QED
            BY <4>2, <5>1, <5>2, <5>3
        <4>3. QED
          BY <4>1, <4>2
      <3>2. QED
        BY <2>3, <3>1
    <2> DEFINE flatten == CHOOSE g : Rule(g)
    <2>5. Rule(flatten)
      BY <2>4, Zenon
    <2>6. FlattenSeq(seqs) = flatten[top]
      BY <1>3, Zenon DEF FlattenSeq
    <2> HIDE DEF flatten
    <2>7. flatten[1] = seqs[1]
      BY <2>1, <2>5
    <2>8. ASSUME NEW n \in 1 + 1 .. top
          PROVE  flatten[n] = flatten[n - 1] \o seqs[n]
      <3>1. n \in 1 .. top /\ n # 1
        BY <1>1
      <3>2. QED
        BY <2>5, <3>1
    <2> DEFINE pair == [n \in 1 .. top |-> <<n, flatten[n]>>]
               V == {at \in (1 .. top) \X Seq(E) :
                        \A i \in 1 .. at[1] : \A j \in DOMAIN seqs[i] :
                            \E k \in DOMAIN at[2] : at[2][k] = seqs[i][j]}
    <2>9. pair[1] \in V
      BY <2>1, <2>7
    <2>10. ASSUME NEW n \in 1 + 1 .. top, pair[n - 1] \in V PROVE pair[n] \in V
      <3>1. n \in 1 .. top /\ n - 1 \in 1 .. top
        BY <1>1
      <3>2. flatten[n - 1] \in Seq(E) /\ flatten[n] = flatten[n - 1] \o seqs[n]
            /\ seqs[n] \in Seq(E)
        BY <1>1, <2>8, <2>10, <3>1
      <3>3. ASSUME NEW i \in 1 .. n, NEW j \in DOMAIN seqs[i]
            PROVE  \E k \in DOMAIN flatten[n] : flatten[n][k] = seqs[i][j]
        <4>1. CASE i = n
          <5>1. /\ Len(flatten[n - 1]) + j \in DOMAIN flatten[n]
                /\ flatten[n][Len(flatten[n - 1]) + j] = seqs[n][j]
            <6> DEFINE s == flatten[n - 1]
                       t == seqs[n]
            <6>1. s \in Seq(E) /\ t \in Seq(E) /\ flatten[n] = s \o t /\ j \in DOMAIN t
              BY <3>2, <4>1
            <6> HIDE DEF s, t
            <6>2. Len(s) + j \in DOMAIN (s \o t) /\ (s \o t)[Len(s) + j] = t[j]
              <7>1. /\ Len(s) \in Nat /\ j \in 1 .. Len(t) /\ Len(t) \in Nat
                    /\ DOMAIN (s \o t) = 1 .. Len(s) + Len(t)
                BY <6>1
              <7>2. Len(s) + j \in Len(s) + 1 .. Len(s) + Len(t)
                BY <7>1
              <7>3. (s \o t)[Len(s) + j] = t[Len(s) + j - Len(s)]
                BY <6>1, <7>2, SMTT(30)
              <7>4. Len(s) + j - Len(s) = j /\ Len(s) + j \in 1 .. Len(s) + Len(t)
                <8> DEFINE a == Len(s)
                           b == Len(t)
                <8>1. a \in Nat /\ b \in Nat /\ j \in 1 .. b
                  BY <7>1
                <8> HIDE DEF a, b
                <8>2. a + j - a = j /\ a + j \in 1 .. a + b
                  BY <8>1
                <8>3. QED
                  BY <8>2 DEF a, b
              <7>5. QED
                BY <7>1, <7>3, <7>4, Zenon
            <6>3. QED
              BY <6>1, <6>2, Zenon DEF s, t
          <5>2. QED
            BY <4>1, <5>1
        <4>2. CASE i # n
          <5>1. i \in 1 .. n - 1
            BY <3>1, <4>2
          <5>2. PICK k \in DOMAIN flatten[n - 1] : flatten[n - 1][k] = seqs[i][j]
            BY <2>10, <3>1, <5>1
          <5>3. k \in DOMAIN flatten[n] /\ flatten[n][k] = flatten[n - 1][k]
            <6> DEFINE s == flatten[n - 1]
                       t == seqs[n]
            <6>1. s \in Seq(E) /\ t \in Seq(E) /\ flatten[n] = s \o t /\ k \in DOMAIN s
              BY <3>2, <5>2
            <6> HIDE DEF s, t
            <6>2. k \in DOMAIN (s \o t) /\ (s \o t)[k] = s[k]
              BY <6>1
            <6>3. QED
              BY <6>1, <6>2, Zenon DEF s, t
          <5>4. QED
            BY <5>2, <5>3
        <4>3. QED
          BY <4>1, <4>2
      <3>4. flatten[n] \in Seq(E)
        BY <3>2
      <3>5. QED
        BY <3>1, <3>3, <3>4
    <2>11. \A n \in 1 .. top : pair[n] \in V
      <3> HIDE DEF pair, V, top
      <3>1. QED
        BY <1>1, <2>1, <2>9, <2>10, ValuesStay
    <2>12. pair[top] = <<top, flatten[top]>> /\ pair[top] \in V
      BY <1>1, <2>1, <2>11
    <2>13. QED
      BY <1>1, <2>6, <2>12
  <1>4. QED
    BY <1>2, <1>3

Once(s) == \A i, j \in DOMAIN s : s[i] = s[j] => i = j
Holds(s, x) == \E k \in DOMAIN s : s[k] = x

\* The step of Distinct.
LEMMA DistinctStep ==
    ASSUME NEW s \in Seq(URLs), Once(s), NEW url \in URLs \cup {Empty},
           NEW t, t = IF url = Empty \/ Contains(s, url) THEN s ELSE Append(s, url)
    PROVE  /\ t \in Seq(URLs) /\ Once(t)
           /\ url = Empty \/ Holds(t, url)
           /\ \A x : Holds(s, x) => Holds(t, x)
  <1>1. CASE url = Empty \/ Contains(s, url)
    <2>1. t = s
      BY <1>1
    <2>2. QED
      BY <1>1, <2>1 DEF Contains, Holds
  <1>2. CASE url # Empty /\ ~ Contains(s, url)
    <2>1. t = Append(s, url) /\ url \in URLs
      BY <1>2
    <2>2. /\ t \in Seq(URLs) /\ Len(t) = Len(s) + 1 /\ t[Len(s) + 1] = url
          /\ \A i \in 1 .. Len(s) : t[i] = s[i] /\ s[i] # url
      BY <1>2, <2>1 DEF Contains
    <2>3. DOMAIN s = 1 .. Len(s) /\ DOMAIN t = 1 .. Len(s) + 1 /\ Len(s) \in Nat
      BY <2>2
    <2>4. Once(t)
      <3> SUFFICES ASSUME NEW i \in 1 .. Len(s) + 1, NEW j \in 1 .. Len(s) + 1,
                          t[i] = t[j]
                   PROVE  i = j
        BY <2>3 DEF Once
      <3>1. CASE i \in 1 .. Len(s) /\ j \in 1 .. Len(s)
        BY <2>2, <2>3, <3>1 DEF Once
      <3>2. CASE i = Len(s) + 1 \/ j = Len(s) + 1
        BY <2>2, <2>3, <3>2
      <3>3. QED
        BY <2>3, <3>1, <3>2
    <2>5. Holds(t, url) /\ \A x : Holds(s, x) => Holds(t, x)
      BY <2>2, <2>3 DEF Holds
    <2>6. QED
      BY <2>2, <2>4, <2>5
  <1>3. QED
    BY <1>1, <1>2

\* Every URL of the list is in Distinct(all), and no URL twice.
LEMMA DistinctURLs ==
    ASSUME NEW all \in Seq(URLs \cup {Empty})
    PROVE  /\ Distinct(all) \in Seq(URLs) /\ Once(Distinct(all))
           /\ \A i \in DOMAIN all : all[i] = Empty \/ Holds(Distinct(all), all[i])
  <1> DEFINE top == Len(all)
             U == Seq(URLs)
             Rule(f) == f = [n \in 0 .. top |->
                               IF n = 0 THEN <<>>
                               ELSE IF all[n] = Empty \/ Contains(f[n - 1], all[n])
                               THEN f[n - 1]
                               ELSE Append(f[n - 1], all[n])]
             step == [n \in 0 + 1 .. top |->
                        [s \in U |-> IF all[n] = Empty \/ Contains(s, all[n])
                                     THEN s ELSE Append(s, all[n])]]
  <1>1. /\ top \in Nat /\ 0 \in Nat /\ 0 <= top /\ DOMAIN all = 1 .. top
        /\ \A n \in 1 .. top : all[n] \in URLs \cup {Empty}
    OBVIOUS
  <1>2. <<>> \in U
    OBVIOUS
  <1>3. step \in [0 + 1 .. top -> [U -> U]]
    <2> SUFFICES ASSUME NEW n \in 1 .. top, NEW s \in U
                 PROVE  (IF all[n] = Empty \/ Contains(s, all[n])
                         THEN s ELSE Append(s, all[n])) \in U
      OBVIOUS
    <2>1. CASE all[n] = Empty \/ Contains(s, all[n])
      BY <2>1
    <2>2. CASE ~ (all[n] = Empty \/ Contains(s, all[n]))
      <3>1. all[n] \in URLs
        BY <1>1, <2>2
      <3>2. QED
        BY <2>2, <3>1
    <2>3. QED
      BY <2>1, <2>2
  <1>4. PICK f : /\ f \in [0 .. top -> U] /\ f[0] = <<>>
                 /\ \A n \in 0 + 1 .. top : f[n] = step[n][f[n - 1]]
    <2>1. step \in Steps(U, 0, top)
      BY <1>3, Zenon DEF Steps
    <2> HIDE DEF step, top, U
    <2>2. \E f : Solution(f, U, <<>>, 0, top, step)
      BY <1>1, <1>2, <2>1, RecursionExists
    <2>3. QED
      BY <2>2, Zenon DEF Solution
  <1>5. Rule(f)
    <2>1. ASSUME NEW n \in 0 .. top
          PROVE  f[n] = IF n = 0 THEN <<>>
                        ELSE IF all[n] = Empty \/ Contains(f[n - 1], all[n])
                        THEN f[n - 1] ELSE Append(f[n - 1], all[n])
      <3>1. CASE n = 0
        BY <1>4, <3>1
      <3>2. CASE n # 0
        <4>1. n \in 0 + 1 .. top /\ n - 1 \in 0 .. top
          BY <1>1, <3>2
        <4> HIDE DEF U
        <4>2. f[n - 1] \in U
          BY <1>4, <4>1
        <4>3. f[n] = step[n][f[n - 1]]
          BY <1>4, <4>1
        <4>4. QED
          BY <3>2, <4>1, <4>2, <4>3
      <3>3. QED
        BY <3>1, <3>2
    <2>2. QED
      BY <1>4, <2>1
  <1> DEFINE found == CHOOSE g : Rule(g)
  <1>6. Rule(found)
    BY <1>5, Zenon
  <1>7. Distinct(all) = found[top]
    BY Zenon DEF Distinct
  <1> HIDE DEF found
  <1> DEFINE pair == [n \in 0 .. top |-> <<n, found[n]>>]
             V == {at \in (0 .. top) \X U :
                      /\ Once(at[2])
                      /\ \A i \in 1 .. at[1] : all[i] = Empty \/ Holds(at[2], all[i])}
  <1>8. pair[0] \in V
    <2>1. found[0] = <<>>
      BY <1>1, <1>6
    <2>2. pair[0] = <<0, <<>> >> /\ 0 \in 0 .. top
      BY <1>1, <2>1
    <2>3. Once(<<>>)
      BY DEF Once
    <2>4. \A i \in 1 .. 0 : all[i] = Empty \/ Holds(<<>>, all[i])
      OBVIOUS
    <2>5. QED
      BY <1>2, <2>2, <2>3, <2>4
  <1>9. ASSUME NEW n \in 0 + 1 .. top, pair[n - 1] \in V PROVE pair[n] \in V
    <2>1. n \in 0 .. top /\ n # 0 /\ n - 1 \in 0 .. top /\ all[n] \in URLs \cup {Empty}
      BY <1>1
    <2>2. found[n] = IF all[n] = Empty \/ Contains(found[n - 1], all[n])
                     THEN found[n - 1] ELSE Append(found[n - 1], all[n])
      BY <1>6, <2>1
    <2>3. /\ found[n - 1] \in Seq(URLs) /\ Once(found[n - 1])
          /\ \A i \in 1 .. n - 1 : all[i] = Empty \/ Holds(found[n - 1], all[i])
      BY <1>9, <2>1
    <2>4. /\ found[n] \in Seq(URLs) /\ Once(found[n])
          /\ all[n] = Empty \/ Holds(found[n], all[n])
          /\ \A x : Holds(found[n - 1], x) => Holds(found[n], x)
      BY <2>1, <2>2, <2>3, DistinctStep
    <2>5. \A i \in 1 .. n : all[i] = Empty \/ Holds(found[n], all[i])
      BY <2>1, <2>3, <2>4
    <2>6. QED
      BY <2>1, <2>4, <2>5
  <1>10. \A n \in 0 .. top : pair[n] \in V
    <2> HIDE DEF pair, V, top
    <2>1. QED
      BY <1>1, <1>8, <1>9, ValuesStay
  <1>11. pair[top] = <<top, found[top]>> /\ pair[top] \in V
    BY <1>1, <1>10
  <1>12. QED
    BY <1>1, <1>7, <1>11

\* TrackerURLs has every URL of the announce-list and of announce, once.
LEMMA TrackerURLsAll ==
    ASSUME NEW first \in URLs \cup {Empty},
           NEW tiers \in Seq(Seq(URLs \cup {Empty}))
    PROVE  LET found == TrackerURLs(first, tiers)
           IN  /\ found \in Seq(URLs) /\ Once(found)
               /\ {first} \cup UNION {Range(tiers[i]) : i \in DOMAIN tiers}
                      \subseteq Range(found) \cup {Empty}
  <1> DEFINE X == URLs \cup {Empty}
             flat == FlattenSeq(tiers)
             all == <<first>> \o flat
             found == Distinct(all)
  <1>1. /\ flat \in Seq(X)
        /\ \A i \in DOMAIN tiers : \A j \in DOMAIN tiers[i] :
               \E k \in DOMAIN flat : flat[k] = tiers[i][j]
    <2> HIDE DEF X
    <2>1. tiers \in Seq(Seq(X))
      BY DEF X
    <2>2. QED
      BY <2>1, FlattenAll
  <1>2. first \in X
    OBVIOUS
  <1> HIDE DEF flat, X
  <1>3. /\ all \in Seq(X) /\ 1 \in DOMAIN all /\ all[1] = first
        /\ \A k \in DOMAIN flat : k + 1 \in DOMAIN all /\ all[k + 1] = flat[k]
    BY <1>1, <1>2
  <1> HIDE DEF all
  <1>4. /\ found \in Seq(URLs) /\ Once(found)
        /\ \A i \in DOMAIN all : all[i] = Empty \/ Holds(found, all[i])
    BY <1>3, DistinctURLs DEF X
  <1> HIDE DEF found
  <1>5. first \in Range(found) \cup {Empty}
    BY <1>3, <1>4 DEF Holds, Range
  <1>6. ASSUME NEW i \in DOMAIN tiers, NEW j \in DOMAIN tiers[i]
        PROVE  tiers[i][j] \in Range(found) \cup {Empty}
    <2>1. PICK k \in DOMAIN flat : flat[k] = tiers[i][j]
      BY <1>1
    <2>2. k + 1 \in DOMAIN all /\ all[k + 1] = tiers[i][j]
      BY <1>3, <2>1
    <2>3. QED
      BY <1>4, <2>2 DEF Holds, Range
  <1>7. {first} \cup UNION {Range(tiers[i]) : i \in DOMAIN tiers}
            \subseteq Range(found) \cup {Empty}
    <2> SUFFICES ASSUME NEW url \in {first} \cup UNION {Range(tiers[i]) : i \in DOMAIN tiers}
                 PROVE  url \in Range(found) \cup {Empty}
      OBVIOUS
    <2>1. CASE url = first
      BY <1>5, <2>1
    <2>2. CASE url # first
      <3>1. PICK i \in DOMAIN tiers : url \in Range(tiers[i])
        BY <2>2
      <3>2. PICK j \in DOMAIN tiers[i] : url = tiers[i][j]
        BY <3>1 DEF Range
      <3>3. QED
        BY <1>6, <3>2
    <2>3. QED
      BY <2>1, <2>2
  <1>8. found = TrackerURLs(first, tiers)
    BY DEF TrackerURLs, found, all, flat
  <1>9. QED
    BY <1>4, <1>7, <1>8

\* The announce-list keeps its type when empty strings and tiers are dropped.
LEMMA AnnounceListType ==
    ASSUME NEW X, NEW tiers \in Seq(Seq(X))
    PROVE  extractAnnounceList(tiers) \in Seq(Seq(X))
  <1> DEFINE cleaned == [i \in DOMAIN tiers |-> Without(tiers[i], Empty)]
  <1>1. \A i \in DOMAIN tiers : Without(tiers[i], Empty) \in Seq(X)
    <2>1. \A i \in DOMAIN tiers : tiers[i] \in Seq(X)
      OBVIOUS
    <2>2. QED
      BY <2>1, WithoutType
  <1>2. cleaned \in Seq(Seq(X))
    <2>1. DOMAIN tiers = 1 .. Len(tiers) /\ Len(tiers) \in Nat
      OBVIOUS
    <2>2. QED
      BY <1>1, <2>1
  <1> HIDE DEF cleaned
  <1>3. Without(cleaned, <<>>) \in Seq(Seq(X))
    <2> DEFINE W == Seq(X)
    <2> HIDE DEF W
    <2>1. cleaned \in Seq(W)
      BY <1>2 DEF W
    <2>2. Without(cleaned, <<>>) \in Seq(W)
      BY <2>1, WithoutType
    <2>3. QED
      BY <2>2 DEF W
  <1>4. QED
    BY <1>3 DEF cleaned, extractAnnounceList

-----------------------------------------------------------------------------
(* The inductive invariant.                                                *)

Answers ==
    {Nil} \cup {parseAnnounceResponse(data) : data \in HTTPAnswers}
          \cup {parseUDPAnswer(data, bytes) : data \in UDPAnswers, bytes \in {4, 16}}

\* The list is complete and names no tracker twice.
ListInv ==
    /\ urls \in Seq(URLs) /\ Once(urls)
    /\ {announce} \cup UNION {Range(announceList[i]) : i \in DOMAIN announceList}
           \subseteq Range(urls) \cup {Empty}

\* One answer for each tracker asked.
AskedInv ==
    /\ outcome \in {"none", "ok", "failed"}
    /\ heard \in Seq(Answers)
    /\ index = Len(heard) + 1 /\ index <= Len(urls) + 1

\* Only the last answer may suffice; without one that does, all were asked.
SearchInv ==
    /\ \A i \in DOMAIN heard :
           Suffices(heard[i]) =>
               i = Len(heard) /\ outcome = "ok" /\ response = heard[i]
    /\ outcome = "none" => (firstSuccessful = Nil <=> Answered = {})
    /\ outcome = "failed" => Answered = {} /\ Len(heard) = Len(urls)
    /\ outcome = "ok" =>
           \/ Suffices(response) /\ \E i \in DOMAIN heard : response = heard[i]
           \/ Len(heard) = Len(urls) /\ Answered # {}
              /\ \A i \in DOMAIN heard : ~ Suffices(heard[i])

TrackerInv == ListInv /\ AskedInv /\ SearchInv

\* AnnounceFirst starts with nobody asked.
LEMMA InitInv ==
    Init => TrackerInv
  <1> SUFFICES ASSUME Init PROVE TrackerInv
    OBVIOUS
  <1> DEFINE X == URLs \cup {Empty}
  <1>1. PICK tiers \in AnnounceLists : announceList = extractAnnounceList(tiers)
    BY DEF Init
  <1>2. announceList \in Seq(Seq(X))
    <2>1. tiers \in Seq(Seq(X))
      BY TrackerAssumption
    <2> HIDE DEF X
    <2>2. QED
      BY <1>1, <2>1, AnnounceListType
  <1>3. announce \in X
    BY DEF Init
  <1>4. urls = TrackerURLs(announce, announceList)
    BY DEF Init
  <1>5. ListInv
    BY <1>2, <1>3, <1>4, TrackerURLsAll DEF ListInv
  <1>6. AskedInv
    <2>1. Len(urls) \in Nat
      BY <1>5 DEF ListInv
    <2>2. heard = <<>> /\ index = 1 /\ outcome = "none"
      BY DEF Init
    <2>3. QED
      BY <2>1, <2>2 DEF AskedInv
  <1>7. SearchInv
    <2>1. heard = <<>> /\ outcome = "none" /\ firstSuccessful = Nil
      BY Zenon DEF Init
    <2>2. QED
      BY <2>1 DEF SearchInv, Answered
  <1>8. QED
    BY <1>5, <1>6, <1>7 DEF TrackerInv

\* Asking the next tracker keeps the invariant.
LEMMA AskNextInv ==
    TrackerInv /\ AskNext => TrackerInv'
  <1> SUFFICES ASSUME TrackerInv, AskNext PROVE TrackerInv'
    OBVIOUS
  <1> USE DEF TrackerInv
  <1>1. PICK answer \in AnnounceURL(urls[index]) :
            /\ heard' = Append(heard, answer)
            /\ IF Suffices(answer)
               THEN /\ outcome' = "ok"
                    /\ response' = answer
                    /\ UNCHANGED firstSuccessful
               ELSE /\ firstSuccessful' = IF firstSuccessful = Nil THEN answer
                                          ELSE firstSuccessful
                    /\ UNCHANGED <<outcome, response>>
    BY DEF AskNext
  <1>2. /\ outcome = "none" /\ index <= Len(urls) /\ index' = index + 1
        /\ UNCHANGED <<announce, announceList, event, urls>>
    BY DEF AskNext
  <1>3. answer \in Answers
    BY DEF AnnounceURL, Answers
  <1>4. /\ heard \in Seq(Answers) /\ heard' \in Seq(Answers)
        /\ Len(heard) \in Nat /\ Len(heard') = Len(heard) + 1
        /\ DOMAIN heard = 1 .. Len(heard) /\ DOMAIN heard' = 1 .. Len(heard) + 1
        /\ heard'[Len(heard) + 1] = answer
        /\ \A i \in 1 .. Len(heard) : heard'[i] = heard[i]
    BY <1>1, <1>3 DEF AskedInv
  <1>5. \A a : Suffices(a)' <=> Suffices(a')
    BY <1>2 DEF Suffices
  <1>6. ListInv'
    BY <1>2 DEF ListInv, Once
  <1>7. AskedInv'
    <2>1. Len(urls) \in Nat
      BY DEF ListInv
    <2>2. index' = Len(heard') + 1 /\ index' <= Len(urls) + 1
      BY <1>2, <1>4, <2>1 DEF AskedInv
    <2>3. outcome' \in {"none", "ok", "failed"}
      BY <1>1, <1>2
    <2>4. QED
      BY <1>2, <1>4, <2>2, <2>3 DEF AskedInv
  <1>8. \A i \in DOMAIN heard : ~ Suffices(heard[i])
    BY <1>2 DEF SearchInv
  <1>9. CASE Suffices(answer)
    <2>1. outcome' = "ok" /\ response' = answer
      BY <1>1, <1>9
    <2>2. \A i \in DOMAIN heard' : Suffices(heard'[i]) => i = Len(heard')
      BY <1>4, <1>8
    <2>3. Len(heard) + 1 \in DOMAIN heard'
      BY <1>4
    <2>4. QED
      BY <1>2, <1>4, <1>6, <1>7, <1>9, <2>1, <2>2, <2>3 DEF SearchInv, Suffices
  <1>10. CASE ~ Suffices(answer)
    <2>1. /\ outcome' = "none"
          /\ firstSuccessful' = IF firstSuccessful = Nil THEN answer
                                ELSE firstSuccessful
      BY <1>1, <1>2, <1>10
    <2>2. \A i \in DOMAIN heard' : ~ Suffices(heard'[i])
      BY <1>4, <1>8, <1>10
    <2>3. firstSuccessful' = Nil <=> Answered' = {}
      <3>1. firstSuccessful = Nil <=> Answered = {}
        BY <1>2 DEF SearchInv
      <3>2. Answered' = {} <=> Answered = {} /\ answer = Nil
        BY <1>4 DEF Answered
      <3>3. QED
        BY <2>1, <3>1, <3>2
    <2>4. QED
      BY <1>2, <1>6, <1>7, <2>1, <2>2, <2>3 DEF SearchInv, Suffices
  <1>11. QED
    BY <1>9, <1>10

\* The end of the loop keeps the invariant.
LEMMA EndLoopInv ==
    TrackerInv /\ EndLoop => TrackerInv'
  <1> SUFFICES ASSUME TrackerInv, EndLoop PROVE TrackerInv'
    OBVIOUS
  <1> USE DEF TrackerInv
  <1>1. /\ outcome = "none" /\ index > Len(urls)
        /\ outcome' = IF firstSuccessful # Nil THEN "ok" ELSE "failed"
        /\ UNCHANGED <<announce, announceList, event, urls, index,
                       firstSuccessful, heard>>
    BY DEF EndLoop
  <1>2. ListInv'
    BY <1>1 DEF ListInv, Once
  <1>3. AskedInv'
    BY <1>1 DEF AskedInv
  <1>4. Len(heard) = Len(urls)
    <2>1. Len(urls) \in Nat /\ Len(heard) \in Nat
      BY DEF ListInv, AskedInv
    <2>2. QED
      BY <1>1, <2>1 DEF AskedInv
  <1>5. \A i \in DOMAIN heard : ~ Suffices(heard[i])
    BY <1>1 DEF SearchInv
  <1>6. firstSuccessful = Nil <=> Answered = {}
    BY <1>1 DEF SearchInv
  <1>7. SearchInv'
    BY <1>1, <1>4, <1>5, <1>6 DEF SearchInv, Suffices, Answered
  <1>8. QED
    BY <1>2, <1>3, <1>7

\* The answers so far keep the invariant through every step.
THEOREM TrackerInvariance ==
    Spec => []TrackerInv
  <1>1. TrackerInv /\ [Next]_vars => TrackerInv'
    <2>1. TrackerInv /\ (Cancel \/ UNCHANGED vars) => TrackerInv'
      <3> SUFFICES ASSUME TrackerInv, Cancel \/ UNCHANGED vars PROVE TrackerInv'
        OBVIOUS
      <3>1. UNCHANGED <<announce, announceList, event, urls, index,
                        firstSuccessful, outcome, response, heard>>
        BY DEF Cancel, vars
      <3>2. ListInv' /\ AskedInv'
        BY <3>1 DEF TrackerInv, ListInv, Once, AskedInv
      <3>3. SearchInv'
        BY <3>1 DEF TrackerInv, SearchInv, Suffices, Answered
      <3>4. QED
        BY <3>2, <3>3 DEF TrackerInv
    <2>2. QED
      BY <2>1, AskNextInv, EndLoopInv DEF Next
  <1>2. QED
    BY <1>1, InitInv, PTL DEF Spec

-----------------------------------------------------------------------------
(* The theorems.                                                           *)

\* For every metainfo: a tracker is asked at most once, and the end of a download
\* is told to one tracker, whose answer is returned.
THEOREM EveryTrackerToldOnce ==
    Spec => []ToldOnce
  <1>1. TrackerInv => ToldOnce
    <2> SUFFICES ASSUME TrackerInv PROVE ToldOnce
      OBVIOUS
    <2>1. DOMAIN heard \subseteq DOMAIN urls
      <3>1. /\ Len(heard) \in Nat /\ DOMAIN heard = 1 .. Len(heard)
            /\ Len(urls) \in Nat /\ DOMAIN urls = 1 .. Len(urls)
        BY DEF TrackerInv, ListInv, AskedInv
      <3>2. QED
        BY <3>1 DEF TrackerInv, AskedInv
    <2>2. \A i, j \in DOMAIN heard : urls[i] = urls[j] => i = j
      BY <2>1 DEF TrackerInv, ListInv, Once
    <2>3. ASSUME event \in {"completed", "stopped"}, NEW i \in Answered
          PROVE  i = Len(heard) /\ outcome = "ok" /\ response = heard[i]
      <3>1. Suffices(heard[i]) /\ i \in DOMAIN heard
        BY <2>3 DEF Answered, Suffices
      <3>2. QED
        BY <3>1 DEF TrackerInv, SearchInv
    <2>4. QED
      BY <2>2, <2>3 DEF ToldOnce
  <1>2. QED
    BY <1>1, TrackerInvariance, PTL

\* For every metainfo and all answers: a download gets no peers only if every
\* tracker that the metainfo names was asked and none had any, and AnnounceFirst
\* fails only if all of them failed.
THEOREM NoPeersHidden ==
    Spec => []PeersNotHidden
  <1>1. TrackerInv => PeersNotHidden
    <2> SUFFICES ASSUME TrackerInv PROVE PeersNotHidden
      OBVIOUS
    <2>1. ASSUME outcome = "ok", response.peers = <<>>, event \in {"", "started"}
          PROVE  WithPeers = {} /\ Len(heard) = Len(urls)
      <3>1. ~ Suffices(response)
        BY <2>1 DEF Suffices
      <3>2. Len(heard) = Len(urls) /\ \A i \in DOMAIN heard : ~ Suffices(heard[i])
        BY <2>1, <3>1 DEF TrackerInv, SearchInv
      <3>3. QED
        BY <3>2 DEF WithPeers, Answered, Suffices
    <2>2. outcome = "failed" => Answered = {} /\ Len(heard) = Len(urls)
      BY DEF TrackerInv, SearchInv
    <2>3. QED
      BY <2>1, <2>2 DEF PeersNotHidden, TrackerInv, ListInv
  <1>2. QED
    BY <1>1, TrackerInvariance, PTL

=============================================================================
