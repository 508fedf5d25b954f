--------------------------- MODULE StorageProofs ----------------------------
(***************************************************************************)
(* Proofs about internal/storage/storage.go.                               *)
(*                                                                         *)
(* FileSpans, for any number of files of any length: a write puts every    *)
(* byte in its place and no other, a read gives back what was written, and *)
(* a range inside the torrent is always served.  The spans are a recursive *)
(* function of the file lengths.  What it computes is shown by induction,  *)
(* which the least element of a set of naturals gives without an operator  *)
(* as a parameter.                                                         *)
(*                                                                         *)
(* Storage, when one instance of the program runs at a time: whatever      *)
(* crashes and restarts happen, what has the completed name is whole and   *)
(* is never replaced.  With two instances that is not so, as               *)
(* MCStorageRace.cfg shows; that the partial file keeps its pieces is      *)
(* proved for any number of them.                                          *)
(***************************************************************************)
EXTENDS FileSpans, Storage, FiniteSetTheorems, WellFoundedInduction, TLAPS

-----------------------------------------------------------------------------
(* Induction.                                                              *)

\* A set of naturals has a least element.
LEMMA LeastNatural ==
    ASSUME NEW T, T \subseteq Nat, T # {}
    PROVE  \E least \in T : \A n \in T : least <= n
  <1> DEFINE R == OpToRel(<, Nat)
  <1>1. IsWellFoundedOn(R, Nat)
    BY NatLessThanWellFounded
  <1>2. R = {pair \in Nat \X Nat : pair[1] < pair[2]}
    BY DEF OpToRel
  <1> HIDE DEF R
  <1>3. PICK least \in T : \A n \in T : ~ (<<n, least>> \in R)
    BY <1>1, WFMin
  <1>4. \A n \in T : ~ (n < least)
    BY <1>2, <1>3
  <1>5. QED
    BY <1>4

\* Induction, with a set in the place of a predicate.
LEMMA InductionOnSet ==
    ASSUME NEW S, 0 \in S, \A n \in Nat : n \in S => n + 1 \in S
    PROVE  Nat \subseteq S
  <1> DEFINE T == Nat \ S
  <1> SUFFICES ASSUME T # {} PROVE FALSE
    OBVIOUS
  <1>1. PICK least \in T : \A n \in T : least <= n
    BY LeastNatural
  <1>2. least # 0 /\ least - 1 \in Nat /\ least - 1 \notin T
    BY <1>1
  <1>3. QED
    BY <1>2

-----------------------------------------------------------------------------
(* The spans that openMultiFile lays out.                                  *)

\* The recursion of Start has a solution.
LEMMA StartExists ==
    ASSUME NEW layout \in Seq(Nat)
    PROVE  \E f \in [1 .. Len(layout) + 1 -> Nat] :
               /\ f[1] = 0
               /\ \A g \in 2 .. Len(layout) + 1 : f[g] = f[g - 1] + layout[g - 1]
  <1> DEFINE Solved(n) ==
                 \E f \in [1 .. n + 1 -> Nat] :
                     /\ f[1] = 0
                     /\ \A g \in 2 .. n + 1 : f[g] = f[g - 1] + layout[g - 1]
             S == {n \in Nat : n <= Len(layout) => Solved(n)}
  <1>1. 0 \in S
    <2> DEFINE f == [g \in 1 .. 0 + 1 |-> 0]
    <2>1. f \in [1 .. 0 + 1 -> Nat] /\ f[1] = 0
      OBVIOUS
    <2> HIDE DEF f
    <2>2. \A g \in 2 .. 0 + 1 : f[g] = f[g - 1] + layout[g - 1]
      OBVIOUS
    <2>3. Solved(0)
      BY <2>1, <2>2
    <2>4. QED
      BY <2>3
  <1>2. ASSUME NEW n \in Nat, n \in S PROVE n + 1 \in S
    <2> SUFFICES ASSUME n + 1 <= Len(layout) PROVE Solved(n + 1)
      OBVIOUS
    <2>1. n <= Len(layout)
      OBVIOUS
    <2>2. PICK f \in [1 .. n + 1 -> Nat] :
              /\ f[1] = 0
              /\ \A g \in 2 .. n + 1 : f[g] = f[g - 1] + layout[g - 1]
      BY <1>2, <2>1
    <2>3. layout[n + 1] \in Nat
      OBVIOUS
    <2> DEFINE h == [g \in 1 .. (n + 1) + 1 |->
                        IF g <= n + 1 THEN f[g] ELSE f[n + 1] + layout[n + 1]]
    <2>4. h \in [1 .. (n + 1) + 1 -> Nat]
      BY <2>2, <2>3
    <2>5. h[1] = 0
      BY <2>2
    <2>6. \A g \in 2 .. (n + 1) + 1 : h[g] = h[g - 1] + layout[g - 1]
      BY <2>2
    <2> HIDE DEF h
    <2>7. QED
      BY <2>4, <2>5, <2>6
  <1> HIDE DEF Solved
  <1>3. Nat \subseteq S
    <2> HIDE DEF S
    <2>1. QED
      BY <1>1, <1>2, InductionOnSet
  <1>4. Solved(Len(layout))
    BY <1>3
  <1>5. QED
    BY <1>4 DEF Solved

\* Each file begins where the one before it ends.
LEMMA StartRecursion ==
    ASSUME NEW layout \in Seq(Nat)
    PROVE  /\ Start(layout) \in [1 .. Len(layout) + 1 -> Nat]
           /\ Start(layout)[1] = 0
           /\ \A g \in 1 .. Len(layout) :
                  Start(layout)[g + 1] = Start(layout)[g] + layout[g]
  <1> DEFINE Rule(f) == f = [g \in 1 .. Len(layout) + 1 |->
                                IF g = 1 THEN 0 ELSE f[g - 1] + layout[g - 1]]
  <1>1. \E f : Rule(f)
    <2>1. PICK f \in [1 .. Len(layout) + 1 -> Nat] :
              /\ f[1] = 0
              /\ \A g \in 2 .. Len(layout) + 1 : f[g] = f[g - 1] + layout[g - 1]
      BY StartExists
    <2>2. Len(layout) \in Nat
      OBVIOUS
    <2>3. \A g \in 1 .. Len(layout) + 1 :
              f[g] = IF g = 1 THEN 0 ELSE f[g - 1] + layout[g - 1]
      BY <2>1, <2>2
    <2>4. Rule(f)
      BY <2>1, <2>3
    <2>5. QED
      BY <2>4
  <1>2. Start(layout) = CHOOSE f : Rule(f)
    BY Zenon DEF Start
  <1>3. Rule(Start(layout))
    BY <1>1, <1>2, Zenon
  <1> DEFINE s == Start(layout)
             Good(n) == n <= Len(layout) => s[n + 1] \in Nat
  <1> HIDE DEF s
  <1>4. Len(layout) \in Nat /\ \A g \in 1 .. Len(layout) : layout[g] \in Nat
    OBVIOUS
  <1>5. s = [g \in 1 .. Len(layout) + 1 |->
                IF g = 1 THEN 0 ELSE s[g - 1] + layout[g - 1]]
    BY <1>3 DEF s
  <1>6. s[1] = 0 /\ DOMAIN s = 1 .. Len(layout) + 1
    BY <1>4, <1>5
  <1>7. ASSUME NEW g \in 1 .. Len(layout) PROVE s[g + 1] = s[g] + layout[g]
    <2>1. g + 1 \in 1 .. Len(layout) + 1 /\ g + 1 # 1 /\ (g + 1) - 1 = g
      BY <1>4
    <2>2. QED
      BY <1>5, <2>1
  <1>8. \A n \in Nat : Good(n)
    <2>1. Good(0)
      BY <1>6
    <2>2. ASSUME NEW n \in Nat, Good(n), n + 1 <= Len(layout)
          PROVE  s[(n + 1) + 1] \in Nat
      <3>1. n <= Len(layout) /\ n + 1 \in 1 .. Len(layout)
        BY <1>4, <2>2
      <3>2. s[n + 1] \in Nat /\ layout[n + 1] \in Nat
        BY <1>4, <2>2, <3>1
      <3>3. s[(n + 1) + 1] = s[n + 1] + layout[n + 1]
        BY <1>7, <3>1
      <3>4. QED
        BY <3>2, <3>3
    <2>3. \A n \in Nat : Good(n) => Good(n + 1)
      BY <2>2
    <2> DEFINE S == {n \in Nat : Good(n)}
    <2> HIDE DEF Good
    <2>4. 0 \in S /\ \A n \in Nat : n \in S => n + 1 \in S
      BY <2>1, <2>3
    <2>5. Nat \subseteq S
      <3> HIDE DEF S
      <3>1. QED
        BY <2>4, InductionOnSet
    <2>6. QED
      BY <2>5
  <1>9. ASSUME NEW g \in 1 .. Len(layout) + 1 PROVE s[g] \in Nat
    <2>1. g - 1 \in Nat /\ g - 1 <= Len(layout) /\ (g - 1) + 1 = g
      BY <1>4
    <2>2. s[(g - 1) + 1] \in Nat
      BY <1>8, <2>1
    <2>3. QED
      BY <2>1, <2>2
  <1>10. s \in [1 .. Len(layout) + 1 -> Nat]
    BY <1>5, <1>9
  <1>11. QED
    BY <1>6, <1>7, <1>10 DEF s

\* Later files begin later.
LEMMA StartMonotone ==
    ASSUME NEW layout \in Seq(Nat),
           NEW f \in 1 .. Len(layout) + 1, NEW g \in f .. Len(layout) + 1
    PROVE  Start(layout)[f] <= Start(layout)[g]
  <1> DEFINE s == Start(layout)
             Later(n) == f + n <= Len(layout) + 1 => s[f] <= s[f + n]
  <1>1. /\ Len(layout) \in Nat
        /\ s \in [1 .. Len(layout) + 1 -> Nat]
        /\ \A h \in 1 .. Len(layout) :
               layout[h] \in Nat /\ s[h + 1] = s[h] + layout[h]
    BY StartRecursion
  <1> HIDE DEF s
  <1>2. Later(0)
    <2>1. f + 0 = f /\ s[f] \in Nat
      BY <1>1
    <2>2. QED
      BY <2>1
  <1>3. ASSUME NEW n \in Nat, Later(n), f + (n + 1) <= Len(layout) + 1
        PROVE  s[f] <= s[f + (n + 1)]
    <2>1. /\ f + n \in 1 .. Len(layout) /\ f + (n + 1) = (f + n) + 1
          /\ f + n <= Len(layout) + 1 /\ f + n \in 1 .. Len(layout) + 1
      BY <1>1, <1>3
    <2>2. s[(f + n) + 1] = s[f + n] + layout[f + n] /\ layout[f + n] \in Nat
      BY <1>1, <2>1
    <2>3. s[f] <= s[f + n]
      BY <1>3, <2>1
    <2>4. s[f] \in Nat /\ s[f + n] \in Nat
      BY <1>1, <2>1
    <2>5. QED
      BY <2>1, <2>2, <2>3, <2>4
  <1>4. \A n \in Nat : Later(n)
    <2>1. \A n \in Nat : Later(n) => Later(n + 1)
      BY <1>3
    <2> DEFINE S == {n \in Nat : Later(n)}
    <2> HIDE DEF Later
    <2>2. 0 \in S /\ \A n \in Nat : n \in S => n + 1 \in S
      BY <1>2, <2>1
    <2>3. Nat \subseteq S
      <3> HIDE DEF S
      <3>1. QED
        BY <2>2, InductionOnSet
    <2>4. QED
      BY <2>3
  <1>5. g - f \in Nat /\ f + (g - f) <= Len(layout) + 1 /\ f + (g - f) = g
    BY <1>1
  <1>6. s[f] <= s[f + (g - f)]
    BY <1>4, <1>5
  <1>7. QED
    BY <1>5, <1>6 DEF s

\* What the lemmas above need of the layout of a torrent.
LEMMA LayoutType ==
    ASSUME NEW layout \in Layouts
    PROVE  /\ layout \in Seq(Nat)
           /\ Len(layout) \in Nat
           /\ DOMAIN layout = 1 .. Len(layout)
           /\ \A f \in DOMAIN layout : layout[f] \in 0 .. MaxLength
  <1>1. PICK n \in 1 .. MaxFiles : layout \in [1 .. n -> 0 .. MaxLength]
    BY DEF Layouts
  <1>2. n \in Nat /\ layout \in Seq(0 .. MaxLength)
    BY <1>1, FileSpansAssumption
  <1>3. QED
    BY <1>1, <1>2, FileSpansAssumption

\* The cells of one file.
LEMMA CellsOfOneFile ==
    ASSUME NEW f, NEW size \in Nat
    PROVE  LET new == {f} \X (0 .. size - 1)
           IN  IsFiniteSet(new) /\ Cardinality(new) = size
  <1> DEFINE offsets == 0 .. size - 1
             new     == {f} \X offsets
  <1>1. IsFiniteSet(offsets) /\ Cardinality(offsets) = size
    <2>1. /\ IsFiniteSet(offsets)
          /\ Cardinality(offsets) = IF 0 > size - 1 THEN 0 ELSE (size - 1) - 0 + 1
      BY FS_Interval
    <2> HIDE DEF offsets
    <2>2. QED
      BY <2>1
  <1>2. IsFiniteSet({f}) /\ Cardinality({f}) = 1
    BY FS_Singleton
  <1> HIDE DEF offsets
  <1>3. IsFiniteSet(new) /\ Cardinality(new) = 1 * Cardinality(offsets)
    BY <1>1, <1>2, FS_Product
  <1> HIDE DEF new
  <1>4. Cardinality(new) = size
    BY <1>1, <1>3
  <1>5. QED
    BY <1>3, <1>4 DEF new, offsets

\* The cells of the files before f.
Before(f) == {cell \in (1 .. f - 1) \X (0 .. MaxLength - 1) :
                  cell[2] < lengths[cell[1]]}

\* The spans are right: the k-th byte of file f is start[f] + k in the torrent,
\* which is what counting the bytes of the files before it gives.
LEMMA PositionInFile ==
    ASSUME lengths \in Layouts, NEW f \in DOMAIN lengths, NEW k
    PROVE  TorrentPosition(f, k) = k + start[f]
  <1> DEFINE Counted(n) == n <= Len(lengths) =>
                               /\ IsFiniteSet(Before(n + 1))
                               /\ Cardinality(Before(n + 1)) = start[n + 1]
  <1>1. /\ lengths \in Seq(Nat) /\ Len(lengths) \in Nat
        /\ DOMAIN lengths = 1 .. Len(lengths)
        /\ \A g \in 1 .. Len(lengths) : lengths[g] \in 0 .. MaxLength
    BY LayoutType
  <1>2. /\ start \in [1 .. Len(lengths) + 1 -> Nat] /\ start[1] = 0
        /\ \A g \in 1 .. Len(lengths) : start[g + 1] = start[g] + lengths[g]
    BY <1>1, StartRecursion DEF start
  <1>3. Counted(0)
    <2>1. Before(0 + 1) = {} /\ start[0 + 1] = 0
      BY <1>2 DEF Before
    <2>2. QED
      BY <2>1, FS_EmptySet
  <1>4. ASSUME NEW n \in Nat, Counted(n), n + 1 <= Len(lengths)
        PROVE  /\ IsFiniteSet(Before((n + 1) + 1))
               /\ Cardinality(Before((n + 1) + 1)) = start[(n + 1) + 1]
    <2> DEFINE size == lengths[n + 1]
               old  == Before(n + 1)
               new  == {n + 1} \X (0 .. size - 1)
    <2>1. /\ n + 1 \in 1 .. Len(lengths) /\ n <= Len(lengths)
          /\ size \in Nat /\ size <= MaxLength
      BY <1>1, <1>4, FileSpansAssumption
    <2>2. IsFiniteSet(old) /\ Cardinality(old) = start[n + 1]
      BY <1>4, <2>1
    <2>3. IsFiniteSet(new) /\ Cardinality(new) = size
      BY <2>1, CellsOfOneFile
    <2>4. Before((n + 1) + 1) = old \cup new
      BY <2>1, FileSpansAssumption DEF Before
    <2>5. old \cap new = {}
      BY DEF Before
    <2>6. start[(n + 1) + 1] = start[n + 1] + size /\ start[n + 1] \in Nat
      BY <1>2, <2>1
    <2> HIDE DEF old, new, size
    <2>7. /\ IsFiniteSet(old \cup new)
          /\ Cardinality(old \cup new) = start[n + 1] + size - 0
      BY <2>2, <2>3, <2>5, FS_Union, FS_EmptySet
    <2>8. start[n + 1] + size - 0 = start[n + 1] + size
      BY <2>1, <2>6
    <2>9. QED
      BY <2>4, <2>6, <2>7, <2>8
  <1>5. \A n \in Nat : Counted(n)
    <2>1. \A n \in Nat : Counted(n) => Counted(n + 1)
      BY <1>4
    <2> DEFINE S == {n \in Nat : Counted(n)}
    <2> HIDE DEF Counted
    <2>2. 0 \in S /\ \A n \in Nat : n \in S => n + 1 \in S
      BY <1>3, <2>1
    <2>3. Nat \subseteq S
      <3> HIDE DEF S
      <3>1. QED
        BY <2>2, InductionOnSet
    <2>4. QED
      BY <2>3
  <1>6. f - 1 \in Nat /\ f - 1 <= Len(lengths) /\ (f - 1) + 1 = f
    BY <1>1
  <1>7. Cardinality(Before(f)) = start[f]
    BY <1>5, <1>6
  <1>8. QED
    BY <1>7 DEF TorrentPosition, Before

-----------------------------------------------------------------------------
(* The inductive invariant.                                                *)

Written == IF op = "write" THEN done ELSE length

RequestInv ==
    /\ lengths \in Layouts
    /\ offset \in Int /\ length \in Nat
    /\ op \in {"write", "read"}
    /\ span \in 1 .. Len(lengths) + 1
    /\ done \in 0 .. length
    /\ outcome \in {"running", "ok", "error"}
    /\ ioFailed \in BOOLEAN

\* The loop never runs past the next byte: it is in this file or a later one.
LoopInv ==
    /\ outcome \in {"running", "ok"} => InRange(Total, offset, length) /\ ~ioFailed
    /\ outcome = "running" => done = length \/ position >= start[span]
    /\ outcome = "ok" => done = length

\* The cells and the buffer, as functions of the request and of the progress.
Row(f, written) ==
    [k \in 0 .. lengths[f] - 1 |->
        IF start[f] + k \in offset .. offset + written - 1
        THEN start[f] + k ELSE Unwritten]

CellsInv == cells = [f \in DOMAIN lengths |-> Row(f, Written)]

BufferInv ==
    buffer = IF op = "write" THEN <<>> ELSE [i \in 1 .. done |-> offset + i - 1]

FileSpansInv == RequestInv /\ LoopInv /\ CellsInv /\ BufferInv /\ RangeServed

-----------------------------------------------------------------------------
(* What one turn of the loop does.                                         *)

\* The spans of the torrent at hand.
LEMMA SpanFacts ==
    ASSUME RequestInv
    PROVE  /\ lengths \in Seq(Nat) /\ Len(lengths) \in Nat
           /\ DOMAIN lengths = 1 .. Len(lengths)
           /\ start \in [1 .. Len(lengths) + 1 -> Nat] /\ start[1] = 0
           /\ \A f \in 1 .. Len(lengths) :
                  lengths[f] \in Nat /\ start[f + 1] = start[f] + lengths[f]
           /\ \A f \in 1 .. Len(lengths) + 1 : \A g \in f .. Len(lengths) + 1 :
                  start[f] <= start[g]
           /\ Total = start[Len(lengths) + 1] /\ Total \in Nat
  <1>1. /\ lengths \in Seq(Nat) /\ Len(lengths) \in Nat
        /\ DOMAIN lengths = 1 .. Len(lengths)
        /\ \A f \in 1 .. Len(lengths) : lengths[f] \in Nat
    BY LayoutType, FileSpansAssumption DEF RequestInv
  <1>2. /\ start \in [1 .. Len(lengths) + 1 -> Nat] /\ start[1] = 0
        /\ \A f \in 1 .. Len(lengths) : start[f + 1] = start[f] + lengths[f]
    BY <1>1, StartRecursion DEF start
  <1>3. \A f \in 1 .. Len(lengths) + 1 : \A g \in f .. Len(lengths) + 1 :
            start[f] <= start[g]
    BY <1>1, StartMonotone DEF start
  <1>4. Total = start[Len(lengths) + 1] /\ Total \in Nat
    BY <1>1, <1>2 DEF Total
  <1>5. QED
    BY <1>1, <1>2, <1>3, <1>4

\* A chunk lies in its file, and it ends the request or the file.
LEMMA ChunkFacts ==
    ASSUME RequestInv, More, Inside
    PROVE  /\ span \in 1 .. Len(lengths)
           /\ chunkLength \in Nat
           /\ done + chunkLength <= length
           /\ position >= start[span]
           /\ position + chunkLength <= start[span + 1]
           /\ done + chunkLength = length \/ position + chunkLength = start[span + 1]
  <1>1. /\ span \in 1 .. Len(lengths)
        /\ span \in 1 .. Len(lengths) + 1 /\ span + 1 \in 1 .. Len(lengths) + 1
    BY SpanFacts DEF RequestInv, More
  <1>2. start[span] \in Nat /\ start[span + 1] \in Nat
    BY <1>1, SpanFacts
  <1>3. done \in Nat /\ length \in Nat /\ position \in Int /\ done < length
    BY DEF RequestInv, More, position
  <1>4. position >= start[span] /\ position < start[span + 1]
    BY DEF Inside
  <1>5. QED
    BY <1>1, <1>2, <1>3, <1>4, SMTT(30) DEF chunkLength

\* Writing n bytes of the chunk changes the rows as it should: the row of the
\* file at hand, where the chunk lies, and no other.
LEMMA RowsAfterWrite ==
    ASSUME RequestInv, More, Inside, NEW n \in 0 .. chunkLength
    PROVE  /\ \A f \in DOMAIN lengths \ {span} : Row(f, done + n) = Row(f, done)
           /\ Row(span, done + n) =
                  [k \in 0 .. lengths[span] - 1 |->
                      IF k \in fileOffset .. fileOffset + n - 1
                      THEN position + (k - fileOffset) ELSE Row(span, done)[k]]
  <1>1. /\ span \in 1 .. Len(lengths) /\ n \in Nat
        /\ start[span] \in Nat /\ start[span + 1] \in Nat
        /\ start[span + 1] = start[span] + lengths[span]
        /\ position >= start[span] /\ position + n <= start[span + 1]
    <2>1. /\ span \in 1 .. Len(lengths) /\ n \in Nat /\ n <= chunkLength
          /\ span + 1 \in 1 .. Len(lengths) + 1 /\ position \in Int
      BY ChunkFacts, SpanFacts DEF RequestInv, position
    <2>2. start[span] \in Nat /\ start[span + 1] \in Nat
      BY <2>1, SpanFacts, SMTT(30)
    <2>3. QED
      BY <2>1, <2>2, ChunkFacts, SpanFacts
  <1>2. /\ position = offset + done /\ position \in Int
        /\ offset \in Int /\ done \in Nat
    BY DEF position, RequestInv
  <1>3. ASSUME NEW f \in DOMAIN lengths \ {span}
        PROVE  Row(f, done + n) = Row(f, done)
    <2>1. /\ f \in 1 .. Len(lengths) /\ Len(lengths) \in Nat
          /\ start[f] \in Nat /\ lengths[f] \in Nat
          /\ f + 1 \in 1 .. Len(lengths) + 1
          /\ start[f + 1] = start[f] + lengths[f]
      BY SpanFacts
    <2>2. start[f + 1] <= start[span] \/ start[span + 1] <= start[f]
      <3>1. CASE f < span
        <4>1. span \in f + 1 .. Len(lengths) + 1
          BY <1>1, <2>1, <3>1
        <4>2. QED
          BY <2>1, <4>1, SpanFacts
      <3>2. CASE span < f
        <4>1. f \in span + 1 .. Len(lengths) + 1 /\ span + 1 \in 1 .. Len(lengths) + 1
          BY <1>1, <2>1, <3>2
        <4>2. QED
          BY <4>1, SpanFacts
      <3>3. QED
        BY <1>1, <2>1, <3>1, <3>2
    <2>3. \A k \in 0 .. lengths[f] - 1 :
              start[f] + k \in offset .. offset + (done + n) - 1
              <=> start[f] + k \in offset .. offset + done - 1
      <3> SUFFICES ASSUME NEW k \in 0 .. lengths[f] - 1
                   PROVE  start[f] + k \in offset .. offset + (done + n) - 1
                          <=> start[f] + k \in offset .. offset + done - 1
        OBVIOUS
      <3>1. start[f] + k \in Int /\ start[f] <= start[f] + k
            /\ start[f] + k < start[f + 1]
        BY <2>1
      <3>2. start[f + 1] \in Nat
        BY <2>1
      <3>3. start[f] + k < position \/ position + n <= start[f] + k
        <4>1. CASE start[f + 1] <= start[span]
          <5>1. start[span] \in Int /\ position \in Int /\ start[span] <= position
            BY <1>1, <1>2
          <5>2. QED
            BY <3>1, <3>2, <4>1, <5>1
        <4>2. CASE start[span + 1] <= start[f]
          BY <1>1, <1>2, <2>1, <3>1, <4>2, SMTT(30)
        <4>3. QED
          BY <2>2, <4>1, <4>2
      <3>4. QED
        BY <1>1, <1>2, <3>1, <3>3
    <2>4. QED
      BY <2>3 DEF Row
  <1>4. \A k \in 0 .. lengths[span] - 1 :
            Row(span, done + n)[k] = IF k \in fileOffset .. fileOffset + n - 1
                                     THEN position + (k - fileOffset)
                                     ELSE Row(span, done)[k]
    <2>1. lengths[span] \in Nat
      BY <1>1, SpanFacts
    <2>2. fileOffset = offset + done - start[span]
      BY <1>1, <1>2 DEF fileOffset
    <2>3. ASSUME NEW k \in 0 .. lengths[span] - 1
          PROVE  /\ k \in fileOffset .. fileOffset + n - 1
                    <=> start[span] + k \in position .. position + n - 1
                 /\ position + (k - fileOffset) = start[span] + k
                 /\ start[span] + k \in offset .. offset + (done + n) - 1
                    <=> \/ start[span] + k \in position .. position + n - 1
                        \/ start[span] + k \in offset .. offset + done - 1
      <3>1. k \in Int /\ start[span] \in Int /\ n \in Nat
        BY <1>1, <2>1
      <3>2. QED
        BY <1>2, <2>2, <3>1
    <2>4. QED
      BY <2>3 DEF Row
  <1>5. QED
    BY <1>3, <1>4 DEF Row

\* Appending a stretch of consecutive positions to the one before it.
LEMMA ConcatRanges ==
    ASSUME NEW m \in Nat, NEW n \in Nat, NEW from \in Int
    PROVE  [i \in 1 .. m |-> from + i - 1] \o [i \in 1 .. n |-> from + (m + i) - 1]
               = [i \in 1 .. m + n |-> from + i - 1]
  OBVIOUS

\* A transfer of n bytes of the chunk keeps the cells and the buffer in step
\* with the progress, whether or not the call then fails.
LEMMA TransferInStep ==
    ASSUME RequestInv, LoopInv, CellsInv, BufferInv, More, Inside,
           NEW n \in 0 .. chunkLength, Transfer(n),
           UNCHANGED <<request, op>>
    PROVE  CellsInv' /\ BufferInv' /\ done' = done + n /\ done' \in 0 .. length
  <1>1. /\ lengths' = lengths /\ offset' = offset /\ length' = length /\ op' = op
        /\ start' = start
        /\ \A f, w : Row(f, w)' = Row(f, w')
    BY DEF request, start, Row
  <1>2. done' = done + n /\ done' \in 0 .. length
    <2>1. n \in Nat /\ done \in Nat /\ length \in Nat /\ done + n <= length
      BY ChunkFacts DEF RequestInv
    <2>2. QED
      BY <2>1 DEF Transfer
  <1>3. span \in DOMAIN lengths
    BY ChunkFacts, SpanFacts
  <1>4. CASE op = "write"
    <2>1. Written = done /\ Written' = done + n
      BY <1>1, <1>2, <1>4 DEF Written
    <2>2. buffer' = buffer
      BY <1>4 DEF Transfer
    <2>3. BufferInv'
      BY <1>1, <1>4, <2>2 DEF BufferInv
    <2>4. cells = [f \in DOMAIN lengths |-> Row(f, done)]
      BY <2>1 DEF CellsInv
    <2>5. cells' = [cells EXCEPT ![span] =
                      [k \in DOMAIN cells[span] |->
                          IF k \in fileOffset .. fileOffset + n - 1
                          THEN position + (k - fileOffset)
                          ELSE cells[span][k]]]
      BY <1>4 DEF Transfer, WriteBytes
    <2>6. cells[span] = Row(span, done) /\ DOMAIN Row(span, done) = 0 .. lengths[span] - 1
      BY <1>3, <2>4 DEF Row
    <2>7. cells' = [cells EXCEPT ![span] = Row(span, done + n)]
      <3>1. [k \in DOMAIN cells[span] |->
                IF k \in fileOffset .. fileOffset + n - 1
                THEN position + (k - fileOffset) ELSE cells[span][k]]
            = Row(span, done + n)
        <4>1. Row(span, done + n) =
                  [k \in 0 .. lengths[span] - 1 |->
                      IF k \in fileOffset .. fileOffset + n - 1
                      THEN position + (k - fileOffset) ELSE Row(span, done)[k]]
          BY RowsAfterWrite, Zenon
        <4>2. QED
          BY <2>6, <4>1, Zenon
      <3>2. QED
        BY <2>5, <3>1, Zenon
    <2>8. cells' = [f \in DOMAIN lengths |-> Row(f, done + n)]
      BY <1>3, <2>4, <2>7, RowsAfterWrite
    <2>9. CellsInv'
      BY <1>1, <2>1, <2>8 DEF CellsInv, Row
    <2>10. QED
      BY <1>2, <2>3, <2>9
  <1>5. CASE op = "read"
    <2>1. cells' = cells /\ Written = length /\ Written' = length
      BY <1>1, <1>5 DEF Transfer, Written
    <2>2. CellsInv'
      BY <1>1, <2>1 DEF CellsInv, Row
    <2>3. buffer' = buffer \o [i \in 1 .. n |-> cells[span][fileOffset + i - 1]]
      BY <1>5 DEF Transfer, ReadBytes
    <2>4. buffer = [i \in 1 .. done |-> offset + i - 1]
      BY <1>5 DEF BufferInv
    <2>5. ASSUME NEW i \in 1 .. n
          PROVE  cells[span][fileOffset + i - 1] = offset + (done + i) - 1
      <3>1. /\ position = offset + done /\ offset \in Int /\ done \in Nat
            /\ position \in Int /\ length \in Nat
            /\ n \in Nat /\ i \in Nat /\ 1 <= i /\ i <= n
        BY ChunkFacts DEF position, RequestInv
      <3>2. /\ start[span] \in Nat /\ lengths[span] \in Nat
            /\ start[span + 1] = start[span] + lengths[span]
        BY ChunkFacts, SpanFacts DEF RequestInv
      <3>3. position >= start[span] /\ position + n <= start[span + 1]
        BY <3>1, <3>2, ChunkFacts
      <3>4. fileOffset = position - start[span]
        BY DEF fileOffset
      <3>5. /\ fileOffset + i - 1 \in 0 .. lengths[span] - 1
            /\ start[span] + (fileOffset + i - 1) = offset + (done + i) - 1
        BY <3>1, <3>2, <3>3, <3>4
      <3>6. offset + (done + i) - 1 \in offset .. offset + length - 1
        BY <1>2, <3>1
      <3>7. cells[span] = Row(span, length)
        BY <1>3, <2>1 DEF CellsInv
      <3>8. QED
        BY <3>5, <3>6, <3>7 DEF Row
    <2>6. buffer' = [i \in 1 .. done + n |-> offset + i - 1]
      <3>1. [i \in 1 .. n |-> cells[span][fileOffset + i - 1]]
            = [i \in 1 .. n |-> offset + (done + i) - 1]
        BY <2>5
      <3>2. n \in Nat /\ done \in Nat /\ offset \in Int
        BY ChunkFacts DEF RequestInv
      <3>3. [i \in 1 .. done |-> offset + i - 1]
                \o [i \in 1 .. n |-> offset + (done + i) - 1]
            = [i \in 1 .. done + n |-> offset + i - 1]
        BY <3>2, ConcatRanges
      <3>4. QED
        BY <2>3, <2>4, <3>1, <3>3, Zenon
    <2>7. BufferInv'
      BY <1>1, <1>2, <1>5, <2>6 DEF BufferInv
    <2>8. QED
      BY <1>2, <2>2, <2>7
  <1>6. QED
    BY <1>4, <1>5 DEF RequestInv

-----------------------------------------------------------------------------
(* The invariant is inductive.                                             *)

\* Nothing is written when the request comes in.
LEMMA InitInv ==
    SpansInit => FileSpansInv
  <1> SUFFICES ASSUME SpansInit PROVE FileSpansInv
    OBVIOUS
  <1>1. lengths \in Layouts /\ Len(lengths) \in Nat /\ lengths \in Seq(Nat)
    BY LayoutType DEF SpansInit
  <1>2. start \in [1 .. Len(lengths) + 1 -> Nat] /\ start[1] = 0
    BY <1>1, StartRecursion DEF start
  <1>3. RequestInv
    <2>1. Total \in Nat
      BY <1>1, <1>2 DEF Total
    <2>2. offset \in Int /\ length \in Nat
      BY <2>1 DEF SpansInit
    <2>3. outcome \in {"running", "ok", "error"}
      BY Zenon DEF SpansInit
    <2>4. op \in {"write", "read"} /\ ioFailed \in BOOLEAN
      BY Zenon DEF SpansInit
    <2>5. span \in 1 .. Len(lengths) + 1 /\ done \in 0 .. length
      BY <1>1, <2>2 DEF SpansInit
    <2>6. QED
      BY <1>1, <2>2, <2>3, <2>4, <2>5, Zenon DEF RequestInv
  <1>4. LoopInv
    BY <1>2, <1>3 DEF SpansInit, LoopInv, position, InRange, RequestInv
  <1>5. CellsInv
    <2>1. Written = 0 /\ offset \in Int
      BY <1>3 DEF SpansInit, Written, RequestInv
    <2>2. ASSUME NEW f \in DOMAIN lengths
          PROVE  Row(f, Written) = [k \in 0 .. lengths[f] - 1 |-> Unwritten]
      <3>1. offset .. offset + Written - 1 = {}
        BY <2>1
      <3>2. QED
        BY <3>1 DEF Row
    <2>3. QED
      BY <2>2 DEF SpansInit, CellsInv
  <1>6. BufferInv /\ RangeServed
    BY DEF SpansInit, BufferInv, RangeServed
  <1>7. QED
    BY <1>3, <1>4, <1>5, <1>6 DEF FileSpansInv

\* What a step leaves alone stays as it is described.
LEMMA SameRequest ==
    ASSUME UNCHANGED request
    PROVE  /\ lengths' = lengths /\ offset' = offset /\ length' = length
           /\ start' = start /\ Total' = Total
           /\ InRange(Total, offset, length)' = InRange(Total, offset, length)
           /\ UNCHANGED <<cells, op, done>> /\ CellsInv => CellsInv'
  BY DEF request, start, Total, InRange, CellsInv, Row, Written

\* A file outside of the range is skipped.
LEMMA SkipSpanInv ==
    FileSpansInv /\ SkipSpan => FileSpansInv'
  <1> SUFFICES ASSUME FileSpansInv, SkipSpan PROVE FileSpansInv'
    OBVIOUS
  <1> USE DEF FileSpansInv
  <1>1. /\ UNCHANGED <<request, cells, op, done, buffer, outcome, ioFailed>>
        /\ span' = span + 1
    BY DEF SkipSpan
  <1>2. RequestInv'
    BY <1>1, SpanFacts, SameRequest DEF SkipSpan, More, RequestInv
  <1>3. position >= start[span + 1]
    <2>1. position >= start[span] /\ done # length
      BY DEF SkipSpan, More, LoopInv, RequestInv
    <2>2. /\ position \in Int /\ start[span + 1] \in Nat
          /\ ~ (position < start[span + 1])
      <3>1. span + 1 \in 1 .. Len(lengths) + 1
        BY SpanFacts DEF SkipSpan, More, RequestInv
      <3>2. position \in Int
        BY DEF position, RequestInv
      <3>3. QED
        BY <2>1, <3>1, <3>2, SpanFacts DEF SkipSpan, Inside
    <2>3. QED
      BY <2>2
  <1>4. LoopInv'
    BY <1>1, <1>3, SameRequest DEF LoopInv, position, SkipSpan, More
  <1>5. CellsInv' /\ BufferInv' /\ RangeServed'
    BY <1>1, SameRequest DEF BufferInv, RangeServed
  <1>6. QED
    BY <1>2, <1>4, <1>5

\* A whole chunk is transferred.
LEMMA ChunkOKInv ==
    FileSpansInv /\ ChunkOK => FileSpansInv'
  <1> SUFFICES ASSUME FileSpansInv, ChunkOK PROVE FileSpansInv'
    OBVIOUS
  <1> USE DEF FileSpansInv
  <1>1. /\ UNCHANGED <<request, op, outcome, ioFailed>> /\ span' = span + 1
        /\ More /\ Inside /\ Transfer(chunkLength)
    BY DEF ChunkOK
  <1>2. chunkLength \in 0 .. chunkLength
    BY <1>1, ChunkFacts
  <1>3. /\ CellsInv' /\ BufferInv'
        /\ done' = done + chunkLength /\ done' \in 0 .. length
    BY <1>1, <1>2, TransferInStep
  <1>4. RequestInv'
    BY <1>1, <1>3, SpanFacts, SameRequest DEF More, RequestInv
  <1>5. done' = length \/ position' >= start[span + 1]
    <2>1. position' = position + chunkLength
      BY <1>1, <1>2, <1>3, SameRequest, ChunkFacts DEF position, RequestInv
    <2>2. start[span + 1] \in Nat
      BY <1>1, ChunkFacts, SpanFacts
    <2>3. QED
      BY <1>1, <1>3, <2>1, <2>2, ChunkFacts
  <1>6. LoopInv'
    BY <1>1, <1>5, SameRequest DEF LoopInv, More
  <1>7. RangeServed'
    BY <1>1, SameRequest DEF RangeServed
  <1>8. QED
    BY <1>3, <1>4, <1>6, <1>7

\* A chunk fails, perhaps after some bytes.
LEMMA ChunkFailsInv ==
    FileSpansInv /\ ChunkFails => FileSpansInv'
  <1> SUFFICES ASSUME FileSpansInv, ChunkFails PROVE FileSpansInv'
    OBVIOUS
  <1> USE DEF FileSpansInv
  <1>1. /\ UNCHANGED <<request, op, span>> /\ More /\ Inside
        /\ outcome' = "error" /\ ioFailed' = TRUE
    BY DEF ChunkFails
  <1>2. PICK n \in 0 .. chunkLength : Transfer(n)
    BY DEF ChunkFails
  <1>3. CellsInv' /\ BufferInv' /\ done' \in 0 .. length
    BY <1>1, <1>2, TransferInStep
  <1>4. RequestInv'
    BY <1>1, <1>3, SameRequest DEF RequestInv
  <1>5. LoopInv' /\ RangeServed'
    BY <1>1 DEF LoopInv, RangeServed
  <1>6. QED
    BY <1>3, <1>4, <1>5

\* The loop ends.
LEMMA EndLoopInv ==
    FileSpansInv /\ EndLoop => FileSpansInv'
  <1> SUFFICES ASSUME FileSpansInv, EndLoop PROVE FileSpansInv'
    OBVIOUS
  <1> USE DEF FileSpansInv
  <1>1. /\ UNCHANGED <<request, cells, op, span, done, buffer, ioFailed>>
        /\ outcome = "running" /\ ~More
        /\ outcome' = IF done = length THEN "ok" ELSE "error"
    BY DEF EndLoop
  <1>2. done = length
    <2> SUFFICES ASSUME done # length PROVE FALSE
      OBVIOUS
    <2>1. done \in Nat /\ length \in Nat /\ done < length /\ offset \in Int
      BY DEF RequestInv
    <2>2. span = Len(lengths) + 1
      BY <1>1, <2>1, SpanFacts DEF More, RequestInv
    <2>3. offset + done >= Total
      BY <1>1, <2>2, SpanFacts DEF LoopInv, position
    <2>4. length <= Total - offset /\ Total \in Nat
      BY <1>1, SpanFacts DEF LoopInv, InRange
    <2>5. QED
      BY <2>1, <2>3, <2>4
  <1>3. RequestInv'
    BY <1>1, SameRequest DEF RequestInv
  <1>4. LoopInv' /\ RangeServed'
    BY <1>1, <1>2, SameRequest DEF LoopInv, RangeServed
  <1>5. CellsInv' /\ BufferInv'
    BY <1>1, SameRequest DEF BufferInv
  <1>6. QED
    BY <1>3, <1>4, <1>5

\* The read of the same range begins.
LEMMA ReadBackInv ==
    FileSpansInv /\ ReadBack => FileSpansInv'
  <1> SUFFICES ASSUME FileSpansInv, ReadBack PROVE FileSpansInv'
    OBVIOUS
  <1> USE DEF FileSpansInv
  <1>1. /\ UNCHANGED <<request, cells, buffer, ioFailed>>
        /\ op = "write" /\ outcome = "ok"
        /\ op' = "read" /\ span' = 1 /\ done' = 0 /\ outcome' = "running"
    BY DEF ReadBack
  <1>2. RequestInv'
    BY <1>1, SpanFacts, SameRequest DEF RequestInv
  <1>3. LoopInv'
    <2>1. InRange(Total, offset, length) /\ ~ioFailed
      BY <1>1 DEF LoopInv
    <2>2. position' = offset + 0 /\ offset >= 0 /\ offset \in Int
      BY <1>1, <2>1, SameRequest DEF position, InRange, RequestInv
    <2>3. QED
      BY <1>1, <2>1, <2>2, SpanFacts, SameRequest DEF LoopInv
  <1>4. CellsInv'
    <2>1. Written = length /\ Written' = length
      BY <1>1, SameRequest DEF Written, LoopInv
    <2>2. QED
      BY <1>1, <2>1, SameRequest DEF CellsInv, Row
  <1>5. BufferInv'
    <2>1. [i \in 1 .. 0 |-> offset + i - 1] = <<>>
      OBVIOUS
    <2>2. QED
      BY <1>1, <2>1, SameRequest DEF BufferInv
  <1>6. RangeServed'
    BY <1>1 DEF RangeServed
  <1>7. QED
    BY <1>2, <1>3, <1>4, <1>5, <1>6

\* Every step of a write or of a read keeps the invariant.
THEOREM FileSpansInvariance ==
    SpansSpec => []FileSpansInv
  <1>1. FileSpansInv /\ [SpansNext]_spansVars => FileSpansInv'
    <2>1. FileSpansInv /\ UNCHANGED spansVars => FileSpansInv'
      BY SameRequest DEF spansVars, request, FileSpansInv, RequestInv, LoopInv, position,
                         BufferInv, RangeServed
    <2>2. QED
      BY <2>1, SkipSpanInv, ChunkOKInv, ChunkFailsInv, EndLoopInv, ReadBackInv
      DEF SpansNext
  <1>2. QED
    BY <1>1, InitInv, PTL DEF SpansSpec

-----------------------------------------------------------------------------
(* The theorems.                                                           *)

\* For any torrent, at every moment of a write exactly the bytes written so far
\* are in the files, each in the cell that counting the bytes before it gives.
THEOREM EveryByteInPlace ==
    SpansSpec => []BytesInPlace
  <1>1. FileSpansInv => BytesInPlace
    <2> SUFFICES ASSUME FileSpansInv,
                        NEW f \in DOMAIN lengths, NEW k \in 0 .. lengths[f] - 1
                 PROVE  cells[f][k] =
                            IF TorrentPosition(f, k) \in offset .. offset + Written - 1
                            THEN TorrentPosition(f, k) ELSE Unwritten
      BY Zenon DEF BytesInPlace, Written
    <2>1. lengths \in Layouts /\ CellsInv
      BY DEF FileSpansInv, RequestInv
    <2>2. cells[f][k] = IF start[f] + k \in offset .. offset + Written - 1
                        THEN start[f] + k ELSE Unwritten
      BY <2>1 DEF CellsInv, Row
    <2>3. TorrentPosition(f, k) = k + start[f]
      BY <2>1, PositionInFile
    <2>4. k + start[f] = start[f] + k
      <3>1. start[f] \in Nat /\ lengths[f] \in Nat
        BY SpanFacts DEF FileSpansInv
      <3>2. QED
        BY <3>1
    <2>5. QED
      BY <2>2, <2>3, <2>4
  <1>2. QED
    BY <1>1, FileSpansInvariance, PTL

\* For any torrent and any range, a read that succeeds after a write that
\* succeeded gives back every byte that was written.
THEOREM ReadsBackWhatWasWritten ==
    SpansSpec => []RoundTrip
  <1>1. FileSpansInv => RoundTrip
    BY DEF FileSpansInv, LoopInv, BufferInv, RoundTrip
  <1>2. QED
    BY <1>1, FileSpansInvariance, PTL

\* No layout of the files, empty ones included, leaves a gap in which a range
\* inside the torrent is refused.
THEOREM EveryRangeServed ==
    SpansSpec => []RangeServed
  <1>1. FileSpansInv => RangeServed
    BY DEF FileSpansInv
  <1>2. QED
    BY <1>1, FileSpansInvariance, PTL

-----------------------------------------------------------------------------
(* The life of a download on disk, one instance at a time.                 *)

SingleProcess == \A i, j \in Processes : i = j

\* What a process relies on at each step towards the rename.
ProcessInv ==
    \A i \in Processes :
        /\ pc[i] \in {"restore", "download", "lstat", "sync", "rename"}
               => part # None
        /\ pc[i] \in {"download", "lstat", "sync", "rename"}
               => known[i] \subseteq content[part]
        /\ pc[i] \in {"lstat", "sync", "rename"} => known[i] = Pieces
        /\ pc[i] \in {"sync", "rename"} => completed = None
        /\ pc[i] = "rename" => durable[part] = Pieces

StorageInv == TypeOK /\ CompletedIsWhole /\ ProcessInv

\* The program starts with an empty directory, or with an older download.
LEMMA InitStorageInv == Init => StorageInv
  <1> SUFFICES ASSUME Init PROVE StorageInv
    OBVIOUS
  <1> USE StorageAssumption DEF Init, Files, None, Other
  <1>1. TypeOK
    BY DEF TypeOK, PC
  <1>2. CompletedIsWhole
    BY DEF CompletedIsWhole
  <1>3. ProcessInv
    BY DEF ProcessInv
  <1>4. QED
    BY <1>1, <1>2, <1>3 DEF StorageInv

\* A process that ends leaves the files alone and promises nothing.
LEMMA FailStep ==
    ASSUME StorageInv, NEW i \in Processes, Fail(i),
           UNCHANGED <<part, completed, fileVars>>
    PROVE  StorageInv'
  <1> USE DEF StorageInv, Fail, fileVars
  <1>1. TypeOK'
    BY DEF TypeOK, PC
  <1>2. CompletedIsWhole'
    BY DEF CompletedIsWhole
  <1>3. ProcessInv'
    BY DEF ProcessInv, TypeOK
  <1>4. QED
    BY <1>1, <1>2, <1>3

\* A power loss keeps what was synced, and a completed file was.
LEMMA PowerLossStep == StorageInv /\ PowerLoss => StorageInv'
  <1> SUFFICES ASSUME StorageInv, PowerLoss PROVE StorageInv'
    OBVIOUS
  <1> USE DEF StorageInv, PowerLoss
  <1>1. TypeOK'
    BY DEF TypeOK, PC
  <1>2. CompletedIsWhole'
    BY DEF CompletedIsWhole, TypeOK
  <1>3. ProcessInv'
    BY DEF ProcessInv
  <1>4. QED
    BY <1>1, <1>2, <1>3

\* Every step of the only process keeps the invariant.
LEMMA ProcessStep ==
    ASSUME SingleProcess, StorageInv, NEW i \in Processes,
           \/ NewStorageAt(i)
           \/ RestoreExisting(i)
           \/ \E p \in Pieces : WritePiece(i, p)
           \/ CompleteLstat(i)
           \/ CompleteSync(i)
           \/ CompleteRename(i)
    PROVE  StorageInv'
  <1> USE StorageAssumption DEF Files, None, Other, Goto
  <1>0. /\ \A j \in Processes : j = i
        /\ TypeOK /\ CompletedIsWhole /\ ProcessInv
    BY DEF SingleProcess, StorageInv
  <1>1. CASE NewStorageAt(i)
    <2> USE <1>0, <1>1 DEF NewStorageAt, openSizedFile, fileVars
    <2>1. TypeOK'
      BY DEF TypeOK, PC
    <2>2. CompletedIsWhole'
      BY DEF CompletedIsWhole
    <2>3. ProcessInv'
      BY DEF ProcessInv, TypeOK
    <2>4. QED
      BY <2>1, <2>2, <2>3 DEF StorageInv
  <1>2. CASE RestoreExisting(i)
    <2> USE <1>0, <1>2 DEF RestoreExisting, Restored, Fail, fileVars
    <2>1. TypeOK'
      BY DEF TypeOK, PC, ProcessInv
    <2>2. CompletedIsWhole'
      BY DEF CompletedIsWhole
    <2>3. ProcessInv'
      BY DEF ProcessInv, TypeOK
    <2>4. QED
      BY <2>1, <2>2, <2>3 DEF StorageInv
  <1>3. ASSUME NEW p \in Pieces, WritePiece(i, p)
        PROVE  StorageInv'
    <2> USE <1>0, <1>3 DEF WritePiece
    <2>1. TypeOK'
      BY DEF TypeOK, PC
    <2>2. CompletedIsWhole'
      BY DEF CompletedIsWhole
    <2>3. ProcessInv'
      BY DEF ProcessInv, TypeOK
    <2>4. QED
      BY <2>1, <2>2, <2>3 DEF StorageInv
  <1>4. CASE CompleteLstat(i)
    <2> USE <1>0, <1>4 DEF CompleteLstat, DestinationFree, Fail, fileVars
    <2>1. TypeOK'
      BY DEF TypeOK, PC
    <2>2. CompletedIsWhole'
      BY DEF CompletedIsWhole
    <2>3. ProcessInv'
      BY DEF ProcessInv, TypeOK
    <2>4. QED
      BY <2>1, <2>2, <2>3 DEF StorageInv
  <1>5. CASE CompleteSync(i)
    <2>1. CASE Fail(i) /\ UNCHANGED durable
      BY <1>5, <2>1, FailStep DEF CompleteSync, fileVars
    <2>2. CASE part # None /\ Sync /\ Goto(i, "rename") /\ UNCHANGED known
      <3> USE <1>0, <1>5, <2>2 DEF CompleteSync, Sync
      <3>0. /\ part \in Files /\ completed = None
            /\ known[i] = Pieces
            /\ known[i] \subseteq content[part]
            /\ content[part] \subseteq Pieces
        BY DEF ProcessInv, TypeOK
      <3>1. part \in Files /\ content[part] = Pieces /\ completed = None
        BY <3>0
      <3>2. TypeOK'
        BY <3>1 DEF TypeOK, PC
      <3>3. CompletedIsWhole'
        BY <3>1 DEF CompletedIsWhole
      <3>4. ProcessInv'
        BY <3>1 DEF ProcessInv, TypeOK
      <3>5. QED
        BY <3>2, <3>3, <3>4 DEF StorageInv
    <2>3. QED
      BY <1>5, <2>1, <2>2 DEF CompleteSync
  <1>6. CASE CompleteRename(i)
    <2> USE <1>0, <1>6 DEF CompleteRename, Fail, fileVars
    <2>1. TypeOK'
      BY DEF TypeOK, PC
    <2>2. CompletedIsWhole'
      BY DEF CompletedIsWhole, ProcessInv
    <2>3. ProcessInv'
      BY DEF ProcessInv, TypeOK
    <2>4. QED
      BY <2>1, <2>2, <2>3 DEF StorageInv
  <1>7. QED
    BY <1>1, <1>2, <1>3, <1>4, <1>5, <1>6

\* The invariant of the only process holds in every reachable state.
THEOREM StorageInvariance == SingleProcess /\ Spec => []StorageInv
  <1>1. ASSUME SingleProcess, StorageInv, [Next]_vars
        PROVE  StorageInv'
    <2>1. CASE UNCHANGED vars
      BY <1>1, <2>1 DEF vars, StorageInv, TypeOK, CompletedIsWhole, ProcessInv
    <2>2. CASE PowerLoss
      BY <1>1, <2>2, PowerLossStep
    <2>3. ASSUME NEW i \in Processes, GiveUp(i) \/ Leave(i) \/ Kill(i)
          PROVE  StorageInv'
      BY <1>1, <2>3, FailStep DEF GiveUp, Leave, Kill
    <2>4. QED
      BY <1>1, <2>1, <2>2, <2>3, ProcessStep DEF Next
  <1>2. SUFFICES ASSUME SingleProcess PROVE Spec => []StorageInv
    OBVIOUS
  <1>3. QED
    BY <1>1, <1>2, InitStorageInv, PTL DEF Spec

\* No crash, power loss or restart of a single instance leaves a completed
\* file that is not whole: Complete syncs before it renames.
THEOREM CompletedWhole == SingleProcess /\ Spec => []CompletedIsWhole
  <1>1. StorageInv => CompletedIsWhole
    BY DEF StorageInv
  <1>2. QED
    BY <1>1, StorageInvariance, PTL

\* A single instance never replaces a completed file.
THEOREM CompletedKept == SingleProcess /\ Spec => NeverOverwritten
  <1>1. StorageInv /\ [Next]_vars
            => [completed # None => completed' = completed]_vars
    <2> SUFFICES ASSUME StorageInv, Next, completed # None
                 PROVE  completed' = completed
      BY DEF vars
    <2>1. CASE \E i \in Processes : CompleteRename(i)
      BY <2>1 DEF CompleteRename, StorageInv, ProcessInv
    <2>2. CASE ~ \E i \in Processes : CompleteRename(i)
      BY <2>2 DEF Next, PowerLoss, NewStorageAt, RestoreExisting, WritePiece,
                  GiveUp, CompleteLstat, CompleteSync, Leave, Kill
    <2>3. QED
      BY <2>1, <2>2
  <1>2. QED
    BY <1>1, StorageInvariance, PTL DEF Spec, NeverOverwritten

\* What the piece manager of a single instance has as complete is in the file,
\* after any number of crashes: RestoreExisting hashes what it finds.
THEOREM KnownStored == SingleProcess /\ Spec => []KnownIsStored
  <1>1. StorageInv => KnownIsStored
    BY DEF StorageInv, ProcessInv, KnownIsStored
  <1>2. QED
    BY <1>1, StorageInvariance, PTL

-----------------------------------------------------------------------------
(* Any number of instances at a time.                                      *)

\* However many instances share the directory, its entries and the files keep
\* their types.
THEOREM TypeCorrect == Spec => []TypeOK
  <1>1. Init => TypeOK
    BY InitStorageInv DEF StorageInv
  <1>2. TypeOK /\ [Next]_vars => TypeOK'
    <2> SUFFICES ASSUME TypeOK, [Next]_vars PROVE TypeOK'
      OBVIOUS
    <2> USE StorageAssumption DEF TypeOK, PC, Files, None, Other, Goto
    <2>1. CASE UNCHANGED vars
      BY <2>1 DEF vars
    <2>2. CASE PowerLoss
      BY <2>2 DEF PowerLoss
    <2>3. ASSUME NEW i \in Processes, NewStorageAt(i) PROVE TypeOK'
      BY <2>3 DEF NewStorageAt, openSizedFile, fileVars
    <2>4. ASSUME NEW i \in Processes, RestoreExisting(i) PROVE TypeOK'
      BY <2>4 DEF RestoreExisting, Restored, Fail, fileVars
    <2>5. ASSUME NEW i \in Processes, NEW p \in Pieces, WritePiece(i, p)
          PROVE  TypeOK'
      BY <2>5 DEF WritePiece
    <2>6. ASSUME NEW i \in Processes, GiveUp(i) \/ Leave(i) \/ Kill(i)
          PROVE  TypeOK'
      BY <2>6 DEF GiveUp, Leave, Kill, Fail, fileVars
    <2>7. ASSUME NEW i \in Processes, CompleteLstat(i) PROVE TypeOK'
      BY <2>7 DEF CompleteLstat, Fail, fileVars
    <2>8. ASSUME NEW i \in Processes, CompleteSync(i) PROVE TypeOK'
      BY <2>8 DEF CompleteSync, Sync, Fail
    <2>9. ASSUME NEW i \in Processes, CompleteRename(i) PROVE TypeOK'
      BY <2>9 DEF CompleteRename, Fail, fileVars
    <2>10. QED
      BY <2>1, <2>2, <2>3, <2>4, <2>5, <2>6, <2>7, <2>8, <2>9 DEF Next
  <1>3. QED
    BY <1>1, <1>2, PTL DEF Spec

\* Only a power loss takes a piece from the partial file, even if several
\* instances restore, write, complete and crash over it: openSizedFile and
\* WriteAt never empty it, and the rename moves it as it is.
THEOREM PartialsAreKept == Spec => PartialKept
  <1>1. TypeOK /\ [Next]_vars
            => [part # None /\ ~PowerLoss =>
                   \/ part' = part /\ content[part] \subseteq content'[part]
                   \/ completed' = part
                      /\ content[part] \subseteq content'[part]]_vars
    <2> SUFFICES ASSUME TypeOK, Next, part # None, ~PowerLoss
                 PROVE  \/ part' = part /\ content[part] \subseteq content'[part]
                        \/ completed' = part
                           /\ content[part] \subseteq content'[part]
      BY DEF vars
    <2>1. ASSUME NEW i \in Processes, NEW p \in Pieces, WritePiece(i, p)
          PROVE  part' = part /\ content[part] \subseteq content'[part]
      BY <2>1 DEF WritePiece, TypeOK
    <2>2. ASSUME NEW i \in Processes, CompleteRename(i), completed' = part
          PROVE  content[part] \subseteq content'[part]
      BY <2>2 DEF CompleteRename, fileVars
    <2>3. QED
      BY <2>1, <2>2
      DEF Next, NewStorageAt, openSizedFile, RestoreExisting, GiveUp,
          CompleteLstat, CompleteSync, CompleteRename, Leave, Kill, fileVars
  <1>2. QED
    BY <1>1, TypeCorrect, PTL DEF Spec, PartialKept

=============================================================================
