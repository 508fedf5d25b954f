---------------------------- MODULE WireProofs ------------------------------
(***************************************************************************)
(* Proofs about Wire, for bytes and words of any width, any handshakes and *)
(* any messages: what is read is what was written, however the stream is   *)
(* cut, nothing is heard from a peer that is there for another torrent,    *)
(* and an honest peer is not turned away.                                  *)
(***************************************************************************)
EXTENDS Wire, SequenceTheorems, WellFoundedInduction, TLAPS

-----------------------------------------------------------------------------
(* Induction and recursion.                                                *)

\* Induction up to a number, with a set in the place of a predicate, from the
\* least number that is not in it.
LEMMA Induction ==
    ASSUME NEW S, NEW top \in Nat, 0 \in S,
           \A n \in 0 .. top - 1 : n \in S => n + 1 \in S
    PROVE  \A n \in 0 .. top : n \in S
  <1> DEFINE T == (0 .. top) \ S
             R == OpToRel(<, Nat)
  <1> SUFFICES ASSUME T # {} PROVE FALSE
    OBVIOUS
  <1>1. IsWellFoundedOn(R, Nat)
    BY NatLessThanWellFounded
  <1>2. R = {pair \in Nat \X Nat : pair[1] < pair[2]}
    BY DEF OpToRel
  <1>3. T \subseteq Nat
    OBVIOUS
  <1> HIDE DEF R, T
  <1>4. PICK least \in T : \A n \in T : ~ (<<n, least>> \in R)
    BY <1>1, <1>3, WFMin
  <1>5. \A n \in T : ~ (n < least)
    BY <1>2, <1>3, <1>4
  <1>6. least \in 0 .. top /\ least \notin S
    BY <1>4 DEF T
  <1>7. least # 0
    BY <1>6
  <1>8. least - 1 \in 0 .. top - 1 /\ least - 1 < least
    BY <1>6, <1>7
  <1>9. least - 1 \in S
    BY <1>5, <1>8 DEF T
  <1>10. (least - 1) + 1 \in S /\ (least - 1) + 1 = least
    BY <1>6, <1>8, <1>9
  <1>11. QED
    BY <1>6, <1>10

\* f takes these steps up to top.
Follows(f, step, top) == \A n \in 0 .. top - 1 : f[n + 1] = step[n + 1][f[n]]

\* Two functions that take the same steps from the same start are equal.
LEMMA RecursionUnique ==
    ASSUME NEW f, NEW g, NEW step, NEW top \in Nat,
           f[0] = g[0], Follows(f, step, top), Follows(g, step, top)
    PROVE  \A n \in 0 .. top : f[n] = g[n]
  <1> DEFINE S == {n \in 0 .. top : f[n] = g[n]}
  <1>1. 0 \in S
    OBVIOUS
  <1>2. ASSUME NEW n \in 0 .. top - 1, n \in S PROVE n + 1 \in S
    <2>1. f[n + 1] = step[n + 1][f[n]] /\ g[n + 1] = step[n + 1][g[n]]
      BY DEF Follows
    <2>2. n + 1 \in 0 .. top
      OBVIOUS
    <2>3. QED
      BY <1>2, <2>1, <2>2
  <1>3. \A n \in 0 .. top : n \in S
    <2> HIDE DEF S
    <2>1. QED
      BY <1>1, <1>2, Induction
  <1>4. QED
    BY <1>3

\* There is a function that takes given steps up to a given number.
LEMMA BoundedRecursion ==
    ASSUME NEW V, NEW base \in V, NEW step \in [Nat -> [V -> V]], NEW top \in Nat
    PROVE  \E f \in [0 .. top -> V] : f[0] = base /\ Follows(f, step, top)
  <1> DEFINE Solves(f, n) == f[0] = base /\ Follows(f, step, n)
             S == {n \in 0 .. top : \E f \in [0 .. n -> V] : Solves(f, n)}
  <1>1. 0 \in S
    <2> DEFINE f == [n \in 0 .. 0 |-> base]
    <2>1. f \in [0 .. 0 -> V] /\ f[0] = base
      OBVIOUS
    <2> HIDE DEF f
    <2>2. Follows(f, step, 0)
      BY DEF Follows
    <2>3. QED
      BY <2>1, <2>2
  <1>2. ASSUME NEW n \in 0 .. top - 1, n \in S PROVE n + 1 \in S
    <2>1. PICK f \in [0 .. n -> V] : Solves(f, n)
      BY <1>2
    <2>2. n \in Nat /\ f[n] \in V
      BY <2>1
    <2>3. step[n + 1][f[n]] \in V
      BY <2>2
    <2> DEFINE g == [k \in 0 .. n + 1 |-> IF k = n + 1 THEN step[n + 1][f[n]] ELSE f[k]]
    <2>4. g \in [0 .. n + 1 -> V]
      BY <2>1, <2>2, <2>3
    <2>5. g[n + 1] = step[n + 1][f[n]] /\ \A k \in 0 .. n : g[k] = f[k]
      BY <2>2
    <2> HIDE DEF g
    <2>6. ASSUME NEW k \in 0 .. (n + 1) - 1 PROVE g[k + 1] = step[k + 1][g[k]]
      <3>1. CASE k = n
        BY <2>2, <2>5, <3>1
      <3>2. CASE k # n
        <4>1. k \in 0 .. n - 1 /\ k \in 0 .. n /\ k + 1 \in 0 .. n
          BY <2>2, <3>2
        <4>2. f[k + 1] = step[k + 1][f[k]]
          BY <2>1, <4>1 DEF Follows
        <4>3. QED
          BY <2>5, <4>1, <4>2
      <3>3. QED
        BY <3>1, <3>2
    <2>7. g[0] = base
      BY <2>1, <2>2, <2>5
    <2>8. Solves(g, n + 1)
      BY <2>6, <2>7 DEF Follows
    <2>9. n + 1 \in 0 .. top
      OBVIOUS
    <2> HIDE DEF Solves
    <2>10. QED
      BY <2>4, <2>8, <2>9
  <1>3. \A n \in 0 .. top : n \in S
    <2> HIDE DEF S
    <2>1. QED
      BY <1>1, <1>2, Induction
  <1>4. top \in S
    BY <1>3
  <1>5. QED
    BY <1>4

Recurs(f, base, step) ==
    f[0] = base /\ \A n \in Nat : f[n + 1] = step[n + 1][f[n]]

\* A recursion with a step that is a function has a solution.
LEMMA RecursionExists ==
    ASSUME NEW V, NEW base \in V, NEW step \in [Nat -> [V -> V]]
    PROVE  \E f \in [Nat -> V] : Recurs(f, base, step)
  <1> DEFINE Solves(f, n) == /\ f \in [0 .. n -> V] /\ f[0] = base
                             /\ Follows(f, step, n)
             upTo == [n \in Nat |-> CHOOSE f : Solves(f, n)]
             f == [n \in Nat |-> upTo[n][n]]
  <1>1. ASSUME NEW n \in Nat PROVE Solves(upTo[n], n)
    <2>1. \E g : Solves(g, n)
      BY BoundedRecursion
    <2>2. upTo[n] = CHOOSE g : Solves(g, n)
      BY Zenon
    <2> HIDE DEF Solves, upTo
    <2>3. QED
      BY <2>1, <2>2, Zenon
  <1> HIDE DEF upTo
  <1>2. ASSUME NEW n \in Nat PROVE f[n] \in V
    BY <1>1
  <1>3. f[0] = base
    BY <1>1
  <1>4. ASSUME NEW n \in Nat PROVE f[n + 1] = step[n + 1][f[n]]
    <2> DEFINE a == upTo[n]
               b == upTo[n + 1]
    <2>1. Solves(a, n) /\ Solves(b, n + 1)
      BY <1>1
    <2>2. f[n] = a[n] /\ f[n + 1] = b[n + 1]
      OBVIOUS
    <2> HIDE DEF a, b, f
    <2>3. Follows(b, step, n)
      BY <2>1 DEF Follows
    <2>4. \A k \in 0 .. n : a[k] = b[k]
      <3>1. a[0] = b[0] /\ Follows(a, step, n)
        BY <2>1
      <3>2. QED
        BY <2>3, <3>1, RecursionUnique
    <2>5. b[n + 1] = step[n + 1][b[n]]
      BY <2>1 DEF Follows
    <2>6. QED
      BY <2>2, <2>4, <2>5
  <1>5. QED
    <2>1. f \in [Nat -> V]
      BY <1>2
    <2> HIDE DEF f
    <2>2. QED
      BY <1>3, <1>4, <2>1 DEF Recurs

-----------------------------------------------------------------------------
(* Numbers and their digits.                                               *)

\* Power multiplies by the base at each step.
LEMMA PowerSteps ==
    ASSUME NEW base \in Nat
    PROVE  /\ Power(base, 0) = 1
           /\ \A n \in Nat : /\ Power(base, n) \in Nat
                             /\ Power(base, n + 1) = base * Power(base, n)
  <1> DEFINE Rule(f) == f = [k \in Nat |-> IF k = 0 THEN 1 ELSE base * f[k - 1]]
             step == [n \in Nat |-> [x \in Nat |-> base * x]]
             power == CHOOSE f : Rule(f)
  <1>1. PICK f \in [Nat -> Nat] :
            f[0] = 1 /\ \A n \in Nat : f[n + 1] = step[n + 1][f[n]]
    <2>1. step \in [Nat -> [Nat -> Nat]] /\ 1 \in Nat
      OBVIOUS
    <2> HIDE DEF step
    <2>2. \E f \in [Nat -> Nat] : Recurs(f, 1, step)
      BY <2>1, RecursionExists
    <2>4. QED
      BY <2>2 DEF Recurs
  <1>2. ASSUME NEW n \in Nat PROVE f[n + 1] = base * f[n]
    <2>1. f[n] \in Nat /\ n + 1 \in Nat
      BY <1>1
    <2>2. step[n + 1][f[n]] = base * f[n]
      BY <2>1
    <2>3. QED
      BY <1>1, <2>2, Zenon
  <1>3. Rule(f)
    <2>1. ASSUME NEW k \in Nat
          PROVE  f[k] = IF k = 0 THEN 1 ELSE base * f[k - 1]
      <3>1. CASE k = 0
        BY <1>1, <3>1
      <3>2. CASE k # 0
        <4>1. k - 1 \in Nat /\ (k - 1) + 1 = k
          BY <3>2
        <4>2. f[(k - 1) + 1] = base * f[k - 1]
          BY <1>2, <4>1
        <4>3. QED
          BY <3>2, <4>1, <4>2
      <3>3. QED
        BY <3>1, <3>2
    <2>2. QED
      BY <1>1, <2>1
  <1>4. Rule(power)
    BY <1>3, Zenon
  <1>5. \A n : Power(base, n) = power[n]
    BY Zenon DEF Power
  <1> HIDE DEF power
  <1>6. power[0] = 1
    BY <1>4
  <1>7. \A n \in Nat : power[n + 1] = base * power[n]
    BY <1>4
  <1>8. ASSUME NEW n \in Nat PROVE power[n] \in Nat
    <2> DEFINE S == {k \in 0 .. n : power[k] \in Nat}
    <2>1. 0 \in S
      BY <1>6
    <2>2. ASSUME NEW k \in 0 .. n - 1, k \in S PROVE k + 1 \in S
      <3>1. k \in Nat /\ power[k] \in Nat /\ k + 1 \in 0 .. n
        BY <2>2
      <3>2. power[k + 1] = base * power[k]
        BY <1>7, <3>1
      <3>3. QED
        BY <3>1, <3>2
    <2>3. \A k \in 0 .. n : k \in S
      <3> HIDE DEF S
      <3>1. QED
        BY <2>1, <2>2, Induction
    <2>4. QED
      BY <2>3
  <1>9. QED
    BY <1>5, <1>6, <1>7, <1>8

\* Shifting to the right divides by the base at each step.
LEMMA ShiftSteps ==
    ASSUME NEW value \in Nat, NEW base \in Nat \ {0}
    PROVE  /\ Shift(value, base, 0) = value
           /\ \A n \in Nat :
                  /\ Shift(value, base, n) \in Nat
                  /\ Shift(value, base, n + 1) = Shift(value, base, n) \div base
  <1> DEFINE Rule(f) == f = [k \in Nat |-> IF k = 0 THEN value ELSE f[k - 1] \div base]
             step == [n \in Nat |-> [x \in Nat |-> x \div base]]
             shifted == CHOOSE f : Rule(f)
  <1>1. PICK f \in [Nat -> Nat] :
            f[0] = value /\ \A n \in Nat : f[n + 1] = step[n + 1][f[n]]
    <2>1. \A x \in Nat : x \div base \in Nat
      OBVIOUS
    <2>2. step \in [Nat -> [Nat -> Nat]]
      BY <2>1
    <2> HIDE DEF step
    <2>3. \E f \in [Nat -> Nat] : Recurs(f, value, step)
      BY <2>2, RecursionExists
    <2>4. QED
      BY <2>3 DEF Recurs
  <1>2. ASSUME NEW n \in Nat PROVE f[n + 1] = f[n] \div base
    <2>1. f[n] \in Nat /\ n + 1 \in Nat
      BY <1>1
    <2>2. step[n + 1][f[n]] = f[n] \div base
      BY <2>1
    <2>3. QED
      BY <1>1, <2>2, Zenon
  <1>3. Rule(f)
    <2>1. ASSUME NEW k \in Nat
          PROVE  f[k] = IF k = 0 THEN value ELSE f[k - 1] \div base
      <3>1. CASE k = 0
        BY <1>1, <3>1
      <3>2. CASE k # 0
        <4>1. k - 1 \in Nat /\ (k - 1) + 1 = k
          BY <3>2
        <4>2. f[(k - 1) + 1] = f[k - 1] \div base
          BY <1>2, <4>1
        <4>3. QED
          BY <3>2, <4>1, <4>2
      <3>3. QED
        BY <3>1, <3>2
    <2>2. QED
      BY <1>1, <2>1
  <1>4. Rule(shifted)
    BY <1>3, Zenon
  <1>5. \A n : Shift(value, base, n) = shifted[n]
    BY Zenon DEF Shift
  <1> HIDE DEF shifted
  <1>6. shifted[0] = value
    BY <1>4
  <1>7. \A n \in Nat : shifted[n + 1] = shifted[n] \div base
    BY <1>4
  <1>8. ASSUME NEW n \in Nat PROVE shifted[n] \in Nat
    <2> DEFINE S == {k \in 0 .. n : shifted[k] \in Nat}
    <2>1. 0 \in S
      BY <1>6
    <2>2. ASSUME NEW k \in 0 .. n - 1, k \in S PROVE k + 1 \in S
      <3>1. k \in Nat /\ shifted[k] \in Nat /\ k + 1 \in 0 .. n
        BY <2>2
      <3>2. shifted[k + 1] = shifted[k] \div base
        BY <1>7, <3>1
      <3>3. QED
        BY <3>1, <3>2
    <2>3. \A k \in 0 .. n : k \in S
      <3> HIDE DEF S
      <3>1. QED
        BY <2>1, <2>2, Induction
    <2>4. QED
      BY <2>3
  <1>9. QED
    BY <1>5, <1>6, <1>7, <1>8

\* The numbers that the digits make one after the other.
Sums(f, digits, base, n) ==
    /\ f[0] = 0
    /\ \A k \in 1 .. n : f[k] = base * f[k - 1] + digits[k]
    /\ Number(digits, base) = f[n]

\* Number reads the digits one by one.
LEMMA NumberSteps ==
    ASSUME NEW base \in Nat, NEW n \in Nat, NEW digits \in [1 .. n -> Nat]
    PROVE  \E f \in [0 .. n -> Nat] : Sums(f, digits, base, n)
  <1> DEFINE Rule(f) == f = [k \in 0 .. n |->
                               IF k = 0 THEN 0 ELSE base * f[k - 1] + digits[k]]
             digit(k) == IF k \in 1 .. n THEN digits[k] ELSE 0
             step == [k \in Nat |-> [x \in Nat |-> base * x + digit(k)]]
             number == CHOOSE f : Rule(f)
  <1>1. \A k \in Nat : digit(k) \in Nat
    OBVIOUS
  <1>2. step \in [Nat -> [Nat -> Nat]]
    <2> HIDE DEF digit
    <2>1. ASSUME NEW k \in Nat, NEW x \in Nat PROVE base * x + digit(k) \in Nat
      <3>1. digit(k) \in Nat
        BY <1>1
      <3>2. QED
        BY <3>1
    <2>2. QED
      BY <2>1, Zenon
  <1>3. PICK f \in [0 .. n -> Nat] : f[0] = 0 /\ Follows(f, step, n)
    <2> HIDE DEF step
    <2>1. QED
      BY <1>2, BoundedRecursion
  <1>4. Rule(f)
    <2>1. ASSUME NEW k \in 0 .. n
          PROVE  f[k] = IF k = 0 THEN 0 ELSE base * f[k - 1] + digits[k]
      <3>1. CASE k = 0
        BY <1>3, <3>1
      <3>2. CASE k # 0
        <4>1. /\ k - 1 \in 0 .. n - 1 /\ (k - 1) + 1 = k /\ k \in 1 .. n /\ k \in Nat
              /\ k - 1 \in 0 .. n
          BY <3>2
        <4>0. f[k - 1] \in Nat
          BY <1>3, <4>1
        <4>2. f[k] = step[k][f[k - 1]]
          BY <1>3, <4>1 DEF Follows
        <4>3. step[k][f[k - 1]] = base * f[k - 1] + digits[k]
          BY <4>0, <4>1
        <4>4. QED
          BY <3>2, <4>2, <4>3, Zenon
      <3>3. QED
        BY <3>1, <3>2
    <2>2. QED
      BY <1>3, <2>1
  <1>5. Rule(number)
    BY <1>4, Zenon
  <1>6. Number(digits, base) = number[n]
    <2>1. Len(digits) = n
      OBVIOUS
    <2>2. QED
      BY <2>1, Zenon DEF Number
  <1> HIDE DEF number
  <1>7. number[0] = 0
    BY <1>5
  <1>8. ASSUME NEW k \in 1 .. n PROVE number[k] = base * number[k - 1] + digits[k]
    BY <1>5
  <1>9. \A k \in 0 .. n : number[k] \in Nat
    <2> DEFINE S == {k \in 0 .. n : number[k] \in Nat}
    <2>1. 0 \in S
      BY <1>7
    <2>2. ASSUME NEW k \in 0 .. n - 1, k \in S PROVE k + 1 \in S
      <3>1. number[k] \in Nat /\ k + 1 \in 1 .. n /\ k + 1 \in 0 .. n /\ (k + 1) - 1 = k
        BY <2>2
      <3>2. number[k + 1] = base * number[k] + digits[k + 1] /\ digits[k + 1] \in Nat
        BY <1>8, <3>1
      <3>3. \A x, d \in Nat : base * x + d \in Nat
        OBVIOUS
      <3>4. number[k + 1] \in Nat
        BY <3>1, <3>2, <3>3, Zenon
      <3>5. QED
        BY <3>1, <3>4
    <2>3. \A k \in 0 .. n : k \in S
      <3> HIDE DEF S
      <3>1. QED
        BY <2>1, <2>2, Induction
    <2>4. QED
      BY <2>3
  <1>10. number \in [0 .. n -> Nat]
    BY <1>5, <1>9
  <1>11. QED
    BY <1>6, <1>7, <1>8, <1>10, Zenon DEF Sums

\* Division undoes multiplication, and the remainder what was added.
LEMMA Division ==
    ASSUME NEW base \in Nat \ {0}, NEW q \in Nat, NEW d \in 0 .. base - 1
    PROVE  (base * q + d) \div base = q /\ (base * q + d) % base = d
  <1>1. PICK x \in Nat : x = base * q + d
    OBVIOUS
  <1>2. PICK p \in Int, e \in 0 .. base - 1 : /\ p = x \div base /\ e = x % base
                                              /\ x = base * p + e
    OBVIOUS
  <1>3. base * (p - q) = d - e
    BY <1>1, <1>2
  <1>4. ~(p - q >= 1)
    <2>1. p - q >= 1 => base * (p - q) >= base
      OBVIOUS
    <2>2. QED
      BY <1>3, <2>1
  <1>5. ~(p - q <= -1)
    <2>1. p - q <= -1 => base * (p - q) <= -base
      OBVIOUS
    <2>2. QED
      BY <1>3, <2>1
  <1>6. p = q
    BY <1>4, <1>5
  <1>7. QED
    BY <1>1, <1>2, <1>3, <1>6

Splits(x, base) ==
    \E q \in Nat, r \in 0 .. base - 1 :
        x \div base = q /\ x % base = r /\ x = base * q + r

\* Division leaves a remainder below the base.
LEMMA Remainder ==
    ASSUME NEW base \in Nat \ {0}, NEW x \in Nat
    PROVE  Splits(x, base)
  <1>1. PICK q \in Int, r \in 0 .. base - 1 : /\ q = x \div base /\ r = x % base
                                              /\ x = base * q + r
    OBVIOUS
  <1>2. ~(q <= -1)
    <2>1. q <= -1 => base * q <= -base
      OBVIOUS
    <2>2. QED
      BY <1>1, <2>1
  <1>3. q \in Nat
    BY <1>2
  <1>4. QED
    BY <1>1, <1>3 DEF Splits

\* Digits that are made into a number are that number's digits.
LEMMA DigitsOfNumber ==
    ASSUME NEW base \in Nat \ {0}, NEW n \in Nat, NEW digits \in [1 .. n -> 0 .. base - 1]
    PROVE  /\ Number(digits, base) \in Nat
           /\ \A i \in 1 .. n : Digit(Number(digits, base), base, n - i) = digits[i]
           /\ Shift(Number(digits, base), base, n) = 0
  <1>1. digits \in [1 .. n -> Nat]
    OBVIOUS
  <1>2. PICK f \in [0 .. n -> Nat] :
            /\ f[0] = 0
            /\ \A k \in 1 .. n : f[k] = base * f[k - 1] + digits[k]
            /\ Number(digits, base) = f[n]
    <2>1. \E f \in [0 .. n -> Nat] : Sums(f, digits, base, n)
      BY <1>1, NumberSteps
    <2>2. QED
      BY <2>1, Zenon DEF Sums
  <1>3. PICK value \in Nat : value = f[n]
    BY <1>2
  <1> DEFINE S == {k \in 0 .. n : Shift(value, base, k) = f[n - k]}
  <1>4. 0 \in S
    <2>1. Shift(value, base, 0) = value /\ n - 0 = n
      BY ShiftSteps
    <2>2. QED
      BY <1>3, <2>1
  <1>5. ASSUME NEW k \in 1 .. n
        PROVE  f[k - 1] \in Nat /\ f[k] \div base = f[k - 1] /\ f[k] % base = digits[k]
    <2>1. f[k - 1] \in Nat /\ digits[k] \in 0 .. base - 1
      BY <1>2
    <2>2. f[k] = base * f[k - 1] + digits[k]
      BY <1>2
    <2>3. QED
      <3>1. PICK q \in Nat, d \in 0 .. base - 1 : q = f[k - 1] /\ d = digits[k]
        BY <2>1, Zenon
      <3>2. (base * q + d) \div base = q /\ (base * q + d) % base = d
        BY Division
      <3>3. QED
        BY <2>1, <2>2, <3>1, <3>2, Zenon
  <1>6. ASSUME NEW k \in 0 .. n - 1, k \in S PROVE k + 1 \in S
    <2>1. k \in Nat /\ n - k \in 1 .. n /\ (n - k) - 1 = n - (k + 1) /\ k + 1 \in 0 .. n
      OBVIOUS
    <2>2. Shift(value, base, k + 1) = Shift(value, base, k) \div base
      BY <2>1, ShiftSteps
    <2>3. QED
      BY <1>5, <1>6, <2>1, <2>2
  <1>7. \A k \in 0 .. n : k \in S
    <2> HIDE DEF S
    <2>1. QED
      BY <1>4, <1>6, Induction
  <1>8. ASSUME NEW i \in 1 .. n PROVE Digit(value, base, n - i) = digits[i]
    <2>1. n - i \in 0 .. n /\ n - (n - i) = i
      OBVIOUS
    <2>2. Shift(value, base, n - i) = f[i]
      BY <1>7, <2>1
    <2>3. QED
      BY <1>5, <2>2 DEF Digit
  <1>9. Shift(value, base, n) = 0
    <2>1. n \in S /\ n - n = 0
      BY <1>7
    <2>2. QED
      BY <1>2, <2>1
  <1>10. QED
    BY <1>2, <1>3, <1>8, <1>9

\* A digit is one.
LEMMA DigitType ==
    ASSUME NEW base \in Nat \ {0}, NEW value \in Nat, NEW n \in Nat
    PROVE  Digit(value, base, n) \in 0 .. base - 1
  <1>1. Shift(value, base, n) \in Nat
    BY ShiftSteps
  <1>2. QED
    BY <1>1, Remainder DEF Digit, Splits

\* A number's digits, when there are no more of them, make it again.
LEMMA NumberOfDigits ==
    ASSUME NEW base \in Nat \ {0}, NEW value \in Nat, NEW n \in Nat,
           Shift(value, base, n) = 0,
           NEW digits \in [1 .. n -> Nat],
           \A i \in 1 .. n : digits[i] = Digit(value, base, n - i)
    PROVE  Number(digits, base) = value
  <1>1. PICK f \in [0 .. n -> Nat] :
            /\ f[0] = 0
            /\ \A k \in 1 .. n : f[k] = base * f[k - 1] + digits[k]
            /\ Number(digits, base) = f[n]
    <2>1. \E f \in [0 .. n -> Nat] : Sums(f, digits, base, n)
      BY NumberSteps
    <2>2. QED
      BY <2>1, Zenon DEF Sums
  <1> DEFINE S == {k \in 0 .. n : f[k] = Shift(value, base, n - k)}
  <1>2. 0 \in S
    <2>1. n - 0 = n
      OBVIOUS
    <2>2. QED
      BY <1>1, <2>1
  <1>3. ASSUME NEW k \in 0 .. n - 1, k \in S PROVE k + 1 \in S
    <2>1. /\ k + 1 \in 0 .. n /\ k + 1 \in 1 .. n /\ (k + 1) - 1 = k
          /\ n - (k + 1) \in Nat /\ (n - (k + 1)) + 1 = n - k
      OBVIOUS
    <2>2. PICK m \in Nat : m = n - (k + 1)
      BY <2>1
    <2>3. PICK x \in Nat : x = Shift(value, base, m)
      BY ShiftSteps
    <2>4. f[k] = x \div base
      <3>1. Shift(value, base, m + 1) = Shift(value, base, m) \div base
        BY ShiftSteps
      <3>2. QED
        BY <1>3, <2>1, <2>2, <2>3, <3>1
    <2>5. f[k + 1] = base * f[k] + digits[k + 1]
      BY <1>1, <2>1
    <2>6. digits[k + 1] = x % base
      BY <2>1, <2>2, <2>3 DEF Digit
    <2>7. f[k + 1] = x
      <3>1. PICK q \in Nat, r \in 0 .. base - 1 :
                x \div base = q /\ x % base = r /\ x = base * q + r
        <4>1. Splits(x, base)
          BY Remainder
        <4>2. QED
          BY <4>1, Zenon DEF Splits
      <3>2. QED
        BY <2>4, <2>5, <2>6, <3>1
    <2>8. QED
      BY <2>1, <2>2, <2>3, <2>7
  <1>4. \A k \in 0 .. n : k \in S
    <2> HIDE DEF S
    <2>1. QED
      BY <1>2, <1>3, Induction
  <1>5. n \in S /\ n - n = 0
    BY <1>4
  <1>6. Shift(value, base, 0) = value
    BY ShiftSteps
  <1>7. QED
    BY <1>1, <1>5, <1>6

\* So many digits make no more than that.
LEMMA NumberBound ==
    ASSUME NEW base \in Nat \ {0}, NEW n \in Nat, NEW digits \in [1 .. n -> 0 .. base - 1]
    PROVE  Number(digits, base) \in 0 .. Power(base, n) - 1
  <1>1. digits \in [1 .. n -> Nat]
    OBVIOUS
  <1>2. PICK f \in [0 .. n -> Nat] :
            /\ f[0] = 0
            /\ \A k \in 1 .. n : f[k] = base * f[k - 1] + digits[k]
            /\ Number(digits, base) = f[n]
    <2>1. \E f \in [0 .. n -> Nat] : Sums(f, digits, base, n)
      BY <1>1, NumberSteps
    <2>2. QED
      BY <2>1, Zenon DEF Sums
  <1> DEFINE S == {k \in 0 .. n : f[k] < Power(base, k)}
  <1>3. 0 \in S
    BY <1>2, PowerSteps
  <1>4. ASSUME NEW k \in 0 .. n - 1, k \in S PROVE k + 1 \in S
    <2>1. k \in Nat /\ k + 1 \in 0 .. n /\ k + 1 \in 1 .. n /\ (k + 1) - 1 = k
          /\ k \in 0 .. n
      OBVIOUS
    <2>2. PICK x \in Nat, p \in Nat, d \in 0 .. base - 1 :
              x = f[k] /\ p = Power(base, k) /\ d = digits[k + 1]
      <3>1. f[k] \in Nat /\ Power(base, k) \in Nat /\ digits[k + 1] \in 0 .. base - 1
        BY <1>2, <2>1, PowerSteps
      <3>2. QED
        BY <3>1, Zenon
    <2>3. f[k + 1] = base * x + d /\ Power(base, k + 1) = base * p /\ x < p
      BY <1>2, <1>4, <2>1, <2>2, PowerSteps
    <2>4. base * (x + 1) <= base * p
      <3>1. x + 1 <= p
        BY <2>3
      <3>2. QED
        BY <3>1
    <2>5. base * x + d < base * p
      BY <2>4
    <2>6. QED
      BY <2>1, <2>3, <2>5
  <1>5. \A k \in 0 .. n : k \in S
    <2> HIDE DEF S
    <2>1. QED
      BY <1>3, <1>4, Induction
  <1>6. f[n] < Power(base, n) /\ f[n] \in Nat
    BY <1>2, <1>5
  <1>7. Power(base, n) \in Nat
    BY PowerSteps
  <1>8. QED
    BY <1>2, <1>6, <1>7

-----------------------------------------------------------------------------
(* Sequences.                                                              *)

\* The order of concatenations does not matter.
Joins(s, t, u) == (s \o t) \o u = s \o (t \o u)

\* Concatenation is associative.
LEMMA SequencesJoin ==
    ASSUME NEW E, NEW s \in Seq(E), NEW t \in Seq(E), NEW u \in Seq(E)
    PROVE  Joins(s, t, u)
  BY DEF Joins

\* The same for strings of bytes.
LEMMA BytesJoin == \A s, t, u \in Seq(Byte) : Joins(s, t, u)
  BY SequencesJoin

\* Moving the first n elements of t to the end of s.
Moves(E, s, t, n) ==
    /\ s \o SubSeq(t, 1, n) \in Seq(E)
    /\ Len(s \o SubSeq(t, 1, n)) = Len(s) + n
    /\ SubSeq(t, n + 1, Len(t)) \in Seq(E)
    /\ (s \o SubSeq(t, 1, n)) \o SubSeq(t, n + 1, Len(t)) = s \o t

\* Bytes that move from the front of one string to the end of another keep
\* their order.
LEMMA MoveFront ==
    ASSUME NEW E, NEW s \in Seq(E), NEW t \in Seq(E), NEW n \in 1 .. Len(t)
    PROVE  Moves(E, s, t, n)
  <1>1. /\ SubSeq(t, 1, n) \in Seq(E) /\ SubSeq(t, n + 1, Len(t)) \in Seq(E)
        /\ Len(SubSeq(t, 1, n)) = n
    BY SubSeqProperties
  <1>2. SubSeq(t, 1, n) \o SubSeq(t, n + 1, Len(t)) = t
    <2>1. 1 \in 1 .. Len(t) + 1 /\ n \in 1 - 1 .. Len(t) /\ Len(t) \in n .. Len(t)
      OBVIOUS
    <2>2. SubSeq(t, 1, n) \o SubSeq(t, n + 1, Len(t)) = SubSeq(t, 1, Len(t))
      BY <2>1, ConcatAdjacentSubSeq
    <2>3. QED
      BY <2>2, SubSeqFull
  <1>3. PICK u \in Seq(E), v \in Seq(E) :
            u = SubSeq(t, 1, n) /\ v = SubSeq(t, n + 1, Len(t))
    BY <1>1, Zenon
  <1>4. (s \o u) \o v = s \o (u \o v) /\ s \o u \in Seq(E) /\ Len(s \o u) = Len(s) + Len(u)
    <2>1. s \o u \in Seq(E) /\ Len(s \o u) = Len(s) + Len(u)
      BY ConcatProperties
    <2>2. Joins(s, u, v)
      BY SequencesJoin
    <2>3. (s \o u) \o v = s \o (u \o v)
      BY <2>2, Zenon DEF Joins
    <2>4. QED
      BY <2>1, <2>3
  <1>5. QED
    BY <1>1, <1>2, <1>3, <1>4, Zenon DEF Moves

\* Of two ways to cut a sequence, those at the same place are the same.
LEMMA SplitConcat ==
    ASSUME NEW E, NEW a \in Seq(E), NEW b \in Seq(E), NEW c \in Seq(E), NEW d \in Seq(E),
           a \o b = c \o d, Len(a) = Len(c)
    PROVE  a = c /\ b = d
  <1>1. /\ Len(a \o b) = Len(a) + Len(b) /\ Len(c \o d) = Len(c) + Len(d)
        /\ \A i \in 1 .. Len(a) : (a \o b)[i] = a[i]
        /\ \A i \in 1 .. Len(c) : (c \o d)[i] = c[i]
        /\ \A i \in 1 .. Len(b) : (a \o b)[Len(a) + i] = b[i]
        /\ \A i \in 1 .. Len(d) : (c \o d)[Len(c) + i] = d[i]
    <2>1. ASSUME NEW s \in Seq(E), NEW t \in Seq(E)
          PROVE  /\ Len(s \o t) = Len(s) + Len(t)
                 /\ \A i \in 1 .. Len(s) : (s \o t)[i] = s[i]
                 /\ \A i \in 1 .. Len(t) : (s \o t)[Len(s) + i] = t[i]
      OBVIOUS
    <2>2. QED
      BY <2>1, Zenon
  <1>2. Len(a) \in Nat /\ Len(b) \in Nat /\ Len(c) \in Nat /\ Len(d) \in Nat
    OBVIOUS
  <1>3. Len(b) = Len(d)
    BY <1>1, <1>2
  <1>4. \A i \in 1 .. Len(a) : a[i] = c[i]
    BY <1>1
  <1>5. \A i \in 1 .. Len(b) : b[i] = d[i]
    BY <1>1, <1>3
  <1>6. QED
    BY <1>3, <1>4, <1>5, SeqEqual

\* The first element and the rest.
LEMMA HeadAndTail ==
    ASSUME NEW E, NEW e \in E, NEW s \in Seq(E), NEW t, t = <<e>> \o s
    PROVE  t \in Seq(E) /\ Len(t) = Len(s) + 1 /\ t[1] = e /\ Tail(t) = s
  <1>1. t \in Seq(E) /\ Len(t) = Len(s) + 1 /\ t[1] = e
    OBVIOUS
  <1>2. \A i \in 1 .. Len(s) : t[i + 1] = s[i]
    OBVIOUS
  <1>3. Tail(t) \in Seq(E) /\ Len(Tail(t)) = Len(s)
    BY <1>1
  <1>4. \A i \in 1 .. Len(s) : Tail(t)[i] = s[i]
    BY <1>1, <1>2
  <1>5. QED
    BY <1>1, <1>3, <1>4, SeqEqual

-----------------------------------------------------------------------------
(* Words.                                                                  *)

\* What the assumption says of the constants.
LEMMA Constants ==
    /\ Base \in Nat \ {0} /\ Byte = 0 .. Base - 1 /\ 0 \in Byte
    /\ WordBytes \in Nat \ {0} /\ ByteBits \in Nat \ {0} /\ NumPieces \in Nat
    /\ MaxMessageSize \in Nat \ {0}
    /\ {MsgHave, MsgBitfield, MsgRequest, MsgPiece} \subseteq Byte
    /\ KeepAlive \notin Byte /\ Malformed \notin Byte
  <1>1. ByteBits \in Nat /\ MsgPiece \in Byte
    BY WireAssumption
  <1>2. Base \in Nat
    BY <1>1, PowerSteps DEF Base
  <1>3. Base > 7
    BY <1>1, <1>2 DEF Byte, MsgPiece
  <1>4. QED
    BY <1>2, <1>3, WireAssumption
    DEF Byte, MsgHave, MsgBitfield, MsgRequest, MsgPiece, KeepAlive, Malformed

\* A word is WordBytes bytes.
LEMMA PutWordType ==
    ASSUME NEW value \in Nat
    PROVE  PutWord(value) \in [1 .. WordBytes -> Byte]
  <1>1. ASSUME NEW i \in 1 .. WordBytes PROVE Digit(value, Base, WordBytes - i) \in Byte
    <2>1. WordBytes - i \in Nat
      BY Constants
    <2>2. QED
      BY <2>1, Constants, DigitType
  <1>2. QED
    BY <1>1 DEF PutWord

\* Reading a word that was written.
LEMMA WordBack ==
    ASSUME NEW value, FitsWord(value), NEW bytes, NEW offset,
           \A i \in 1 .. WordBytes : bytes[offset + i] = PutWord(value)[i]
    PROVE  Word(bytes, offset) = value
  <1> DEFINE digits == [i \in 1 .. WordBytes |-> bytes[offset + i]]
  <1>1. value \in Nat /\ Shift(value, Base, WordBytes) = 0
    BY DEF FitsWord
  <1>2. \A i \in 1 .. WordBytes : digits[i] = Digit(value, Base, WordBytes - i)
    BY DEF PutWord
  <1>3. digits \in [1 .. WordBytes -> Nat]
    <2>1. digits = PutWord(value)
      BY DEF PutWord
    <2>2. Byte \subseteq Nat
      BY Constants
    <2>3. QED
      BY <1>1, <2>1, <2>2, PutWordType
  <1>4. Word(bytes, offset) = Number(digits, Base)
    BY Zenon DEF Word
  <1> HIDE DEF digits
  <1>5. WordBytes \in Nat
    BY Constants
  <1>6. QED
    BY <1>1, <1>2, <1>3, <1>4, <1>5, Constants, NumberOfDigits

Numbers == {value \in Nat : FitsWord(value)}

\* Where the bytes of the k-th word are.
LEMMA WordPlace ==
    ASSUME NEW n \in Nat, NEW k \in 1 .. n, NEW i \in 1 .. WordBytes
    PROVE  /\ (k - 1) * WordBytes + i \in 1 .. n * WordBytes
           /\ (((k - 1) * WordBytes + i) - 1) \div WordBytes = k - 1
           /\ (((k - 1) * WordBytes + i) - 1) % WordBytes = i - 1
  <1>1. PICK w \in Nat \ {0}, q \in Nat, d \in Nat :
            w = WordBytes /\ q = k - 1 /\ d = i - 1
    BY Constants
  <1>2. d \in 0 .. w - 1 /\ q + 1 <= n
    BY <1>1
  <1>3. (w * q + d) \div w = q /\ (w * q + d) % w = d
    BY <1>2, Division
  <1>4. w * (q + 1) <= w * n
    BY <1>2
  <1>5. ((k - 1) * WordBytes + i) - 1 = w * q + d
    BY <1>1
  <1>6. w * q + d + 1 \in 1 .. n * w
    BY <1>2, <1>4
  <1>7. (k - 1) * WordBytes + i = w * q + d + 1
    BY <1>1
  <1>8. QED
    BY <1>1, <1>3, <1>5, <1>6, <1>7, Zenon

\* Words are written as bytes.
LEMMA PutWordsType ==
    ASSUME NEW n \in Nat, NEW values \in [1 .. n -> Numbers]
    PROVE  /\ n * WordBytes \in Nat
           /\ PutWords(values) \in [1 .. n * WordBytes -> Byte]
           /\ PutWords(values) \in Seq(Byte) /\ Len(PutWords(values)) = n * WordBytes
           /\ \A k \in 1 .. n, i \in 1 .. WordBytes :
                  PutWords(values)[(k - 1) * WordBytes + i] = PutWord(values[k])[i]
  <1>1. Len(values) = n
    OBVIOUS
  <1>2. n * WordBytes \in Nat
    BY Constants
  <1>3. PutWords(values) = [i \in 1 .. n * WordBytes |->
            PutWord(values[1 + ((i - 1) \div WordBytes)])[1 + ((i - 1) % WordBytes)]]
    BY <1>1, Zenon DEF PutWords
  <1>4. ASSUME NEW j \in 1 .. n * WordBytes
        PROVE  PutWords(values)[j] \in Byte
    <2>1. PICK w \in Nat \ {0} : w = WordBytes
      BY Constants
    <2>2. PICK x \in Nat : x = j - 1
      OBVIOUS
    <2>3. PICK q \in Nat, r \in 0 .. w - 1 : x \div w = q /\ x % w = r /\ x = w * q + r
      BY Remainder DEF Splits
    <2>4. q < n
      <3>1. w * q < w * n
        BY <2>1, <2>2, <2>3
      <3>2. q >= n => w * q >= w * n
        OBVIOUS
      <3>3. QED
        BY <3>1, <3>2
    <2>5. values[1 + q] \in Nat
      BY <2>4 DEF Numbers
    <2>6. PutWord(values[1 + q])[1 + r] \in Byte
      BY <2>1, <2>3, <2>5, PutWordType
    <2>7. PutWords(values)[j] = PutWord(values[1 + q])[1 + r]
      BY <1>3, <2>1, <2>2, <2>3
    <2>8. QED
      BY <2>6, <2>7
  <1>5. PutWords(values) \in [1 .. n * WordBytes -> Byte]
    BY <1>3, <1>4
  <1>6. ASSUME NEW k \in 1 .. n, NEW i \in 1 .. WordBytes
        PROVE  PutWords(values)[(k - 1) * WordBytes + i] = PutWord(values[k])[i]
    <2>1. PICK j \in 1 .. n * WordBytes :
              /\ j = (k - 1) * WordBytes + i
              /\ (j - 1) \div WordBytes = k - 1 /\ (j - 1) % WordBytes = i - 1
      BY WordPlace
    <2>2. 1 + (k - 1) = k /\ 1 + (i - 1) = i
      BY Constants
    <2>3. PutWords(values)[j] = PutWord(values[1 + (k - 1)])[1 + (i - 1)]
      BY <1>3, <2>1
    <2>4. QED
      BY <2>1, <2>2, <2>3
  <1>7. PutWords(values) \in Seq(Byte) /\ Len(PutWords(values)) = n * WordBytes
    <2>1. PICK s \in [1 .. n * WordBytes -> Byte], m \in Nat :
              s = PutWords(values) /\ m = n * WordBytes
      BY <1>2, <1>5
    <2>2. s \in [1 .. m -> Byte]
      BY <2>1
    <2>3. s \in Seq(Byte) /\ Len(s) = m
      BY <2>2
    <2>4. QED
      BY <2>1, <2>3
  <1>8. QED
    BY <1>2, <1>5, <1>6, <1>7

\* Reading several words that were written.
LEMMA WordsBack ==
    ASSUME NEW n \in Nat, NEW values \in [1 .. n -> Numbers]
    PROVE  Words(PutWords(values)) = values
  <1> DEFINE bytes == PutWords(values)
  <1>1. Len(bytes) = n * WordBytes
    BY PutWordsType
  <1>2. (n * WordBytes) \div WordBytes = n
    <2>1. PICK w \in Nat \ {0} : w = WordBytes
      BY Constants
    <2>2. 0 \in 0 .. w - 1
      OBVIOUS
    <2>3. (w * n + 0) \div w = n
      BY <2>2, Division
    <2>4. w * n + 0 = n * w
      OBVIOUS
    <2>5. QED
      BY <2>1, <2>3, <2>4
  <1>3. ASSUME NEW k \in 1 .. n
        PROVE  Word(bytes, (k - 1) * WordBytes) = values[k]
    <2>1. FitsWord(values[k])
      BY DEF Numbers
    <2>2. \A i \in 1 .. WordBytes :
              bytes[(k - 1) * WordBytes + i] = PutWord(values[k])[i]
      BY PutWordsType
    <2> HIDE DEF bytes
    <2>3. QED
      BY <2>1, <2>2, WordBack
  <1>4. Words(bytes) = [k \in 1 .. n |-> Word(bytes, (k - 1) * WordBytes)]
    BY <1>1, <1>2, Zenon DEF Words
  <1> HIDE DEF bytes
  <1>5. values = [k \in 1 .. n |-> values[k]]
    OBVIOUS
  <1>6. Words(bytes) = values
    BY <1>3, <1>4, <1>5, Zenon
  <1>7. QED
    BY <1>6 DEF bytes

-----------------------------------------------------------------------------
(* Bitfields.                                                              *)

BitfieldLength == (NumPieces + ByteBits - 1) \div ByteBits

\* The bytes of a bitfield have a bit for every piece.
LEMMA BitfieldCovers ==
    /\ BitfieldLength \in Nat
    /\ \A i \in Pieces :
           \E q \in Nat, r \in 0 .. ByteBits - 1 :
               /\ i \div ByteBits = q /\ i % ByteBits = r /\ i = q * ByteBits + r
               /\ q + 1 \in 1 .. BitfieldLength
    /\ NumPieces % ByteBits # 0 =>
           \E r \in 0 .. ByteBits - 1 :
               /\ NumPieces % ByteBits = r
               /\ BitfieldLength > 0 /\ (BitfieldLength - 1) * ByteBits + r = NumPieces
  <1>1. PICK B \in Nat \ {0}, N \in Nat : B = ByteBits /\ N = NumPieces
    BY Constants
  <1>2. PICK x \in Nat : x = N + B - 1
    OBVIOUS
  <1>3. PICK L \in Nat, s \in 0 .. B - 1 : x \div B = L /\ x % B = s /\ x = B * L + s
    BY Remainder DEF Splits
  <1>4. BitfieldLength = L
    BY <1>1, <1>2, <1>3 DEF BitfieldLength
  <1>5. B * L >= N
    BY <1>2, <1>3
  <1>6. ASSUME NEW i \in 0 .. N - 1
        PROVE  \E q \in Nat, r \in 0 .. B - 1 :
                   /\ i \div B = q /\ i % B = r /\ i = q * B + r
                   /\ q + 1 \in 1 .. L
    <2>1. i \in Nat
      OBVIOUS
    <2>2. PICK q \in Nat, r \in 0 .. B - 1 : i \div B = q /\ i % B = r /\ i = B * q + r
      BY <2>1, Remainder DEF Splits
    <2>3. B * q < B * L
      BY <1>5, <2>2
    <2>4. q >= L => B * q >= B * L
      OBVIOUS
    <2>5. q + 1 \in 1 .. L
      BY <2>3, <2>4
    <2>6. QED
      BY <2>2, <2>5
  <1>7. ASSUME N % B # 0
        PROVE  \E r \in 0 .. B - 1 :
                   N % B = r /\ L > 0 /\ (L - 1) * B + r = N
    <2>1. PICK q \in Nat, r \in 0 .. B - 1 : N \div B = q /\ N % B = r /\ N = B * q + r
      BY Remainder DEF Splits
    <2>2. r - 1 \in 0 .. B - 1 /\ q + 1 \in Nat
      BY <1>7, <2>1
    <2>3. (B * (q + 1) + (r - 1)) \div B = q + 1
      BY <2>2, Division
    <2>4. x = B * (q + 1) + (r - 1)
      BY <1>2, <2>1
    <2>5. L = q + 1
      BY <1>3, <2>3, <2>4
    <2>6. (L - 1) * B + r = N
      <3>1. L - 1 = q
        BY <2>5
      <3>2. q * B + r = N
        BY <2>1
      <3>3. QED
        BY <3>1, <3>2, Zenon
    <2>7. QED
      BY <2>1, <2>5, <2>6
  <1>8. QED
    BY <1>1, <1>4, <1>6, <1>7 DEF Pieces

\* A bit of a bitfield.
LEMMA BitfieldBit ==
    ASSUME NEW pieces, NEW i \in 1 .. BitfieldLength
    PROVE  /\ BitfieldBytes(pieces)[i] \in Byte
           /\ \A j \in 0 .. ByteBits - 1 :
                  Bit(BitfieldBytes(pieces)[i], j) =
                      IF (i - 1) * ByteBits + j \in pieces THEN 1 ELSE 0
  <1> DEFINE bits == [bit \in 1 .. ByteBits |->
                         IF (i - 1) * ByteBits + (bit - 1) \in pieces THEN 1 ELSE 0]
  <1>1. BitfieldBytes(pieces)[i] = Number(bits, 2)
    BY Zenon DEF BitfieldBytes, BitfieldLength
  <1>2. bits \in [1 .. ByteBits -> 0 .. 2 - 1]
    OBVIOUS
  <1>3. ASSUME NEW j \in 0 .. ByteBits - 1
        PROVE  bits[j + 1] = IF (i - 1) * ByteBits + j \in pieces THEN 1 ELSE 0
    <2>1. j + 1 \in 1 .. ByteBits /\ (j + 1) - 1 = j
      BY Constants
    <2>2. QED
      BY <2>1, Zenon
  <1> HIDE DEF bits
  <1>4. 2 \in Nat \ {0} /\ ByteBits \in Nat
    BY Constants
  <1>5. Number(bits, 2) \in Byte
    BY <1>2, <1>4, NumberBound DEF Byte, Base
  <1>6. ASSUME NEW j \in 0 .. ByteBits - 1
        PROVE  Bit(Number(bits, 2), j) = bits[j + 1]
    <2>1. j + 1 \in 1 .. ByteBits /\ ByteBits - (j + 1) = ByteBits - 1 - j
      BY <1>4
    <2>2. Digit(Number(bits, 2), 2, ByteBits - (j + 1)) = bits[j + 1]
      BY <1>2, <1>4, <2>1, DigitsOfNumber
    <2>3. QED
      BY <2>1, <2>2 DEF Bit
  <1>7. QED
    BY <1>1, <1>3, <1>5, <1>6

\* Reading a bitfield that was written.
LEMMA BitfieldBack ==
    ASSUME NEW pieces \in SUBSET Pieces
    PROVE  /\ BitfieldBytes(pieces) \in Seq(Byte)
           /\ BitfieldValid(BitfieldBytes(pieces))
           /\ ParseBitfield(BitfieldBytes(pieces)) = pieces
  <1> DEFINE L == BitfieldLength
             payload == BitfieldBytes(pieces)
  <1>1. L \in Nat
    BY BitfieldCovers
  <1>2. payload = [i \in 1 .. L |-> payload[i]]
    BY Zenon DEF BitfieldBytes, BitfieldLength
  <1>3. \A i \in 1 .. L : payload[i] \in Byte
    BY BitfieldBit
  <1>4. payload \in Seq(Byte) /\ Len(payload) = L
    <2>1. payload \in [1 .. L -> Byte]
      BY <1>2, <1>3
    <2> HIDE DEF payload, L
    <2>2. QED
      BY <1>1, <2>1
  <1>5. ASSUME NEW i \in Pieces PROVE HasBit(payload, i) <=> i \in pieces
    <2>1. PICK q \in Nat, r \in 0 .. ByteBits - 1 :
              /\ i \div ByteBits = q /\ i % ByteBits = r /\ i = q * ByteBits + r
              /\ q + 1 \in 1 .. L
      BY BitfieldCovers
    <2>2. (q + 1) - 1 = q
      OBVIOUS
    <2>3. Bit(payload[q + 1], r) = IF ((q + 1) - 1) * ByteBits + r \in pieces THEN 1 ELSE 0
      BY <2>1, BitfieldBit
    <2>4. Bit(payload[q + 1], r) = IF i \in pieces THEN 1 ELSE 0
      BY <2>1, <2>2, <2>3, Zenon
    <2>5. HasBit(payload, i) <=> Bit(payload[q + 1], r) = 1
      BY <2>1, Zenon DEF HasBit
    <2>6. QED
      BY <2>4, <2>5
  <1>6. ParseBitfield(payload) = pieces
    <2> HIDE DEF payload
    <2>1. QED
      BY <1>5, Zenon DEF ParseBitfield
  <1>7. SpareBitsClear(payload)
    <2>1. SUFFICES ASSUME NumPieces % ByteBits # 0,
                          NEW i \in NumPieces % ByteBits .. ByteBits - 1
                   PROVE  Bit(Last(payload), i) = 0
      BY Zenon DEF SpareBitsClear
    <2>2. PICK r \in 0 .. ByteBits - 1 :
              /\ NumPieces % ByteBits = r
              /\ L > 0 /\ (L - 1) * ByteBits + r = NumPieces
      BY <2>1, BitfieldCovers
    <2>3. i \in 0 .. ByteBits - 1 /\ i >= r /\ L \in 1 .. L
      BY <1>1, <2>1, <2>2
    <2>4. PICK x \in Int : x = (L - 1) * ByteBits
      BY <1>1, Constants
    <2>5. (L - 1) * ByteBits + i \notin pieces
      <3>1. x + i >= NumPieces
        <4>1. x + r = NumPieces
          BY <2>2, <2>4, Zenon
        <4>2. i \in Int /\ NumPieces \in Int
          BY Constants
        <4>3. QED
          BY <2>3, <4>1, <4>2
      <3>2. x + i \notin Pieces
        BY <2>3, <3>1, Constants DEF Pieces
      <3>3. QED
        BY <2>4, <3>2
    <2>6. Bit(payload[L], i) = 0
      BY <2>3, <2>5, BitfieldBit
    <2>7. Last(payload) = payload[L]
      BY <1>4, Zenon DEF Last
    <2>8. QED
      BY <2>6, <2>7, Zenon
  <1>8. QED
    BY <1>4, <1>6, <1>7, Zenon DEF BitfieldValid, BitfieldLength

-----------------------------------------------------------------------------
(* Messages.                                                               *)

OtherIDs == Byte \ {MsgHave, MsgBitfield, MsgRequest, MsgPiece}

\* What a message of one of the kinds is made of.
LEMMA MessageKinds ==
    ASSUME NEW m \in MessageType
    PROVE  \/ m = Message(KeepAlive, <<>>, <<>>, {})
           \/ \E args \in [1 .. 1 -> Numbers] : m = Message(MsgHave, args, <<>>, {})
           \/ \E pieces \in SUBSET Pieces : m = Message(MsgBitfield, <<>>, <<>>, pieces)
           \/ \E args \in Seq(Numbers) : m = Message(MsgRequest, args, <<>>, {})
           \/ \E args \in [1 .. 2 -> Numbers], block \in Seq(Byte) :
                  m = Message(MsgPiece, args, block, {})
           \/ \E id \in OtherIDs, block \in Seq(Byte) : m = Message(id, <<>>, block, {})
  BY DEF MessageType, Message, Numbers, OtherIDs

\* No words are no bytes.
LEMMA PutNoWords == PutWords(<<>>) = <<>>
  <1>1. <<>> \in [1 .. 0 -> Numbers] /\ 0 \in Nat
    OBVIOUS
  <1>2. PutWords(<<>>) \in Seq(Byte) /\ Len(PutWords(<<>>)) = 0 * WordBytes
    BY <1>1, PutWordsType
  <1>3. 0 * WordBytes = 0
    BY Constants
  <1>4. QED
    BY <1>2, <1>3, EmptySeq

\* The body of a message with an ID.
HasBody(message, id, payload) ==
    /\ Body(message) \in Seq(Byte) /\ Len(Body(message)) > 0
    /\ Body(message)[1] = id
    /\ Tail(Body(message)) = payload

\* A message that is not a keep-alive is its ID and its payload.
LEMMA BodyParts ==
    ASSUME NEW id \in Byte, NEW args, PutWords(args) \in Seq(Byte),
           NEW block, NEW pieces, NEW rest \in Seq(Byte),
           id = MsgBitfield => rest = BitfieldBytes(pieces),
           id # MsgBitfield => rest = block
    PROVE  HasBody(Message(id, args, block, pieces), id, PutWords(args) \o rest)
  <1> DEFINE m == Message(id, args, block, pieces)
             body == Body(m)
  <1>1. m.id = id /\ m.args = args /\ m.block = block /\ m.pieces = pieces
    BY DEF Message
  <1>2. id # KeepAlive /\ id # Malformed
    BY Constants
  <1> HIDE DEF m
  <1>3. body = (<<id>> \o PutWords(args)) \o rest
    BY <1>1, <1>2 DEF Body
  <1>4. PICK a \in Seq(Byte), h \in Seq(Byte) : a = PutWords(args) /\ h = <<id>>
    <2>1. <<id>> \in Seq(Byte)
      OBVIOUS
    <2>2. QED
      BY <2>1, Zenon
  <1>5. (h \o a) \o rest = h \o (a \o rest) /\ a \o rest \in Seq(Byte)
    <2>1. a \o rest \in Seq(Byte)
      BY ConcatProperties
    <2>2. (h \o a) \o rest = h \o (a \o rest)
      <3>1. Joins(h, a, rest)
        BY BytesJoin
      <3>2. QED
        BY <3>1, Zenon DEF Joins
    <2>3. QED
      BY <2>1, <2>2
  <1>6. PICK t \in Seq(Byte) : t = a \o rest
    BY <1>5, Zenon
  <1>7. body = <<id>> \o t
    BY <1>3, <1>4, <1>5, <1>6, Zenon
  <1>8. body \in Seq(Byte) /\ Len(body) = Len(t) + 1 /\ body[1] = id /\ Tail(body) = t
    <2> HIDE DEF body
    <2>1. QED
      BY <1>7, HeadAndTail
  <1>9. Len(body) > 0
    BY <1>8
  <1>10. QED
    BY <1>4, <1>6, <1>8, <1>9, Zenon DEF m, HasBody

\* Reading a have that was written.
LEMMA HaveBack ==
    ASSUME NEW args \in [1 .. 1 -> Numbers]
    PROVE  LET body == Body(Message(MsgHave, args, <<>>, {}))
           IN  /\ body \in Seq(Byte) /\ Len(body) > 0 /\ body[1] = MsgHave
               /\ Len(Tail(body)) = WordBytes
               /\ Words(Tail(body)) = args /\ Word(Tail(body), 0) = args[1]
  <1>1. MsgHave \in Byte /\ MsgHave # MsgBitfield /\ <<>> \in Seq(Byte)
    BY Constants, EmptySeq DEF MsgHave, MsgBitfield
  <1>2. /\ PutWords(args) \in Seq(Byte) /\ Len(PutWords(args)) = 1 * WordBytes
        /\ \A i \in 1 .. WordBytes :
               PutWords(args)[(1 - 1) * WordBytes + i] = PutWord(args[1])[i]
    <2>1. 1 \in Nat /\ 1 \in 1 .. 1
      OBVIOUS
    <2>2. /\ PutWords(args) \in Seq(Byte) /\ Len(PutWords(args)) = 1 * WordBytes
          /\ \A k \in 1 .. 1, i \in 1 .. WordBytes :
                 PutWords(args)[(k - 1) * WordBytes + i] = PutWord(args[k])[i]
      BY <2>1, PutWordsType, Zenon
    <2>3. QED
      BY <2>1, <2>2, Zenon
  <1>3. PutWords(args) \o <<>> = PutWords(args)
    BY <1>2, ConcatEmptySeq
  <1> DEFINE body == Body(Message(MsgHave, args, <<>>, {}))
  <1>4. body \in Seq(Byte) /\ Len(body) > 0 /\ body[1] = MsgHave /\ Tail(body) = PutWords(args)
    <2>1. HasBody(Message(MsgHave, args, <<>>, {}), MsgHave, PutWords(args) \o <<>>)
      BY <1>1, <1>2, BodyParts
    <2>2. QED
      BY <1>3, <2>1, Zenon DEF HasBody
  <1>5. Words(PutWords(args)) = args
    BY WordsBack
  <1>6. Word(PutWords(args), 0) = args[1]
    <2>1. FitsWord(args[1])
      BY DEF Numbers
    <2>2. (1 - 1) * WordBytes = 0
      BY Constants
    <2>3. \A i \in 1 .. WordBytes : PutWords(args)[0 + i] = PutWord(args[1])[i]
      BY <1>2, <2>2, Zenon
    <2>4. QED
      BY <2>1, <2>3, WordBack
  <1>7. 1 * WordBytes = WordBytes
    BY Constants
  <1>8. QED
    BY <1>2, <1>4, <1>5, <1>6, <1>7, Zenon

\* Reading a bitfield's message.
LEMMA BitfieldMessageBack ==
    ASSUME NEW pieces \in SUBSET Pieces
    PROVE  LET body == Body(Message(MsgBitfield, <<>>, <<>>, pieces))
           IN  /\ body \in Seq(Byte) /\ Len(body) > 0 /\ body[1] = MsgBitfield
               /\ BitfieldValid(Tail(body)) /\ ParseBitfield(Tail(body)) = pieces
  <1> DEFINE body == Body(Message(MsgBitfield, <<>>, <<>>, pieces))
             rest == BitfieldBytes(pieces)
  <1>1. MsgBitfield \in Byte /\ PutWords(<<>>) = <<>> /\ <<>> \in Seq(Byte)
    BY Constants, PutNoWords, EmptySeq
  <1>2. rest \in Seq(Byte) /\ BitfieldValid(rest) /\ ParseBitfield(rest) = pieces
    BY BitfieldBack
  <1>3. HasBody(Message(MsgBitfield, <<>>, <<>>, pieces), MsgBitfield,
                PutWords(<<>>) \o BitfieldBytes(pieces))
    BY <1>1, <1>2, BodyParts
  <1>4. /\ body \in Seq(Byte) /\ Len(body) > 0 /\ body[1] = MsgBitfield
        /\ Tail(body) = PutWords(<<>>) \o rest
    BY <1>3, Zenon DEF HasBody
  <1>5. PutWords(<<>>) \o rest = rest
    <2> HIDE DEF rest
    <2>1. <<>> \o rest = rest
      BY <1>2, ConcatEmptySeq
    <2>2. QED
      BY <1>1, <2>1, Zenon
  <1>6. QED
    BY <1>2, <1>4, <1>5, Zenon

\* Reading a request that was written.
LEMMA RequestBack ==
    ASSUME NEW args \in Seq(Numbers)
    PROVE  LET body == Body(Message(MsgRequest, args, <<>>, {}))
           IN  /\ body \in Seq(Byte) /\ Len(body) > 0 /\ body[1] = MsgRequest
               /\ Words(Tail(body)) = args
  <1> DEFINE body == Body(Message(MsgRequest, args, <<>>, {}))
  <1>1. MsgRequest \in Byte /\ MsgRequest # MsgBitfield /\ <<>> \in Seq(Byte)
    BY Constants, EmptySeq DEF MsgRequest, MsgBitfield
  <1>2. PICK n \in Nat : args \in [1 .. n -> Numbers]
    OBVIOUS
  <1>3. PutWords(args) \in Seq(Byte) /\ Words(PutWords(args)) = args
    BY <1>2, PutWordsType, WordsBack
  <1>4. PutWords(args) \o <<>> = PutWords(args)
    BY <1>3, ConcatEmptySeq
  <1>5. HasBody(Message(MsgRequest, args, <<>>, {}), MsgRequest, PutWords(args) \o <<>>)
    BY <1>1, <1>3, BodyParts
  <1>6. /\ body \in Seq(Byte) /\ Len(body) > 0 /\ body[1] = MsgRequest
        /\ Tail(body) = PutWords(args) \o <<>>
    BY <1>5, Zenon DEF HasBody
  <1>7. QED
    BY <1>3, <1>4, <1>6, Zenon

\* Reading a piece's message.
LEMMA PieceBack ==
    ASSUME NEW args \in [1 .. 2 -> Numbers], NEW block \in Seq(Byte)
    PROVE  LET body == Body(Message(MsgPiece, args, block, {}))
           IN  /\ body \in Seq(Byte) /\ Len(body) > 0 /\ body[1] = MsgPiece
               /\ Len(Tail(body)) >= 2 * WordBytes
               /\ PieceHeader(Tail(body)) = args /\ PieceBlock(Tail(body)) = block
  <1> DEFINE body == Body(Message(MsgPiece, args, block, {}))
  <1>1. MsgPiece \in Byte /\ MsgPiece # MsgBitfield
    BY Constants DEF MsgPiece, MsgBitfield
  <1>2. /\ PutWords(args) \in Seq(Byte) /\ Len(PutWords(args)) = 2 * WordBytes
        /\ Words(PutWords(args)) = args
    BY PutWordsType, WordsBack
  <1>3. HasBody(Message(MsgPiece, args, block, {}), MsgPiece, PutWords(args) \o block)
    BY <1>1, <1>2, BodyParts
  <1>4. /\ body \in Seq(Byte) /\ Len(body) > 0 /\ body[1] = MsgPiece
        /\ Tail(body) = PutWords(args) \o block
    BY <1>3, Zenon DEF HasBody
  <1>5. PICK a \in Seq(Byte), n \in Nat : a = PutWords(args) /\ n = 2 * WordBytes
    <2>1. 2 * WordBytes \in Nat
      BY Constants
    <2>2. QED
      BY <1>2, <2>1, Zenon
  <1>6. Len(a) = n
    BY <1>2, <1>5, Zenon
  <1>7. PICK p \in Seq(Byte) : p = a \o block
    BY ConcatProperties
  <1>8. /\ Len(p) = n + Len(block) /\ Len(block) \in Nat
        /\ \A i \in 1 .. n : p[i] = a[i]
        /\ \A i \in 1 .. Len(block) : p[n + i] = block[i]
    <2>1. /\ Len(a \o block) = Len(a) + Len(block) /\ Len(block) \in Nat
          /\ \A i \in 1 .. Len(a) : (a \o block)[i] = a[i]
          /\ \A i \in 1 .. Len(block) : (a \o block)[Len(a) + i] = block[i]
      OBVIOUS
    <2>2. QED
      BY <1>6, <1>7, <2>1, Zenon
  <1>9. SubSeq(p, 1, n) = a
    <2>1. /\ SubSeq(p, 1, n) \in Seq(Byte) /\ Len(SubSeq(p, 1, n)) = n
          /\ \A i \in 1 .. n : SubSeq(p, 1, n)[i] = p[i]
      BY <1>8
    <2>2. QED
      BY <1>6, <1>8, <2>1, SeqEqual
  <1>10. SubSeq(p, n + 1, Len(p)) = block
    <2>1. /\ SubSeq(p, n + 1, Len(p)) \in Seq(Byte)
          /\ Len(SubSeq(p, n + 1, Len(p))) = Len(block)
          /\ \A i \in 1 .. Len(block) : SubSeq(p, n + 1, Len(p))[i] = p[n + i]
      BY <1>8
    <2>2. PICK t \in Seq(Byte) : t = SubSeq(p, n + 1, Len(p))
      BY <2>1, Zenon
    <2>3. Len(t) = Len(block) /\ \A i \in 1 .. Len(t) : t[i] = block[i]
      <3>1. Len(t) = Len(block) /\ \A i \in 1 .. Len(block) : t[i] = p[n + i]
        BY <2>1, <2>2, Zenon
      <3>2. QED
        BY <1>8, <3>1
    <2>4. QED
      BY <2>2, <2>3, SeqEqual
  <1>11. Tail(body) = p
    BY <1>4, <1>5, <1>7, Zenon
  <1>12. Len(p) >= n
    BY <1>8
  <1>13. PieceHeader(p) = args /\ PieceBlock(p) = block
    BY <1>2, <1>5, <1>9, <1>10, Zenon DEF PieceHeader, PieceBlock
  <1>14. QED
    BY <1>4, <1>5, <1>11, <1>12, <1>13, Zenon

\* Reading a message of another kind.
LEMMA OtherBack ==
    ASSUME NEW id \in OtherIDs, NEW block \in Seq(Byte)
    PROVE  LET body == Body(Message(id, <<>>, block, {}))
           IN  /\ body \in Seq(Byte) /\ Len(body) > 0 /\ body[1] = id
               /\ Tail(body) = block
  <1> DEFINE body == Body(Message(id, <<>>, block, {}))
  <1>1. id \in Byte /\ id # MsgBitfield /\ PutWords(<<>>) = <<>> /\ <<>> \in Seq(Byte)
    BY PutNoWords, EmptySeq DEF OtherIDs
  <1>2. HasBody(Message(id, <<>>, block, {}), id, PutWords(<<>>) \o block)
    BY <1>1, BodyParts
  <1>3. /\ body \in Seq(Byte) /\ Len(body) > 0 /\ body[1] = id
        /\ Tail(body) = PutWords(<<>>) \o block
    BY <1>2, Zenon DEF HasBody
  <1>4. <<>> \o block = block
    BY ConcatEmptySeq
  <1>5. QED
    BY <1>1, <1>3, <1>4, Zenon

\* A message that is not one of the kinds is not accepted.
LEMMA MessageCases ==
    ASSUME NEW m \in Messages
    PROVE  /\ FitsWord(Len(Body(m)))
           /\ \/ m \in MessageType
              \/ /\ m.id = Malformed /\ Body(m) = m.block
                 /\ m.block \in Seq(Byte) /\ m.block # <<>> /\ ~Acceptable(m.block)
  <1>1. FitsWord(Len(Body(m)))
    BY MessagesAssumption
  <1>2. CASE m \in MessageType
    BY <1>1, <1>2
  <1>3. CASE /\ m \in [id : {Malformed}, args : {<<>>}, block : Seq(Byte), pieces : {{}}]
             /\ m.block # <<>> /\ ~Acceptable(m.block)
    <2>1. m.id = Malformed /\ m.block \in Seq(Byte)
      BY <1>3
    <2>2. Body(m) = m.block
      BY <2>1 DEF Body, Malformed, KeepAlive
    <2>3. QED
      BY <1>1, <1>3, <2>1, <2>2
  <1>4. QED
    BY <1>2, <1>3, MessagesAssumption

\* A keep-alive has no body.
LEMMA KeepAliveBody ==
    Body(Message(KeepAlive, <<>>, <<>>, {})) = <<>>
  BY DEF Body, Message

\* The body of a message is bytes, and empty only for a keep-alive.
LEMMA BodyType ==
    ASSUME NEW m \in Messages
    PROVE  /\ Body(m) \in Seq(Byte)
           /\ Len(Body(m)) = 0 => m = Message(KeepAlive, <<>>, <<>>, {})
  <1>1. CASE m.id = Malformed /\ Body(m) = m.block /\ m.block \in Seq(Byte) /\ m.block # <<>>
    <2>1. Len(m.block) # 0
      BY <1>1, EmptySeq
    <2>2. QED
      BY <1>1, <2>1
  <1>2. CASE m = Message(KeepAlive, <<>>, <<>>, {})
    BY <1>2, KeepAliveBody, EmptySeq
  <1>3. ASSUME Body(m) \in Seq(Byte), Len(Body(m)) > 0
        PROVE  /\ Body(m) \in Seq(Byte)
               /\ Len(Body(m)) = 0 => m = Message(KeepAlive, <<>>, <<>>, {})
    BY <1>3
  <1>4. CASE m \in MessageType
    <2>1. CASE \E args \in [1 .. 1 -> Numbers] : m = Message(MsgHave, args, <<>>, {})
      BY <1>3, <2>1, HaveBack, Zenon
    <2>2. CASE \E pieces \in SUBSET Pieces : m = Message(MsgBitfield, <<>>, <<>>, pieces)
      BY <1>3, <2>2, BitfieldMessageBack, Zenon
    <2>3. CASE \E args \in Seq(Numbers) : m = Message(MsgRequest, args, <<>>, {})
      BY <1>3, <2>3, RequestBack, Zenon
    <2>4. CASE \E args \in [1 .. 2 -> Numbers], block \in Seq(Byte) :
                   m = Message(MsgPiece, args, block, {})
      BY <1>3, <2>4, PieceBack, Zenon
    <2>5. CASE \E id \in OtherIDs, block \in Seq(Byte) : m = Message(id, <<>>, block, {})
      BY <1>3, <2>5, OtherBack, Zenon
    <2>6. QED
      BY <1>2, <1>4, <2>1, <2>2, <2>3, <2>4, <2>5, MessageKinds, Zenon
  <1>5. QED
    BY <1>1, <1>4, MessageCases, Zenon

\* A message is written as bytes.
LEMMA SerializeType ==
    ASSUME NEW m \in Messages
    PROVE  /\ Serialize(m) \in Seq(Byte)
           /\ PutWord(Len(Body(m))) \in Seq(Byte) /\ Len(PutWord(Len(Body(m)))) = WordBytes
           /\ Serialize(m) = PutWord(Len(Body(m))) \o Body(m)
  <1>1. Body(m) \in Seq(Byte)
    BY BodyType
  <1>2. Len(Body(m)) \in Nat
    BY <1>1
  <1>3. PICK word \in [1 .. WordBytes -> Byte] : word = PutWord(Len(Body(m)))
    BY <1>2, PutWordType
  <1>4. word \in Seq(Byte) /\ Len(word) = WordBytes
    BY Constants
  <1>5. Serialize(m) = PutWord(Len(Body(m))) \o Body(m)
    BY Zenon DEF Serialize
  <1>6. word \o Body(m) \in Seq(Byte)
    BY <1>1, <1>4, ConcatProperties
  <1>7. QED
    BY <1>3, <1>4, <1>5, <1>6, Zenon

\* What ReadBody does with the body of a message of the peer: it is refused only
\* when it is wrong, else the worker is handed the very message.
LEMMA BodyRead ==
    ASSUME NEW m \in Messages, buffer = Body(m), Len(buffer) \in 1 .. MaxMessageSize,
           ReadBody
    PROVE  \/ Refuse /\ ~WellFormed(m)
           \/ /\ m \in MessageType /\ Handle(m, After(bitfield, m))
              /\ m.id = MsgHave => m.args[1] \in Pieces
  <1> DEFINE payload == Tail(buffer)
             Goal == \/ Refuse /\ ~WellFormed(m)
                     \/ /\ m \in MessageType /\ Handle(m, After(bitfield, m))
                        /\ m.id = MsgHave => m.args[1] \in Pieces
  <1>1. /\ buffer[1] = MsgBitfield =>
               IF BitfieldValid(payload)
               THEN Handle(Message(buffer[1], <<>>, <<>>, ParseBitfield(payload)),
                           ParseBitfield(payload))
               ELSE Refuse
        /\ buffer[1] = MsgHave =>
               IF HaveValid(payload)
               THEN Handle(Message(buffer[1], Words(payload), <<>>, {}),
                           bitfield \cup {Word(payload, 0)})
               ELSE Refuse
        /\ buffer[1] = MsgPiece =>
               IF PieceValid(payload)
               THEN Handle(Message(buffer[1], PieceHeader(payload),
                                   PieceBlock(payload), {}), bitfield)
               ELSE Refuse
        /\ buffer[1] = MsgRequest =>
               Handle(Message(buffer[1], Words(payload), <<>>, {}), bitfield)
        /\ buffer[1] \notin {MsgBitfield, MsgHave, MsgPiece, MsgRequest} =>
               Handle(Message(buffer[1], <<>>, payload, {}), bitfield)
    <2>1. /\ MsgBitfield # MsgHave /\ MsgBitfield # MsgPiece /\ MsgBitfield # MsgRequest
          /\ MsgHave # MsgPiece /\ MsgHave # MsgRequest /\ MsgPiece # MsgRequest
      BY DEF MsgBitfield, MsgHave, MsgPiece, MsgRequest
    <2> HIDE DEF payload
    <2>2. CASE buffer[1] = MsgBitfield
      BY <2>1, <2>2, Zenon DEF ReadBody, payload
    <2>3. CASE buffer[1] = MsgHave
      BY <2>1, <2>3, Zenon DEF ReadBody, payload
    <2>4. CASE buffer[1] = MsgPiece
      BY <2>1, <2>4, Zenon DEF ReadBody, payload
    <2>5. CASE buffer[1] = MsgRequest
      BY <2>1, <2>5, Zenon DEF ReadBody, payload
    <2>6. CASE buffer[1] \notin {MsgBitfield, MsgHave, MsgPiece, MsgRequest}
      BY <2>1, <2>6, Zenon DEF ReadBody, payload
    <2>7. QED
      BY <2>2, <2>3, <2>4, <2>5, <2>6, Zenon
  <1> HIDE DEF payload
  <1>2. CASE /\ m.id = Malformed /\ Body(m) = m.block
             /\ m.block \in Seq(Byte) /\ m.block # <<>> /\ ~Acceptable(m.block)
    <2>1. ~WellFormed(m)
      BY <1>2 DEF WellFormed
    <2>2. WithinLimit(Len(buffer))
      BY Constants DEF WithinLimit
    <2>3. \/ buffer[1] = MsgBitfield /\ ~BitfieldValid(payload)
          \/ buffer[1] = MsgHave /\ ~HaveValid(payload)
          \/ buffer[1] = MsgPiece /\ ~PieceValid(payload)
      BY <1>2, <2>2, Zenon DEF Acceptable, payload
    <2>4. Refuse
      BY <1>1, <2>3, Zenon
    <2>5. QED
      BY <2>1, <2>4
  <1>3. CASE m = Message(KeepAlive, <<>>, <<>>, {})
    BY <1>3, KeepAliveBody, EmptySeq
  <1>4. ASSUME NEW args \in [1 .. 1 -> Numbers], m = Message(MsgHave, args, <<>>, {}),
               m \in MessageType
        PROVE  Goal
    <2>1. m.id = MsgHave /\ m.args = args
      BY <1>4 DEF Message
    <2>2. /\ buffer[1] = MsgHave /\ Len(payload) = WordBytes
          /\ Words(payload) = args /\ Word(payload, 0) = args[1]
      BY <1>4, HaveBack, Zenon DEF payload
    <2>3. After(bitfield, m) = bitfield \cup {args[1]}
      BY <2>1 DEF After, MsgHave, MsgBitfield
    <2>4. CASE HaveValid(payload)
      <3>1. args[1] \in Pieces
        BY <2>2, <2>4, Zenon DEF HaveValid
      <3>2. Handle(m, After(bitfield, m))
        BY <1>1, <1>4, <2>2, <2>3, <2>4, Zenon
      <3>3. QED
        BY <1>4, <2>1, <3>1, <3>2, Zenon
    <2>5. CASE ~HaveValid(payload)
      <3>1. ~FitsInt(args) \/ args[1] \notin Pieces
        BY <2>2, <2>5, Zenon DEF HaveValid
      <3>2. ~WellFormed(m)
        BY <2>1, <3>1, Zenon DEF WellFormed
      <3>3. QED
        BY <1>1, <2>2, <2>5, <3>2, Zenon
    <2>6. QED
      BY <2>4, <2>5, Zenon
  <1>5. ASSUME NEW pieces \in SUBSET Pieces, m = Message(MsgBitfield, <<>>, <<>>, pieces),
               m \in MessageType
        PROVE  Goal
    <2>1. m.id = MsgBitfield /\ m.pieces = pieces /\ m.id # MsgHave
      BY <1>5 DEF Message, MsgBitfield, MsgHave
    <2>2. /\ buffer[1] = MsgBitfield /\ BitfieldValid(payload)
          /\ ParseBitfield(payload) = pieces
      BY <1>5, BitfieldMessageBack, Zenon DEF payload
    <2>3. After(bitfield, m) = pieces
      BY <2>1 DEF After, MsgHave, MsgBitfield
    <2>4. Handle(m, After(bitfield, m))
      BY <1>1, <1>5, <2>2, <2>3, Zenon
    <2>5. QED
      BY <1>5, <2>1, <2>4, Zenon
  <1>6. ASSUME m \in MessageType, m.id \notin {MsgBitfield, MsgHave}, Handle(m, bitfield)
        PROVE  Goal
    <2>1. After(bitfield, m) = bitfield
      BY <1>6 DEF After
    <2>2. QED
      BY <1>6, <2>1, Zenon
  <1>7. ASSUME NEW args \in Seq(Numbers), m = Message(MsgRequest, args, <<>>, {}),
               m \in MessageType
        PROVE  Goal
    <2>1. m.id \notin {MsgBitfield, MsgHave}
      BY <1>7 DEF Message, MsgRequest, MsgBitfield, MsgHave
    <2>2. buffer[1] = MsgRequest /\ Words(payload) = args
      BY <1>7, RequestBack, Zenon DEF payload
    <2>3. Handle(m, bitfield)
      BY <1>1, <1>7, <2>2, Zenon
    <2>4. QED
      BY <1>6, <1>7, <2>1, <2>3, Zenon
  <1>8. ASSUME NEW args \in [1 .. 2 -> Numbers], NEW block \in Seq(Byte),
               m = Message(MsgPiece, args, block, {}), m \in MessageType
        PROVE  Goal
    <2>1. m.id \notin {MsgBitfield, MsgHave} /\ m.id = MsgPiece /\ m.args = args
      BY <1>8 DEF Message, MsgPiece, MsgBitfield, MsgHave
    <2>2. /\ buffer[1] = MsgPiece /\ Len(payload) >= 2 * WordBytes
          /\ PieceHeader(payload) = args /\ PieceBlock(payload) = block
      BY <1>8, PieceBack, Zenon DEF payload
    <2>3. CASE PieceValid(payload)
      <3>1. Handle(m, bitfield)
        BY <1>1, <1>8, <2>2, <2>3, Zenon
      <3>2. QED
        BY <1>6, <1>8, <2>1, <3>1, Zenon
    <2>4. CASE ~PieceValid(payload)
      <3>1. ~FitsInt(args)
        BY <2>2, <2>4, Zenon DEF PieceValid
      <3>2. ~WellFormed(m)
        BY <2>1, <3>1, Zenon DEF WellFormed
      <3>3. QED
        BY <1>1, <2>2, <2>4, <3>2, Zenon
    <2>5. QED
      BY <2>3, <2>4, Zenon
  <1>9. ASSUME NEW id \in OtherIDs, NEW block \in Seq(Byte),
               m = Message(id, <<>>, block, {}), m \in MessageType
        PROVE  Goal
    <2>1. m.id = id /\ id \notin {MsgBitfield, MsgHave, MsgPiece, MsgRequest}
      BY <1>9 DEF Message, OtherIDs
    <2>2. buffer[1] = id /\ payload = block
      BY <1>9, OtherBack, Zenon DEF payload
    <2>3. Handle(m, bitfield)
      BY <1>1, <1>9, <2>1, <2>2, Zenon
    <2>4. QED
      BY <1>6, <1>9, <2>1, <2>3, Zenon
  <1>10. m \in MessageType => Goal
    BY <1>3, <1>4, <1>5, <1>7, <1>8, <1>9, MessageKinds, Zenon
  <1>11. QED
    BY <1>2, <1>10, MessageCases, Zenon

-----------------------------------------------------------------------------
(* The pieces that messages name.                                          *)

\* A message names pieces.
LEMMA AfterType ==
    ASSUME NEW pieces \in SUBSET Nat, NEW m \in MessageType
    PROVE  After(pieces, m) \in SUBSET Nat
  <1>1. m.id = MsgBitfield => m.pieces \in SUBSET Nat
    BY Constants DEF MessageType, Pieces, MsgBitfield, MsgHave, MsgRequest, MsgPiece,
                     KeepAlive
  <1>2. m.id = MsgHave => m.args[1] \in Nat
    BY Constants DEF MessageType, MsgBitfield, MsgHave, MsgRequest, MsgPiece, KeepAlive
  <1>3. QED
    BY <1>1, <1>2 DEF After

\* Said adds up the messages one after the other.
Tells(f, messages) ==
    /\ f[0] = {}
    /\ \A k \in 1 .. Len(messages) : f[k] = After(f[k - 1], messages[k])
    /\ Said(messages) = f[Len(messages)]

\* Said goes through the messages one by one.
LEMMA SaidSteps ==
    ASSUME NEW messages \in Seq(MessageType)
    PROVE  \E f : Tells(f, messages)
  <1> DEFINE top == Len(messages)
             Rule(f) == f = [n \in 0 .. top |->
                               IF n = 0 THEN {} ELSE After(f[n - 1], messages[n])]
             step == [n \in Nat |-> [x \in SUBSET Nat |->
                         IF n \in 1 .. top THEN After(x, messages[n]) ELSE x]]
             said == CHOOSE f : Rule(f)
  <1>1. top \in Nat /\ \A n \in 1 .. top : messages[n] \in MessageType
    OBVIOUS
  <1>2. step \in [Nat -> [SUBSET Nat -> SUBSET Nat]]
    <2>1. ASSUME NEW n \in Nat, NEW x \in SUBSET Nat
          PROVE  (IF n \in 1 .. top THEN After(x, messages[n]) ELSE x) \in SUBSET Nat
      BY <1>1, AfterType
    <2>2. QED
      BY <2>1, Zenon
  <1>3. PICK f \in [0 .. top -> SUBSET Nat] : f[0] = {} /\ Follows(f, step, top)
    <2>1. {} \in SUBSET Nat
      OBVIOUS
    <2> HIDE DEF step, top
    <2>2. QED
      BY <1>1, <1>2, <2>1, BoundedRecursion
  <1>4. Rule(f)
    <2>1. ASSUME NEW k \in 0 .. top
          PROVE  f[k] = IF k = 0 THEN {} ELSE After(f[k - 1], messages[k])
      <3>1. CASE k = 0
        BY <1>3, <3>1
      <3>2. CASE k # 0
        <4>1. /\ k - 1 \in 0 .. top - 1 /\ (k - 1) + 1 = k /\ k \in 1 .. top /\ k \in Nat
              /\ k - 1 \in 0 .. top
          BY <1>1, <3>2
        <4>2. f[k - 1] \in SUBSET Nat
          BY <1>3, <4>1
        <4>3. f[k] = step[k][f[k - 1]]
          <5> HIDE DEF step, top
          <5>1. QED
            BY <1>3, <4>1 DEF Follows
        <4>4. step[k][f[k - 1]] = After(f[k - 1], messages[k])
          BY <4>1, <4>2, Zenon
        <4>5. QED
          BY <3>2, <4>3, <4>4, Zenon
      <3>3. QED
        BY <3>1, <3>2
    <2>2. QED
      BY <1>3, <2>1
  <1>5. Rule(said)
    BY <1>4, Zenon
  <1>6. Said(messages) = said[top]
    BY Zenon DEF Said
  <1> HIDE DEF said
  <1>7. said[0] = {}
    BY <1>1, <1>5
  <1>8. ASSUME NEW k \in 1 .. top PROVE said[k] = After(said[k - 1], messages[k])
    <2>1. k \in 0 .. top /\ k # 0
      BY <1>1
    <2> HIDE DEF top
    <2>2. QED
      BY <1>5, <2>1
  <1>9. QED
    BY <1>6, <1>7, <1>8, Zenon DEF Tells

\* Without messages no piece has been named.
LEMMA SaidNothing == Said(<<>>) = {}
  <1>1. <<>> \in Seq(MessageType) /\ Len(<<>>) = 0
    BY EmptySeq
  <1>2. PICK f : Tells(f, <<>>)
    BY <1>1, SaidSteps
  <1>3. QED
    BY <1>1, <1>2 DEF Tells

\* One more message adds what it names.
LEMMA SaidMore ==
    ASSUME NEW s \in Seq(MessageType), NEW m \in MessageType
    PROVE  Said(Append(s, m)) = After(Said(s), m)
  <1> DEFINE n == Len(s)
  <1>1. PICK t \in Seq(MessageType) : t = Append(s, m)
    BY AppendProperties
  <1>2. n \in Nat /\ Len(t) = n + 1 /\ t[n + 1] = m /\ \A i \in 1 .. n : t[i] = s[i]
    BY <1>1
  <1>3. PICK f : Tells(f, s)
    BY SaidSteps
  <1>4. PICK g : Tells(g, t)
    BY SaidSteps
  <1> DEFINE S == {k \in 0 .. n : f[k] = g[k]}
  <1>5. 0 \in S
    <2>1. 0 \in 0 .. n
      BY <1>2
    <2>2. f[0] = {} /\ g[0] = {}
      BY <1>3, <1>4, Zenon DEF Tells
    <2>3. QED
      BY <2>1, <2>2
  <1>6. ASSUME NEW k \in 0 .. n - 1, k \in S PROVE k + 1 \in S
    <2>1. /\ k + 1 \in 1 .. n /\ k + 1 \in 0 .. n /\ k + 1 \in 1 .. n + 1
          /\ (k + 1) - 1 = k
      BY <1>2
    <2>2. f[k + 1] = After(f[k], s[k + 1])
      BY <1>3, <2>1 DEF Tells
    <2>3. g[k + 1] = After(g[k], t[k + 1])
      BY <1>2, <1>4, <2>1 DEF Tells
    <2>4. QED
      BY <1>2, <1>6, <2>1, <2>2, <2>3
  <1>7. \A k \in 0 .. n : k \in S
    <2> HIDE DEF S, n
    <2>1. QED
      BY <1>2, <1>5, <1>6, Induction
  <1>8. f[n] = g[n] /\ (n + 1) - 1 = n /\ n + 1 \in 1 .. n + 1
    BY <1>2, <1>7
  <1>9. Said(s) = f[n] /\ Said(t) = g[n + 1]
    BY <1>2, <1>3, <1>4 DEF Tells
  <1>10. g[n + 1] = After(g[n], m)
    BY <1>2, <1>4, <1>8 DEF Tells
  <1>11. QED
    BY <1>1, <1>8, <1>9, <1>10

-----------------------------------------------------------------------------
(* The handshake.                                                          *)

\* Where the parts of a handshake are in its bytes.
LEMMA HandshakeBytes ==
    ASSUME NEW h \in Hellos
    PROVE  LET H == SerializeHandshake(h)
               n == Len(h.protocol)
           IN  /\ H \in Seq(Byte) /\ n \in Nat /\ Len(H) = n + 4
               /\ h.protocol \in Seq(Byte)
               /\ H[1] = n
               /\ Tail(H) \in Seq(Byte) /\ Len(Tail(H)) = n + 3
               /\ H = <<n>> \o Tail(H) /\ <<n>> \in Seq(Byte) /\ Len(<<n>>) = 1
               /\ SubSeq(Tail(H), 1, n) = h.protocol
               /\ Tail(H)[n + 2] = h.infoHash
  <1> DEFINE H == SerializeHandshake(h)
             p == h.protocol
             n == Len(p)
  <1>1. p \in Seq(Byte) /\ n \in Nat /\ n \in Byte /\ h.infoHash \in Byte /\ 0 \in Byte
    <2>1. h \in [protocol : Seq(Byte), infoHash : Byte] /\ n \in Byte
      BY WireAssumption, Zenon
    <2>2. p \in Seq(Byte) /\ h.infoHash \in Byte
      BY <2>1
    <2>3. 0 \in Byte /\ n \in Nat
      BY <2>1, Constants
    <2>4. QED
      BY <2>1, <2>2, <2>3
  <1>2. H = (<<n>> \o p) \o <<0, h.infoHash, 0>>
    BY DEF SerializeHandshake
  <1> HIDE DEF H, p
  <1>3. PICK a \in Seq(Byte), z \in Seq(Byte) : a = <<n>> /\ z = <<0, h.infoHash, 0>>
    <2>1. <<n>> \in Seq(Byte) /\ <<0, h.infoHash, 0>> \in Seq(Byte)
      BY <1>1
    <2>2. QED
      BY <2>1, Zenon
  <1>4. Len(a) = 1 /\ Len(z) = 3 /\ z[2] = h.infoHash
    BY <1>3
  <1>5. PICK t \in Seq(Byte) : t = p \o z
    BY <1>1, ConcatProperties
  <1>6. H = <<n>> \o t
    <2>1. PICK q \in Seq(Byte) : q = p
      BY <1>1, Zenon
    <2>2. (a \o q) \o z = a \o (q \o z)
      <3>1. Joins(a, q, z)
        BY BytesJoin
      <3>2. QED
        BY <3>1, Zenon DEF Joins
    <2>3. QED
      BY <1>2, <1>3, <1>5, <2>1, <2>2, Zenon
  <1>7. H \in Seq(Byte) /\ Len(H) = Len(t) + 1 /\ H[1] = n /\ Tail(H) = t
    BY <1>1, <1>6, HeadAndTail
  <1>8. /\ Len(t) = n + 3 /\ t[n + 2] = h.infoHash
        /\ \A i \in 1 .. n : t[i] = p[i]
    <2>1. /\ Len(p \o z) = Len(p) + Len(z)
          /\ \A i \in 1 .. Len(p) : (p \o z)[i] = p[i]
          /\ \A i \in 1 .. Len(z) : (p \o z)[Len(p) + i] = z[i]
      BY <1>1
    <2>2. 2 \in 1 .. Len(z)
      BY <1>4
    <2>3. QED
      BY <1>4, <1>5, <2>1, <2>2
  <1>9. SubSeq(t, 1, n) = p
    <2>1. /\ SubSeq(t, 1, n) \in Seq(Byte) /\ Len(SubSeq(t, 1, n)) = n
          /\ \A i \in 1 .. n : SubSeq(t, 1, n)[i] = t[i]
      BY <1>1, <1>8
    <2>2. PICK u \in Seq(Byte) : u = SubSeq(t, 1, n)
      BY <2>1, Zenon
    <2>3. Len(u) = Len(p) /\ \A i \in 1 .. Len(u) : u[i] = p[i]
      BY <1>8, <2>1, <2>2
    <2>4. QED
      BY <1>1, <2>2, <2>3, SeqEqual
  <1>10. QED
    <2>1. Len(H) = n + 4
      BY <1>1, <1>7, <1>8
    <2>2. <<n>> \in Seq(Byte) /\ Len(<<n>>) = 1
      BY <1>3, <1>4, Zenon
    <2>3. QED
      BY <1>1, <1>6, <1>7, <1>8, <1>9, <2>1, <2>2, Zenon DEF H, p

\* performHandshake accepts the proper handshake and no other.
LEMMA ValidateBack ==
    ASSUME NEW h \in Hellos
    PROVE  Validate(Tail(SerializeHandshake(h))) <=> Proper(h)
  <1>1. PICK t \in Seq(Byte), n \in Nat :
            /\ t = Tail(SerializeHandshake(h)) /\ n = Len(h.protocol)
            /\ Len(t) = n + 3
            /\ SubSeq(t, 1, n) = h.protocol /\ t[n + 2] = h.infoHash
    BY HandshakeBytes, Zenon
  <1>2. Len(t) - 3 = n /\ Len(t) - 1 = n + 2
    BY <1>1
  <1>3. QED
    BY <1>1, <1>2, Zenon DEF Validate, Proper

-----------------------------------------------------------------------------
(* The inductive invariant.                                                *)

\* What the reader has read of its next field and what it may still read.
Ahead == buffer \o (wire \o outgoing)

Handshake == SerializeHandshake(hello)

\* w[i] is how the i-th message and those after it are written.
Frames(w) ==
    /\ w \in [1 .. Len(sent) + 1 -> Seq(Byte)]
    /\ w[Len(sent) + 1] = <<>>
    /\ \A i \in 1 .. Len(sent) : w[i] = Serialize(sent[i]) \o w[i + 1]

\* The field that is being read lies ahead whole, and after it all that was
\* written after it, wherever the stream was cut.
Position(w) ==
    /\ phase = "protocolLength" =>
           need = 1 /\ got = <<>> /\ Ahead = Handshake \o w[1]
    /\ phase = "handshake" =>
           /\ need = Len(Handshake) - 1 /\ got = <<>>
           /\ Ahead = Tail(Handshake) \o w[1]
    /\ phase = "length" => need = WordBytes /\ Ahead = w[Len(got) + 1]
    /\ phase = "message" =>
           /\ Len(got) + 1 \in 1 .. Len(sent)
           /\ need = Len(Body(sent[Len(got) + 1]))
           /\ Ahead = Body(sent[Len(got) + 1]) \o w[Len(got) + 2]

StreamInv == \E w : Frames(w) /\ Position(w)

\* What was handled is the beginning of what was sent.
HeardInv ==
    /\ Len(got) <= Len(sent) /\ \A i \in 1 .. Len(got) : got[i] = sent[i]
    /\ bitfield = Said(got)
    /\ phase \in {"length", "message"} => Proper(hello)
    /\ StrangersUnheard
    /\ HonestPeerKept

WireInv == TypeOK /\ StreamInv /\ HeardInv

-----------------------------------------------------------------------------

\* The handshake is to be written, and nothing has been read.
LEMMA InitInv == Init => WireInv
  <1> SUFFICES ASSUME Init PROVE WireInv
    OBVIOUS
  <1>1. /\ hello \in Hellos /\ sent = <<>> /\ outgoing = Handshake /\ wire = <<>>
        /\ buffer = <<>> /\ got = <<>> /\ bitfield = {} /\ phase = "protocolLength"
        /\ need = 1 /\ ended = FALSE
    BY DEF Init, Handshake
  <1>2. Handshake \in Seq(Byte)
    BY <1>1, HandshakeBytes, Zenon DEF Handshake
  <1>3. Ahead = Handshake
    BY <1>1, <1>2, ConcatEmptySeq DEF Ahead
  <1>4. TypeOK
    <2>1. /\ sent \in Seq(Messages) /\ Len(sent) <= MaxMessages
          /\ got \in Seq(MessageType) /\ wire \in Seq(Byte) /\ buffer \in Seq(Byte)
          /\ Len(buffer) <= need
      BY <1>1, WireAssumption, EmptySeq
    <2>2. need \in CASE phase = "message" -> 1 .. MaxMessageSize
                     [] phase = "handshake" -> 1 .. HandshakeRest(MaxProtocol)
                     [] OTHER -> Nat
      BY <1>1
    <2>3. ended \in BOOLEAN /\ bitfield \in SUBSET Pieces
      BY <1>1
    <2>4. QED
      BY <1>1, <1>2, <2>1, <2>2, <2>3 DEF TypeOK
  <1>5. StreamInv
    <2> DEFINE w == [i \in 1 .. Len(sent) + 1 |-> <<>>]
    <2>1. Len(sent) = 0
      BY <1>1
    <2>2. w \in [1 .. Len(sent) + 1 -> Seq(Byte)] /\ w[Len(sent) + 1] = <<>> /\ w[1] = <<>>
      BY <2>1, EmptySeq
    <2> HIDE DEF w
    <2>3. Frames(w)
      BY <2>1, <2>2 DEF Frames
    <2>4. Ahead = Handshake \o w[1]
      BY <1>2, <1>3, <2>2, ConcatEmptySeq
    <2>5. Position(w)
      BY <1>1, <2>4 DEF Position
    <2>6. QED
      BY <2>3, <2>5 DEF StreamInv
  <1>6. HeardInv
    BY <1>1, SaidNothing DEF HeardInv, StrangersUnheard, HonestPeerKept
  <1>7. QED
    BY <1>4, <1>5, <1>6 DEF WireInv

\* A step that the reader and its stream do not notice.
LEMMA QuietStep ==
    ASSUME WireInv, TypeOK', UNCHANGED <<hello, sent, phase, need, got, bitfield>>,
           Ahead' = Ahead
    PROVE  WireInv'
  <1>1. PICK w : Frames(w) /\ Position(w)
    BY Zenon DEF WireInv, StreamInv
  <1>2. Frames(w)'
    BY <1>1 DEF Frames
  <1>3. Position(w)'
    BY <1>1 DEF Position, Handshake
  <1>4. HeardInv'
    BY DEF WireInv, HeardInv, StrangersUnheard, HonestPeerKept
  <1>5. QED
    BY <1>2, <1>3, <1>4, Zenon DEF WireInv, StreamInv

\* The types of the streams.
LEMMA StreamTypes ==
    ASSUME WireInv
    PROVE  /\ buffer \in Seq(Byte) /\ wire \in Seq(Byte) /\ outgoing \in Seq(Byte)
           /\ wire \o outgoing \in Seq(Byte) /\ Ahead \in Seq(Byte)
           /\ Handshake \in Seq(Byte) /\ Tail(Handshake) \in Seq(Byte)
           /\ hello \in Hellos
           /\ sent \in Seq(Messages) /\ Len(sent) \in Nat
           /\ got \in Seq(MessageType) /\ Len(got) \in 0 .. Len(sent)
           /\ bitfield \in SUBSET Pieces
  <1>1. /\ buffer \in Seq(Byte) /\ wire \in Seq(Byte) /\ outgoing \in Seq(Byte)
        /\ hello \in Hellos /\ sent \in Seq(Messages) /\ got \in Seq(MessageType)
        /\ bitfield \in SUBSET Pieces
    BY DEF WireInv, TypeOK
  <1>2. wire \o outgoing \in Seq(Byte)
    BY <1>1, ConcatProperties
  <1>3. Ahead \in Seq(Byte)
    BY <1>1, <1>2, ConcatProperties DEF Ahead
  <1>4. Handshake \in Seq(Byte) /\ Tail(Handshake) \in Seq(Byte)
    BY <1>1, HandshakeBytes, Zenon DEF Handshake
  <1>5. Len(sent) \in Nat /\ Len(got) \in Nat
    BY <1>1
  <1>6. Len(got) <= Len(sent)
    BY DEF WireInv, HeardInv
  <1>7. QED
    BY <1>1, <1>2, <1>3, <1>4, <1>5, <1>6

\* The peer starts the next message.
LEMMA WriteMessageStep == WireInv /\ WriteMessage => WireInv'
  <1> SUFFICES ASSUME WireInv, WriteMessage PROVE WireInv'
    OBVIOUS
  <1>1. PICK m \in Messages : sent' = Append(sent, m) /\ outgoing' = Serialize(m)
    BY DEF WriteMessage
  <1>2. /\ UNCHANGED <<hello, ended, wire, phase, need, buffer, got, bitfield>>
        /\ outgoing = <<>> /\ Len(sent) < MaxMessages
    BY DEF WriteMessage, readerVars
  <1>3. PICK s \in Seq(Byte) : s = Serialize(m)
    BY SerializeType
  <1>4. PICK n \in Nat : n = Len(sent)
    BY StreamTypes
  <1>5. /\ sent' \in Seq(Messages) /\ Len(sent') = n + 1 /\ sent'[n + 1] = m
        /\ \A i \in 1 .. n : sent'[i] = sent[i]
    <2>1. sent \in Seq(Messages)
      BY StreamTypes
    <2>2. QED
      BY <1>1, <1>4, <2>1
  <1>6. Ahead' = Ahead \o s
    <2>1. PICK b \in Seq(Byte), v \in Seq(Byte) : b = buffer /\ v = wire
      BY StreamTypes, Zenon
    <2>2. b \o (v \o s) = (b \o v) \o s
      <3>1. Joins(b, v, s)
        BY BytesJoin
      <3>2. QED
        BY <3>1, Zenon DEF Joins
    <2>3. v \o <<>> = v
      BY ConcatEmptySeq
    <2>4. QED
      BY <1>1, <1>2, <1>3, <2>1, <2>2, <2>3, Zenon DEF Ahead
  <1>7. TypeOK'
    <2>1. MaxMessages \in Nat /\ Len(sent') <= MaxMessages
      BY <1>2, <1>4, <1>5, WireAssumption
    <2>2. outgoing' \in Seq(Byte)
      BY <1>1, <1>3
    <2>3. QED
      BY <1>2, <1>5, <2>1, <2>2 DEF WireInv, TypeOK
  <1>8. PICK w : Frames(w) /\ Position(w)
    BY Zenon DEF WireInv, StreamInv
  <1>9. /\ w \in [1 .. n + 1 -> Seq(Byte)] /\ w[n + 1] = <<>>
        /\ \A i \in 1 .. n : w[i] = Serialize(sent[i]) \o w[i + 1]
    BY <1>4, <1>8 DEF Frames
  <1> DEFINE v == [i \in 1 .. n + 2 |-> IF i = n + 2 THEN <<>> ELSE w[i] \o s]
  <1>10. /\ v \in [1 .. n + 2 -> Seq(Byte)] /\ v[n + 2] = <<>>
         /\ \A i \in 1 .. n + 1 : v[i] = w[i] \o s
    <2>1. ASSUME NEW i \in 1 .. n + 1 PROVE w[i] \o s \in Seq(Byte)
      BY <1>9, ConcatProperties
    <2>2. ASSUME NEW i \in 1 .. n + 2
          PROVE  (IF i = n + 2 THEN <<>> ELSE w[i] \o s) \in Seq(Byte)
      BY <2>1, EmptySeq
    <2>3. \A i \in 1 .. n + 1 : i \in 1 .. n + 2 /\ i # n + 2
      OBVIOUS
    <2>4. n + 2 \in 1 .. n + 2
      OBVIOUS
    <2>5. QED
      BY <2>2, <2>3, <2>4, Zenon
  <1> HIDE DEF v
  <1>11. Frames(v)'
    <2>1. ASSUME NEW i \in 1 .. n + 1 PROVE v[i] = Serialize(sent'[i]) \o v[i + 1]
      <3>1. CASE i = n + 1
        <4>1. i + 1 = n + 2
          BY <3>1
        <4>2. v[i] = <<>> \o s /\ v[i + 1] = <<>> /\ sent'[i] = m
          BY <1>5, <1>9, <1>10, <3>1, <4>1, Zenon
        <4>3. <<>> \o s = s /\ s \o <<>> = s
          BY ConcatEmptySeq
        <4>4. QED
          BY <1>3, <4>2, <4>3, Zenon
      <3>2. CASE i # n + 1
        <4>1. i \in 1 .. n /\ i + 1 \in 1 .. n + 1
          BY <3>2
        <4>2. /\ v[i] = w[i] \o s /\ v[i + 1] = w[i + 1] \o s /\ sent'[i] = sent[i]
              /\ w[i] = Serialize(sent[i]) \o w[i + 1]
          BY <1>5, <1>9, <1>10, <4>1
        <4>3. PICK a \in Seq(Byte), b \in Seq(Byte) :
                  a = Serialize(sent[i]) /\ b = w[i + 1]
          <5>1. sent[i] \in Messages
            BY <1>4, <4>1, StreamTypes
          <5>2. QED
            BY <1>9, <4>1, <5>1, SerializeType
        <4>4. (a \o b) \o s = a \o (b \o s)
          <5>1. Joins(a, b, s)
            BY BytesJoin
          <5>2. QED
            BY <5>1, Zenon DEF Joins
        <4>5. QED
          BY <4>2, <4>3, <4>4, Zenon
      <3>3. QED
        BY <3>1, <3>2
    <2>2. Len(sent') = n + 1 /\ Len(sent') + 1 = n + 2
      BY <1>5
    <2>3. QED
      BY <1>10, <2>1, <2>2 DEF Frames
  <1>12. Position(v)'
    <2>1. ASSUME NEW x \in Seq(Byte), NEW k \in 1 .. n + 1, Ahead = x \o w[k]
          PROVE  Ahead' = x \o v[k]
      <3>1. PICK b \in Seq(Byte) : b = w[k]
        BY <1>9
      <3>2. (x \o b) \o s = x \o (b \o s)
        <4>1. Joins(x, b, s)
          BY BytesJoin
        <4>2. QED
          BY <4>1, Zenon DEF Joins
      <3>3. QED
        BY <1>6, <1>10, <2>1, <3>1, <3>2, Zenon
    <2>2. 1 \in 1 .. n + 1 /\ Handshake' = Handshake
      BY <1>2 DEF Handshake
    <2>3. phase = "protocolLength" => Ahead' = Handshake \o v[1]
      BY <1>8, <2>1, <2>2, StreamTypes, Zenon DEF Position
    <2>4. phase = "handshake" => Ahead' = Tail(Handshake) \o v[1]
      BY <1>8, <2>1, <2>2, StreamTypes, Zenon DEF Position
    <2>5. phase = "length" => Ahead' = v[Len(got) + 1]
      <3>1. Len(got) + 1 \in 1 .. n + 1
        BY <1>4, StreamTypes
      <3>2. v[Len(got) + 1] = w[Len(got) + 1] \o s
        BY <1>10, <3>1
      <3>3. QED
        BY <1>6, <1>8, <3>2 DEF Position
    <2>6. phase = "message" =>
              /\ Len(got) + 1 \in 1 .. Len(sent')
              /\ sent'[Len(got) + 1] = sent[Len(got) + 1]
              /\ Ahead' = Body(sent[Len(got) + 1]) \o v[Len(got) + 2]
      <3> SUFFICES ASSUME phase = "message"
                   PROVE  /\ Len(got) + 1 \in 1 .. Len(sent')
                          /\ sent'[Len(got) + 1] = sent[Len(got) + 1]
                          /\ Ahead' = Body(sent[Len(got) + 1]) \o v[Len(got) + 2]
        OBVIOUS
      <3>1. /\ Len(got) + 1 \in 1 .. n
            /\ Ahead = Body(sent[Len(got) + 1]) \o w[Len(got) + 2]
        BY <1>4, <1>8 DEF Position
      <3>2. Len(got) + 2 \in 1 .. n + 1 /\ Len(got) + 1 \in 1 .. n + 1
        <4>1. Len(got) \in Nat
          BY StreamTypes
        <4>2. QED
          BY <3>1, <4>1
      <3>3. Body(sent[Len(got) + 1]) \in Seq(Byte)
        BY <1>4, <3>1, StreamTypes, BodyType
      <3>4. QED
        BY <1>5, <2>1, <3>1, <3>2, <3>3
    <2>7. QED
      BY <1>2, <1>8, <2>2, <2>3, <2>4, <2>5, <2>6 DEF Position
  <1>13. HeardInv'
    <2>1. HeardInv /\ Len(got) \in 0 .. n
      BY <1>4, StreamTypes DEF WireInv
    <2>2. Len(got) <= Len(sent') /\ \A i \in 1 .. Len(got) : got[i] = sent'[i]
      BY <1>4, <1>5, <2>1 DEF HeardInv
    <2>3. Len(got) < Len(sent) =>
              Len(got) < Len(sent') /\ sent'[Len(got) + 1] = sent[Len(got) + 1]
      BY <1>4, <1>5, <2>1
    <2>4. HonestPeerKept'
      BY <1>2, <2>1, <2>3 DEF HeardInv, HonestPeerKept
    <2>5. QED
      BY <1>2, <2>1, <2>2, <2>4 DEF HeardInv, StrangersUnheard
  <1>14. QED
    BY <1>7, <1>11, <1>12, <1>13, Zenon DEF WireInv, StreamInv

\* The reader waits for a number of bytes.
LEMMA NeedNat == TypeOK => need \in Nat
  <1> SUFFICES ASSUME TypeOK PROVE need \in Nat
    OBVIOUS
  <1>1. MaxMessageSize \in Nat /\ HandshakeRest(MaxProtocol) \in Nat
    BY WireAssumption DEF HandshakeRest
  <1>2. QED
    BY <1>1 DEF TypeOK

\* Some of the bytes leave the peer.
LEMMA WriteSomeStep == WireInv /\ WriteSome => WireInv'
  <1> SUFFICES ASSUME WireInv, WriteSome PROVE WireInv'
    OBVIOUS
  <1>1. PICK n \in 1 .. Len(outgoing) :
            /\ wire' = wire \o SubSeq(outgoing, 1, n)
            /\ outgoing' = SubSeq(outgoing, n + 1, Len(outgoing))
    BY DEF WriteSome
  <1>2. UNCHANGED <<hello, sent, ended, phase, need, got, bitfield, buffer>>
    BY DEF WriteSome, readerVars
  <1>3. wire \in Seq(Byte) /\ outgoing \in Seq(Byte)
    BY StreamTypes
  <1>4. /\ wire' \in Seq(Byte) /\ outgoing' \in Seq(Byte)
        /\ wire' \o outgoing' = wire \o outgoing
    <2>1. PICK s \in Seq(Byte), t \in Seq(Byte) : s = wire /\ t = outgoing
      BY <1>3, Zenon
    <2>2. n \in 1 .. Len(t)
      BY <2>1, Zenon
    <2>3. Moves(Byte, s, t, n)
      BY <2>2, MoveFront
    <2>4. QED
      BY <1>1, <2>1, <2>3, Zenon DEF Moves
  <1>5. TypeOK'
    BY <1>2, <1>4 DEF WireInv, TypeOK
  <1>6. Ahead' = Ahead
    BY <1>2, <1>4, Zenon DEF Ahead
  <1>7. QED
    BY <1>2, <1>5, <1>6, QuietStep

\* Some of the bytes arrive.
LEMMA ReadSomeStep == WireInv /\ ReadSome => WireInv'
  <1> SUFFICES ASSUME WireInv, ReadSome PROVE WireInv'
    OBVIOUS
  <1>1. PICK n \in 1 .. Len(wire) :
            /\ n <= need - Len(buffer)
            /\ buffer' = buffer \o SubSeq(wire, 1, n)
            /\ wire' = SubSeq(wire, n + 1, Len(wire))
    BY DEF ReadSome
  <1>2. UNCHANGED <<hello, sent, outgoing, ended, phase, need, got, bitfield>>
    BY DEF ReadSome, peerVars
  <1>3. buffer \in Seq(Byte) /\ wire \in Seq(Byte) /\ outgoing \in Seq(Byte)
    BY StreamTypes
  <1>4. /\ buffer' \in Seq(Byte) /\ wire' \in Seq(Byte)
        /\ Len(buffer') = Len(buffer) + n
        /\ buffer' \o wire' = buffer \o wire
    <2>1. PICK s \in Seq(Byte), t \in Seq(Byte) : s = buffer /\ t = wire
      BY <1>3, Zenon
    <2>2. n \in 1 .. Len(t)
      BY <2>1, Zenon
    <2>3. Moves(Byte, s, t, n)
      BY <2>2, MoveFront
    <2>4. QED
      BY <1>1, <2>1, <2>3, Zenon DEF Moves
  <1>5. TypeOK'
    <2>1. need \in Nat /\ Len(buffer) \in Nat
      BY <1>3, NeedNat DEF WireInv
    <2>2. Len(buffer') <= need
      BY <1>1, <1>4, <2>1
    <2>3. QED
      BY <1>2, <1>4, <2>2 DEF WireInv, TypeOK
  <1>6. Ahead' = Ahead
    <2>1. Joins(buffer, wire, outgoing) /\ Joins(buffer', wire', outgoing)
      BY <1>3, <1>4, BytesJoin, Zenon
    <2>2. buffer \o (wire \o outgoing) = (buffer \o wire) \o outgoing
      BY <2>1, Zenon DEF Joins
    <2>3. buffer' \o (wire' \o outgoing) = (buffer' \o wire') \o outgoing
      BY <2>1, Zenon DEF Joins
    <2>4. QED
      BY <1>2, <1>4, <2>2, <2>3, Zenon DEF Ahead
  <1>7. QED
    BY <1>2, <1>5, <1>6, QuietStep

\* The reader stops.
LEMMA StopStep ==
    ASSUME WireInv, phase' \in {"refused", "cut"},
           UNCHANGED <<hello, sent, outgoing, ended, wire, need, buffer, got, bitfield>>,
           phase' = "refused" =>
               \/ ~Proper(hello)
               \/ Len(got) < Len(sent) /\ ~WellFormed(sent[Len(got) + 1])
    PROVE  WireInv'
  <1>1. TypeOK'
    <2>1. need \in Nat
      BY NeedNat DEF WireInv
    <2>2. QED
      BY <2>1 DEF WireInv, TypeOK
  <1>2. StreamInv'
    <2>1. PICK w : Frames(w) /\ Position(w)
      BY Zenon DEF WireInv, StreamInv
    <2>2. Frames(w)'
      BY <2>1 DEF Frames
    <2>3. Position(w)'
      BY DEF Position
    <2>4. QED
      BY <2>2, <2>3, Zenon DEF StreamInv
  <1>3. HeardInv'
    BY DEF WireInv, HeardInv, StrangersUnheard, HonestPeerKept
  <1>4. QED
    BY <1>1, <1>2, <1>3 DEF WireInv

\* io.ReadFull has returned the first of what lies ahead.
LEMMA FieldRead ==
    ASSUME WireInv, Filled, NEW f \in Seq(Byte), NEW r \in Seq(Byte),
           Ahead = f \o r, Len(f) = need
    PROVE  buffer = f /\ wire \o outgoing = r
  <1>1. PICK b \in Seq(Byte), u \in Seq(Byte) : b = buffer /\ u = wire \o outgoing
    BY StreamTypes, Zenon
  <1>2. b \o u = f \o r /\ Len(b) = Len(f)
    BY <1>1, Zenon DEF Ahead, Filled
  <1>3. QED
    BY <1>1, <1>2, SplitConcat

\* The next field is read from the rest.
LEMMA NextField ==
    ASSUME WireInv, buffer' = <<>>, UNCHANGED <<wire, outgoing>>
    PROVE  Ahead' = wire \o outgoing
  <1>1. PICK u \in Seq(Byte) : u = wire \o outgoing
    BY StreamTypes, Zenon
  <1>2. <<>> \o u = u
    BY ConcatEmptySeq
  <1>3. QED
    BY <1>1, <1>2, Zenon DEF Ahead

\* ReadHandshake has the length of the protocol string.
LEMMA ReadProtocolLengthStep == WireInv /\ ReadProtocolLength => WireInv'
  <1> SUFFICES ASSUME WireInv, ReadProtocolLength PROVE WireInv'
    OBVIOUS
  <1>1. /\ UNCHANGED <<hello, sent, outgoing, ended, wire>>
        /\ phase = "protocolLength" /\ Filled
    BY DEF ReadProtocolLength, peerVars
  <1>2. PICK w : Frames(w) /\ Position(w)
    BY Zenon DEF WireInv, StreamInv
  <1>3. need = 1 /\ got = <<>> /\ Ahead = Handshake \o w[1]
    BY <1>1, <1>2 DEF Position
  <1>4. PICK n \in Nat, t \in Seq(Byte), r \in Seq(Byte), h \in Seq(Byte) :
            /\ n = Len(hello.protocol) /\ t = Tail(Handshake) /\ r = w[1]
            /\ h = <<n>> /\ Len(h) = 1 /\ Handshake = h \o t
            /\ Len(Handshake) = n + 4
    <2>1. w[1] \in Seq(Byte)
      <3>1. 1 \in 1 .. Len(sent) + 1
        BY StreamTypes
      <3>2. QED
        BY <1>2, <3>1 DEF Frames
    <2>2. hello \in Hellos
      BY StreamTypes
    <2>3. QED
      BY <2>1, <2>2, HandshakeBytes, Zenon DEF Handshake
  <1>5. buffer = h /\ wire \o outgoing = t \o r
    <2>1. PICK x \in Seq(Byte) : x = t \o r
      BY ConcatProperties
    <2>2. (h \o t) \o r = h \o (t \o r)
      <3>1. Joins(h, t, r)
        BY BytesJoin
      <3>2. QED
        BY <3>1, Zenon DEF Joins
    <2>3. Ahead = h \o x
      BY <1>3, <1>4, <2>1, <2>2, Zenon
    <2>4. Len(h) = need
      BY <1>3, <1>4
    <2>5. buffer = h /\ wire \o outgoing = x
      BY <1>1, <2>3, <2>4, FieldRead
    <2>6. QED
      BY <2>1, <2>5, Zenon
  <1>6. buffer[1] = n
    BY <1>4, <1>5
  <1>7. CASE n = 0 \/ n > MaxProtocol
    <2>1. ~Proper(hello)
      <3>1. Len(ProtocolString) \in 1 .. MaxProtocol /\ MaxProtocol \in Nat
        BY WireAssumption
      <3>2. hello.protocol # ProtocolString
        BY <1>4, <1>7, <3>1
      <3>3. QED
        BY <3>2 DEF Proper
    <2>2. phase' = "refused" /\ UNCHANGED <<need, buffer, got, bitfield>>
      BY <1>6, <1>7 DEF ReadProtocolLength, Refuse
    <2>3. QED
      BY <1>1, <2>1, <2>2, StopStep
  <1>8. CASE ~(n = 0 \/ n > MaxProtocol)
    <2>1. /\ phase' = "handshake" /\ need' = n + 3 /\ buffer' = <<>>
          /\ UNCHANGED <<got, bitfield>>
      BY <1>6, <1>8 DEF ReadProtocolLength, Expect, HandshakeRest
    <2>2. TypeOK'
      <3>1. MaxProtocol \in Nat
        BY WireAssumption
      <3>2. need' \in 1 .. HandshakeRest(MaxProtocol) /\ buffer' \in Seq(Byte)
            /\ Len(buffer') <= need'
        BY <1>8, <2>1, <3>1, EmptySeq DEF HandshakeRest
      <3>3. QED
        BY <1>1, <2>1, <3>2 DEF WireInv, TypeOK
    <2>3. Frames(w)'
      BY <1>1, <1>2 DEF Frames
    <2>4. Position(w)'
      <3>1. Ahead' = t \o r
        BY <1>1, <1>5, <2>1, NextField
      <3>2. Handshake' = Handshake
        BY <1>1 DEF Handshake
      <3>3. need' = Len(Handshake) - 1
        BY <1>4, <2>1
      <3>4. Ahead' = Tail(Handshake') \o w[1]
        BY <1>4, <3>1, <3>2, Zenon
      <3>5. QED
        BY <1>3, <2>1, <3>2, <3>3, <3>4 DEF Position
    <2>5. HeardInv'
      BY <1>1, <1>3, <2>1 DEF WireInv, HeardInv, StrangersUnheard, HonestPeerKept
    <2>6. QED
      BY <2>2, <2>3, <2>4, <2>5, Zenon DEF WireInv, StreamInv
  <1>9. QED
    BY <1>7, <1>8

\* ReadHandshake has all of it, and validates it.
LEMMA ReadHandshakeStep == WireInv /\ ReadHandshake => WireInv'
  <1> SUFFICES ASSUME WireInv, ReadHandshake PROVE WireInv'
    OBVIOUS
  <1>1. /\ UNCHANGED <<hello, sent, outgoing, ended, wire>>
        /\ phase = "handshake" /\ Filled
    BY DEF ReadHandshake, peerVars
  <1>2. PICK w : Frames(w) /\ Position(w)
    BY Zenon DEF WireInv, StreamInv
  <1>3. need = Len(Handshake) - 1 /\ got = <<>> /\ Ahead = Tail(Handshake) \o w[1]
    BY <1>1, <1>2 DEF Position
  <1>4. PICK t \in Seq(Byte), r \in Seq(Byte) :
            t = Tail(Handshake) /\ r = w[1] /\ Len(t) = need
    <2>1. w[1] \in Seq(Byte)
      <3>1. 1 \in 1 .. Len(sent) + 1
        BY StreamTypes
      <3>2. QED
        BY <1>2, <3>1 DEF Frames
    <2>2. PICK n \in Nat : /\ Tail(Handshake) \in Seq(Byte)
                           /\ Len(Handshake) = n + 4 /\ Len(Tail(Handshake)) = n + 3
      BY StreamTypes, HandshakeBytes, Zenon DEF Handshake
    <2>3. Len(Tail(Handshake)) = need
      BY <1>3, <2>2
    <2>4. QED
      BY <2>1, <2>2, <2>3, Zenon
  <1>5. buffer = t /\ wire \o outgoing = r
    BY <1>1, <1>3, <1>4, FieldRead
  <1>6. Validate(buffer) <=> Proper(hello)
    BY <1>4, <1>5, StreamTypes, ValidateBack, Zenon DEF Handshake
  <1>7. CASE ~Proper(hello)
    <2>1. phase' = "refused" /\ UNCHANGED <<need, buffer, got, bitfield>>
      BY <1>6, <1>7, Zenon DEF ReadHandshake, Refuse
    <2>2. QED
      BY <1>1, <1>7, <2>1, StopStep
  <1>8. CASE Proper(hello)
    <2>1. /\ phase' = "length" /\ need' = WordBytes /\ buffer' = <<>>
          /\ UNCHANGED <<got, bitfield>>
      BY <1>6, <1>8, Zenon DEF ReadHandshake, Expect
    <2>2. TypeOK'
      <3>1. need' \in Nat /\ buffer' \in Seq(Byte) /\ Len(buffer') <= need'
        BY <2>1, EmptySeq, Constants
      <3>2. QED
        BY <1>1, <2>1, <3>1 DEF WireInv, TypeOK
    <2>3. Frames(w)'
      BY <1>1, <1>2 DEF Frames
    <2>4. Position(w)'
      <3>1. Ahead' = r
        BY <1>1, <1>5, <2>1, NextField
      <3>2. Len(got) + 1 = 1
        BY <1>3
      <3>3. QED
        BY <1>4, <2>1, <3>1, <3>2 DEF Position
    <2>5. HeardInv'
      <3>1. Proper(hello')
        BY <1>1, <1>8, Zenon
      <3>2. QED
        BY <1>1, <1>3, <2>1, <3>1 DEF WireInv, HeardInv, StrangersUnheard, HonestPeerKept
    <2>6. QED
      BY <2>2, <2>3, <2>4, <2>5, Zenon DEF WireInv, StreamInv
  <1>9. QED
    BY <1>7, <1>8

\* The message that is read next.
Current == sent[Len(got) + 1]

\* The worker is handed the message.
LEMMA HandledStep ==
    ASSUME WireInv, Proper(hello), UNCHANGED <<hello, sent, outgoing, ended, wire>>,
           Len(got) + 1 \in 1 .. Len(sent), Current \in MessageType,
           Current.id = MsgHave => Current.args[1] \in Pieces,
           Handle(Current, After(bitfield, Current)),
           NEW w, Frames(w), wire \o outgoing = w[Len(got) + 2]
    PROVE  WireInv'
  <1>1. PICK m \in MessageType : m = Current
    BY Zenon
  <1>2. /\ got' = Append(got, m) /\ bitfield' = After(bitfield, m)
        /\ phase' = "length" /\ need' = WordBytes /\ buffer' = <<>>
    BY <1>1 DEF Handle, Expect
  <1>3. got \in Seq(MessageType) /\ Len(got) \in 0 .. Len(sent) /\ Len(sent) \in Nat
        /\ bitfield \in SUBSET Pieces
    BY StreamTypes
  <1>4. /\ got' \in Seq(MessageType) /\ Len(got') = Len(got) + 1 /\ got' # <<>>
        /\ got'[Len(got) + 1] = m /\ \A i \in 1 .. Len(got) : got'[i] = got[i]
    BY <1>2, <1>3
  <1>5. TypeOK'
    <2>1. bitfield' \in SUBSET Pieces
      <3>1. m.id = MsgBitfield => m.pieces \in SUBSET Pieces
        BY Constants DEF MessageType, MsgBitfield, MsgHave, MsgRequest, MsgPiece,
                         KeepAlive
      <3>2. QED
        BY <1>1, <1>2, <1>3, <3>1 DEF After
    <2>2. need' \in Nat /\ buffer' \in Seq(Byte) /\ Len(buffer') <= need'
      BY <1>2, EmptySeq, Constants
    <2>3. QED
      BY <1>2, <1>4, <2>1, <2>2 DEF WireInv, TypeOK
  <1>6. Frames(w)'
    BY DEF Frames
  <1>7. Position(w)'
    <2>1. Ahead' = w[Len(got) + 2]
      BY <1>2, NextField
    <2>2. Len(got') + 1 = Len(got) + 2
      BY <1>3, <1>4
    <2>3. QED
      BY <1>2, <2>1, <2>2 DEF Position
  <1>8. HeardInv'
    <2>1. HeardInv
      BY DEF WireInv
    <2>2. Len(got') <= Len(sent) /\ \A i \in 1 .. Len(got') : got'[i] = sent[i]
      BY <1>1, <1>3, <1>4, <2>1 DEF HeardInv, Current
    <2>3. bitfield' = Said(got')
      BY <1>2, <1>3, <2>1, SaidMore DEF HeardInv
    <2>4. Proper(hello')
      BY Zenon
    <2>5. QED
      BY <1>2, <2>2, <2>3, <2>4 DEF HeardInv, StrangersUnheard, HonestPeerKept
  <1>9. QED
    BY <1>5, <1>6, <1>7, <1>8, Zenon DEF WireInv, StreamInv

\* What ReadLength reads is the length of the next message.
LEMMA LengthRead ==
    ASSUME WireInv, ReadLength
    PROVE  /\ Len(got) + 1 \in 1 .. Len(sent) /\ Current \in Messages
           /\ Proper(hello) /\ UNCHANGED <<hello, sent, outgoing, ended, wire>>
           /\ \E w : /\ Frames(w) /\ w[Len(got) + 2] \in Seq(Byte)
                     /\ wire \o outgoing = Body(Current) \o w[Len(got) + 2]
           /\ \/ /\ Current = Message(KeepAlive, <<>>, <<>>, {}) /\ Body(Current) = <<>>
                 /\ Handle(Current, bitfield)
              \/ Refuse /\ ~WellFormed(Current)
              \/ /\ Expect("message", Len(Body(Current)))
                 /\ Len(Body(Current)) \in 1 .. MaxMessageSize
                 /\ UNCHANGED <<got, bitfield>>
  <1>1. /\ UNCHANGED <<hello, sent, outgoing, ended, wire>>
        /\ phase = "length" /\ Filled /\ Proper(hello)
    BY DEF ReadLength, peerVars, WireInv, HeardInv
  <1>2. PICK w : Frames(w) /\ Position(w)
    BY Zenon DEF WireInv, StreamInv
  <1>3. PICK k \in Nat, n \in Nat : k = Len(got) /\ n = Len(sent) /\ k <= n
    BY StreamTypes
  <1>4. need = WordBytes /\ Ahead = w[k + 1]
    BY <1>1, <1>2, <1>3 DEF Position
  <1>5. k < n
    <2>1. Len(buffer) \in Nat /\ Len(buffer) > 0
      BY <1>1, <1>4, Constants, StreamTypes DEF Filled
    <2>2. Ahead # <<>>
      <3>1. PICK b \in Seq(Byte), u \in Seq(Byte) : b = buffer /\ u = wire \o outgoing
        BY StreamTypes, Zenon
      <3>2. Len(b \o u) = Len(b) + Len(u) /\ Len(u) \in Nat
        OBVIOUS
      <3>3. Len(b \o u) # 0
        BY <2>1, <3>1, <3>2
      <3>4. Len(<<>>) = 0
        BY EmptySeq
      <3>5. b \o u # <<>>
        BY <3>3, <3>4, Zenon
      <3>6. QED
        BY <3>1, <3>5, Zenon DEF Ahead
    <2>3. w[n + 1] = <<>>
      BY <1>2, <1>3 DEF Frames
    <2>4. k # n
      BY <1>4, <2>2, <2>3
    <2>5. QED
      BY <1>3, <2>4
  <1>6. k + 1 \in 1 .. n /\ k + 2 \in 1 .. n + 1 /\ (k + 1) + 1 = k + 2
    BY <1>5
  <1>7. PICK m \in Messages : m = Current
    BY <1>3, <1>6, StreamTypes DEF Current
  <1>8. PICK word \in Seq(Byte), body \in Seq(Byte), r \in Seq(Byte) :
            /\ word = PutWord(Len(Body(m))) /\ body = Body(m) /\ r = w[k + 2]
            /\ Len(word) = WordBytes /\ w[k + 1] = (word \o body) \o r
    <2>1. w[k + 2] \in Seq(Byte) /\ w[k + 1] = Serialize(m) \o w[k + 2]
      BY <1>2, <1>3, <1>6, <1>7 DEF Frames, Current
    <2>2. QED
      BY <2>1, SerializeType, BodyType, Zenon
  <1>9. buffer = word /\ wire \o outgoing = body \o r
    <2>1. PICK x \in Seq(Byte) : x = body \o r
      BY ConcatProperties
    <2>2. (word \o body) \o r = word \o (body \o r)
      <3>1. Joins(word, body, r)
        BY BytesJoin
      <3>2. QED
        BY <3>1, Zenon DEF Joins
    <2>3. Ahead = word \o x
      BY <1>4, <1>8, <2>1, <2>2, Zenon
    <2>4. Len(word) = need
      BY <1>4, <1>8
    <2>5. buffer = word /\ wire \o outgoing = x
      BY <1>1, <2>3, <2>4, FieldRead
    <2>6. QED
      BY <2>1, <2>5, Zenon
  <1>10. PICK length \in Nat : length = Len(body)
    OBVIOUS
  <1>11. Word(buffer, 0) = length
    <2>1. FitsWord(length)
      BY <1>8, <1>10, MessageCases
    <2>2. \A i \in 1 .. WordBytes : 0 + i = i
      BY Constants
    <2>3. \A i \in 1 .. WordBytes : buffer[0 + i] = PutWord(length)[i]
      BY <1>8, <1>9, <1>10, <2>2, Zenon
    <2>4. QED
      BY <2>1, <2>3, WordBack
  <1>12. \/ /\ m = Message(KeepAlive, <<>>, <<>>, {}) /\ Body(m) = <<>>
            /\ Handle(m, bitfield)
         \/ Refuse /\ ~WellFormed(m)
         \/ /\ Expect("message", Len(Body(m)))
            /\ Len(Body(m)) \in 1 .. MaxMessageSize
            /\ UNCHANGED <<got, bitfield>>
    <2>1. CASE length = 0
      <3>1. m = Message(KeepAlive, <<>>, <<>>, {})
        BY <1>8, <1>10, <2>1, BodyType
      <3>2. Body(m) = <<>>
        BY <3>1, KeepAliveBody, Zenon
      <3>3. /\ got' = Append(got, Message(KeepAlive, <<>>, <<>>, {}))
            /\ Expect("length", WordBytes) /\ bitfield' = bitfield
        BY <1>11, <2>1 DEF ReadLength
      <3>4. QED
        BY <3>1, <3>2, <3>3, Zenon DEF Handle
    <2>2. CASE length > 0 /\ ~WithinLimit(length)
      <3>1. Refuse
        <4>1. length # 0
          BY <2>2
        <4>2. QED
          BY <1>11, <2>2, <4>1, Zenon DEF ReadLength
      <3>2. ~WellFormed(m)
        BY <1>8, <1>10, <2>2, Zenon DEF WellFormed, WithinLimit
      <3>3. QED
        BY <3>1, <3>2
    <2>3. CASE length > 0 /\ WithinLimit(length)
      <3>1. Expect("message", length) /\ UNCHANGED <<got, bitfield>>
        BY <1>11, <2>3 DEF ReadLength
      <3>2. length \in 1 .. MaxMessageSize
        BY <2>3, Constants DEF WithinLimit
      <3>3. QED
        BY <1>8, <1>10, <3>1, <3>2, Zenon
    <2>4. QED
      BY <2>1, <2>2, <2>3
  <1>13. \E v : /\ Frames(v) /\ v[Len(got) + 2] \in Seq(Byte)
                /\ wire \o outgoing = Body(Current) \o v[Len(got) + 2]
    BY <1>2, <1>3, <1>7, <1>8, <1>9, Zenon
  <1>14. QED
    BY <1>1, <1>3, <1>6, <1>7, <1>12, <1>13, Zenon

\* ReadMessage has the length prefix.
LEMMA ReadLengthStep == WireInv /\ ReadLength => WireInv'
  <1> SUFFICES ASSUME WireInv, ReadLength PROVE WireInv'
    OBVIOUS
  <1>1. /\ Len(got) + 1 \in 1 .. Len(sent) /\ Current \in Messages /\ Proper(hello)
        /\ UNCHANGED <<hello, sent, outgoing, ended, wire>>
    BY LengthRead, Zenon
  <1>2. PICK w : /\ Frames(w) /\ w[Len(got) + 2] \in Seq(Byte)
                 /\ wire \o outgoing = Body(Current) \o w[Len(got) + 2]
    BY LengthRead, Zenon
  <1>3. CASE /\ Current = Message(KeepAlive, <<>>, <<>>, {}) /\ Body(Current) = <<>>
             /\ Handle(Current, bitfield)
    <2>1. Current.id = KeepAlive
      BY <1>3 DEF Message
    <2>2. Current.id # MsgBitfield /\ Current.id # MsgHave
      BY <2>1 DEF KeepAlive, MsgBitfield, MsgHave
    <2>3. After(bitfield, Current) = bitfield
      BY <2>2 DEF After
    <2>4. Current \in MessageType
      BY <1>3 DEF MessageType, Message
    <2>5. wire \o outgoing = w[Len(got) + 2]
      <3>1. <<>> \o w[Len(got) + 2] = w[Len(got) + 2]
        BY <1>2, ConcatEmptySeq
      <3>2. QED
        BY <1>2, <1>3, <3>1, Zenon
    <2>6. Handle(Current, After(bitfield, Current))
      BY <1>3, <2>3, Zenon
    <2>7. QED
      BY <1>1, <1>2, <2>2, <2>4, <2>5, <2>6, HandledStep, Zenon
  <1>4. CASE Refuse /\ ~WellFormed(Current)
    <2>1. Len(got) < Len(sent)
      BY <1>1, StreamTypes
    <2>2. phase' = "refused" /\ UNCHANGED <<need, buffer, got, bitfield>>
      BY <1>4 DEF Refuse
    <2>3. QED
      BY <1>1, <1>4, <2>1, <2>2, StopStep DEF Current
  <1>5. CASE /\ Expect("message", Len(Body(Current)))
             /\ Len(Body(Current)) \in 1 .. MaxMessageSize
             /\ UNCHANGED <<got, bitfield>>
    <2>1. /\ phase' = "message" /\ need' = Len(Body(Current)) /\ buffer' = <<>>
          /\ got' = got /\ bitfield' = bitfield
      BY <1>5 DEF Expect
    <2>2. Current' = Current
      BY <1>1, <2>1 DEF Current
    <2>3. TypeOK'
      <3>1. need' \in 1 .. MaxMessageSize /\ buffer' \in Seq(Byte) /\ Len(buffer') <= need'
        BY <1>5, <2>1, EmptySeq, Constants
      <3>2. QED
        BY <1>1, <2>1, <3>1 DEF WireInv, TypeOK
    <2>4. Frames(w)'
      BY <1>1, <1>2 DEF Frames
    <2>5. Position(w)'
      <3>1. Ahead' = Body(Current) \o w[Len(got) + 2]
        BY <1>1, <1>2, <2>1, NextField
      <3>2. QED
        BY <1>1, <2>1, <2>2, <3>1 DEF Position, Current
    <2>6. HeardInv'
      <3>1. Proper(hello')
        BY <1>1, Zenon
      <3>2. QED
        BY <1>1, <2>1, <3>1 DEF WireInv, HeardInv, StrangersUnheard, HonestPeerKept
    <2>7. QED
      BY <2>3, <2>4, <2>5, <2>6, Zenon DEF WireInv, StreamInv
  <1>6. QED
    BY <1>3, <1>4, <1>5, LengthRead, Zenon

\* What ReadBody reads is the body of the next message.
LEMMA MessageRead ==
    ASSUME WireInv, ReadBody
    PROVE  /\ Len(got) + 1 \in 1 .. Len(sent) /\ Proper(hello)
           /\ UNCHANGED <<hello, sent, outgoing, ended, wire>>
           /\ \E w : Frames(w) /\ wire \o outgoing = w[Len(got) + 2]
           /\ \/ Refuse /\ ~WellFormed(Current)
              \/ /\ Current \in MessageType /\ Handle(Current, After(bitfield, Current))
                 /\ Current.id = MsgHave => Current.args[1] \in Pieces
  <1>1. /\ UNCHANGED <<hello, sent, outgoing, ended, wire>>
        /\ phase = "message" /\ Filled /\ Proper(hello)
    BY DEF ReadBody, peerVars, WireInv, HeardInv
  <1>2. PICK w : Frames(w) /\ Position(w)
    BY Zenon DEF WireInv, StreamInv
  <1>3. /\ Len(got) + 1 \in 1 .. Len(sent) /\ need = Len(Body(Current))
        /\ Ahead = Body(Current) \o w[Len(got) + 2]
    BY <1>1, <1>2 DEF Position, Current
  <1>4. PICK m \in Messages : m = Current
    BY <1>3, StreamTypes DEF Current
  <1>5. PICK body \in Seq(Byte), r \in Seq(Byte) : body = Body(m) /\ r = w[Len(got) + 2]
    <2>1. Len(got) + 2 \in 1 .. Len(sent) + 1
      BY <1>3, StreamTypes
    <2>2. w[Len(got) + 2] \in Seq(Byte)
      BY <1>2, <2>1 DEF Frames
    <2>3. QED
      BY <2>2, BodyType, Zenon
  <1>6. buffer = body /\ wire \o outgoing = r
    <2>1. Ahead = body \o r /\ Len(body) = need
      BY <1>3, <1>4, <1>5, Zenon
    <2>2. QED
      BY <1>1, <2>1, FieldRead
  <1>7. Len(buffer) \in 1 .. MaxMessageSize
    BY <1>1 DEF WireInv, TypeOK, Filled
  <1>8. \/ Refuse /\ ~WellFormed(m)
        \/ /\ m \in MessageType /\ Handle(m, After(bitfield, m))
           /\ m.id = MsgHave => m.args[1] \in Pieces
    BY <1>5, <1>6, <1>7, BodyRead, Zenon
  <1>9. \E v : Frames(v) /\ wire \o outgoing = v[Len(got) + 2]
    BY <1>2, <1>5, <1>6, Zenon
  <1>10. QED
    BY <1>1, <1>3, <1>4, <1>8, <1>9, Zenon

\* ReadMessage has the body, and parses it.
LEMMA ReadBodyStep == WireInv /\ ReadBody => WireInv'
  <1> SUFFICES ASSUME WireInv, ReadBody PROVE WireInv'
    OBVIOUS
  <1>1. /\ Len(got) + 1 \in 1 .. Len(sent) /\ Proper(hello)
        /\ UNCHANGED <<hello, sent, outgoing, ended, wire>>
    BY MessageRead, Zenon
  <1>2. PICK w : Frames(w) /\ wire \o outgoing = w[Len(got) + 2]
    BY MessageRead, Zenon
  <1>3. CASE Refuse /\ ~WellFormed(Current)
    <2>1. Len(got) < Len(sent)
      BY <1>1, StreamTypes
    <2>2. phase' = "refused" /\ UNCHANGED <<need, buffer, got, bitfield>>
      BY <1>3 DEF Refuse
    <2>3. QED
      BY <1>1, <1>3, <2>1, <2>2, StopStep DEF Current
  <1>4. CASE /\ Current \in MessageType /\ Handle(Current, After(bitfield, Current))
             /\ Current.id = MsgHave => Current.args[1] \in Pieces
    BY <1>1, <1>2, <1>4, HandledStep, Zenon
  <1>5. QED
    BY <1>3, <1>4, MessageRead, Zenon

\* Every step keeps the invariant.
LEMMA NextInv == WireInv /\ [Next]_vars => WireInv'
  <1> SUFFICES ASSUME WireInv, [Next]_vars PROVE WireInv'
    OBVIOUS
  <1>1. CASE PeerEnds \/ UNCHANGED vars
    <2>1. /\ UNCHANGED <<hello, sent, outgoing, wire, phase, need, buffer, got, bitfield>>
          /\ ended' \in {ended, TRUE}
      BY <1>1 DEF PeerEnds, readerVars, vars
    <2>2. TypeOK'
      BY <2>1 DEF WireInv, TypeOK
    <2>3. Ahead' = Ahead
      BY <2>1 DEF Ahead
    <2>4. QED
      BY <2>1, <2>2, <2>3, QuietStep
  <1>2. CASE ReadFails
    <2>1. /\ phase' = "cut"
          /\ UNCHANGED <<hello, sent, outgoing, ended, wire, need, buffer, got, bitfield>>
      BY <1>2 DEF ReadFails, peerVars
    <2>2. QED
      BY <2>1, StopStep
  <1>3. QED
    BY <1>1, <1>2, WriteMessageStep, WriteSomeStep, ReadSomeStep,
       ReadProtocolLengthStep, ReadHandshakeStep, ReadLengthStep, ReadBodyStep, Zenon
       DEF Next

-----------------------------------------------------------------------------
(* Theorems.                                                               *)

\* However the stream is cut into writes and reads and wherever it ends, what
\* io.ReadFull is to return lies ahead of the reader as it was written, and after
\* it the messages that were written after it.
THEOREM WireInvariance == Spec => []WireInv
  <1>1. QED
    BY InitInv, NextInv, PTL DEF Spec

\* The fields of the connection keep their types: above all, no body is read that
\* is longer than the limit of ReadMessageWithLimit, and no handshake that is
\* longer than performHandshake allows.
THEOREM TypeCorrect == Spec => []TypeOK
  <1>1. WireInv => TypeOK
    BY DEF WireInv
  <1>2. QED
    BY <1>1, WireInvariance, PTL

\* The worker handles no message of a peer whose handshake names another protocol
\* or another torrent: performHandshake compares the very bytes that were written.
THEOREM StrangersStayUnheard == Spec => []StrangersUnheard
  <1>1. WireInv => StrangersUnheard
    BY DEF WireInv, HeardInv
  <1>2. QED
    BY <1>1, WireInvariance, PTL

\* The worker's bitfield is what the peer's bitfield and have messages said, bit
\* for bit: ParseBitfield, ParseHave and SetPiece find the pieces that were named.
THEOREM PeerIsBelieved == Spec => []BelievesPeer
  <1>1. WireInv => BelievesPeer
    <2> SUFFICES ASSUME WireInv PROVE BelievesPeer
      OBVIOUS
    <2>1. /\ got \in Seq(MessageType) /\ sent \in Seq(Messages)
          /\ Len(got) \in 0 .. Len(sent)
      BY StreamTypes
    <2>2. bitfield = Said(got) /\ \A i \in 1 .. Len(got) : got[i] = sent[i]
      BY DEF WireInv, HeardInv
    <2>3. SubSeq(sent, 1, Len(got)) = got
      <3>1. SubSeq(sent, 1, Len(got)) = [i \in 1 .. Len(got) |-> sent[i]]
        BY <2>1
      <3>2. got = [i \in 1 .. Len(got) |-> got[i]]
        BY <2>1
      <3>3. QED
        BY <2>2, <3>1, <3>2, Zenon
    <2>4. QED
      BY <2>2, <2>3, Zenon DEF BelievesPeer
  <1>2. QED
    BY <1>1, WireInvariance, PTL

\* A peer is turned away only for a handshake or a message that is wrong: the
\* checks of ReadMessageWithLimit, ParseBitfield, ParseHave and ParsePiece refuse
\* nothing that was written properly.
THEOREM HonestPeersKept == Spec => []HonestPeerKept
  <1>1. WireInv => HonestPeerKept
    BY DEF WireInv, HeardInv
  <1>2. QED
    BY <1>1, WireInvariance, PTL

\* A step sends a message, hands over the next one, or is invisible to both ends.
LEMMA StreamStep == WireInv /\ [Next]_vars => [Stream!Next]_<<sent, got>>
  <1> SUFFICES ASSUME WireInv, [Next]_vars PROVE [Stream!Next]_<<sent, got>>
    OBVIOUS
  <1>1. CASE WriteMessage
    <2>1. PICK m \in Messages : sent' = Append(sent, m)
      BY <1>1 DEF WriteMessage
    <2>2. got' = got
      BY <1>1 DEF WriteMessage, readerVars
    <2>3. QED
      BY <2>1, <2>2 DEF Stream!Next, Stream!Send
  <1>2. ASSUME Len(got) + 1 \in 1 .. Len(sent), sent' = sent,
               got' = got \/ got' = Append(got, Current)
        PROVE  [Stream!Next]_<<sent, got>>
    <2>1. Len(got) < Len(sent)
      BY <1>2, StreamTypes
    <2>2. QED
      BY <1>2, <2>1, Zenon DEF Stream!Next, Stream!Deliver, Current
  <1>3. CASE ReadLength
    <2>1. Len(got) + 1 \in 1 .. Len(sent) /\ sent' = sent
      BY <1>3, LengthRead, Zenon
    <2>2. got' = got \/ got' = Append(got, Current)
      BY <1>3, LengthRead, Zenon DEF Handle, Refuse
    <2>3. QED
      BY <1>2, <2>1, <2>2, Zenon
  <1>4. CASE ReadBody
    <2>1. Len(got) + 1 \in 1 .. Len(sent) /\ sent' = sent
      BY <1>4, MessageRead, Zenon
    <2>2. got' = got \/ got' = Append(got, Current)
      BY <1>4, MessageRead, Zenon DEF Handle, Refuse
    <2>3. QED
      BY <1>2, <2>1, <2>2, Zenon
  <1>5. CASE sent' = sent /\ got' = got
    BY <1>5
  <1>6. WriteSome \/ PeerEnds \/ ReadSome \/ ReadFails \/ ReadProtocolLength
        \/ ReadHandshake \/ UNCHANGED vars => sent' = sent /\ got' = got
    BY DEF WriteSome, PeerEnds, ReadSome, ReadFails, ReadProtocolLength,
           ReadHandshake, Refuse, vars, peerVars, readerVars
  <1>7. QED
    BY <1>1, <1>3, <1>4, <1>5, <1>6, Zenon DEF Next

\* Bytes become the messages that were written: writeFull, the stream and
\* ReadMessageWithLimit with its parsers implement MessageStream.
THEOREM WireRefinesStream == Spec => ImplementsMessageStream
  <1>1. Init => Stream!Init
    BY DEF Init, Stream!Init
  <1>2. QED
    BY <1>1, StreamStep, WireInvariance, PTL
    DEF Spec, ImplementsMessageStream, Stream!Spec

=============================================================================
