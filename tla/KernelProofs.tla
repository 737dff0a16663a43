---------------------------- MODULE KernelProofs ----------------------------
(***************************************************************************)
(* For every width of ranks and lanes: the shifts and masks of the order   *)
(* word do to it what an insertion does to a sequence of slots; also while *)
(* a writer stores into the node the vector kernels count the lanes below  *)
(* a key, and where the lanes are in rank order the walk over the ranks    *)
(* comes to the same; and the nodes and probes of the benchmarks are what  *)
(* they claim to be.                                                       *)
(***************************************************************************)
EXTENDS Workload, FiniteSetTheorems, SequenceTheorems, WellFoundedInduction, TLAPS

-----------------------------------------------------------------------------
(* Numbers.                                                                *)

Less == {ss \in Nat \X Nat : ss[1] < ss[2]}

LEMMA LessIsWellFounded == IsWellFoundedOn(Less, Nat)
BY NatLessThanWellFounded DEF OpToRel, Less

LEMMA LeastExists ==
  ASSUME NEW S \in SUBSET Nat, S # {}
  PROVE  Min(S) \in S /\ \A y \in S : Min(S) <= y
<1>1. PICK x \in S : \A y \in S : ~(<<y, x>> \in Less)
  BY LessIsWellFounded, WFMin
<1>2. ASSUME NEW y \in S PROVE x <= y
  <2>1. x \in Nat /\ y \in Nat /\ ~(y < x)
    BY <1>1 DEF Less
  <2> QED
    BY <2>1
<1> QED
  BY <1>2 DEF Min

\* Induction, over a set in place of a predicate.
LEMMA NatSteps ==
  ASSUME NEW S \in SUBSET Nat, 0 \in S, \A i \in S : i + 1 \in S
  PROVE  S = Nat
<1> DEFINE B == Nat \ S
<1> SUFFICES ASSUME B # {} PROVE FALSE
  OBVIOUS
<1>1. PICK x : x = Min(B)
  OBVIOUS
<1>2. x \in B /\ \A y \in B : x <= y
  BY <1>1, LeastExists
<1>3. x \in Nat /\ x # 0 /\ x \notin S
  BY <1>2
<1>4. x - 1 \in Nat /\ ~(x <= x - 1) /\ x - 1 + 1 = x
  BY <1>3
<1>5. x - 1 \in S
  BY <1>2, <1>4
<1> QED
  BY <1>3, <1>4, <1>5

-----------------------------------------------------------------------------
(* Sequences.                                                              *)

\* An entry inserted at i moves those from there on up by one.
LEMMA InsertAtProperties ==
  ASSUME NEW S, NEW s \in Seq(S), NEW i \in 1..(Len(s) + 1), NEW e \in S
  PROVE  /\ InsertAt(s, i, e) \in Seq(S) /\ Len(InsertAt(s, i, e)) = Len(s) + 1
         /\ \A j \in 1..(i - 1) : InsertAt(s, i, e)[j] = s[j]
         /\ InsertAt(s, i, e)[i] = e
         /\ \A j \in i..Len(s) : InsertAt(s, i, e)[j + 1] = s[j]
<1> SUFFICES ASSUME NEW new, new = InsertAt(s, i, e)
             PROVE  /\ new \in Seq(S) /\ Len(new) = Len(s) + 1
                    /\ \A j \in 1..(i - 1) : new[j] = s[j]
                    /\ new[i] = e
                    /\ \A j \in i..Len(s) : new[j + 1] = s[j]
  OBVIOUS
<1> DEFINE left == SubSeq(s, 1, i - 1)
           mid == <<e>>
           right == SubSeq(s, i, Len(s))
<1>1. Len(s) \in Nat /\ \A j \in 1..Len(s) : s[j] \in S
  BY LenProperties
<1>2. /\ left \in Seq(S) /\ Len(left) = i - 1
      /\ \A j \in 1..(i - 1) : left[j] = s[j]
  BY <1>1, SubSeqProperties
<1>3. /\ right \in Seq(S) /\ Len(right) = Len(s) - i + 1
      /\ \A j \in 1..(Len(s) - i + 1) : right[j] = s[i + j - 1]
  BY <1>1, SubSeqProperties
<1>4. mid \in Seq(S) /\ Len(mid) = 1 /\ mid[1] = e
  OBVIOUS
<1>5. InsertAt(s, i, e) = (left \o mid) \o right
  BY DEF InsertAt
<1> HIDE DEF left, mid, right
<1> DEFINE start == left \o mid
<1>6. /\ start \in Seq(S) /\ Len(start) = Len(left) + Len(mid)
      /\ \A j \in 1..(Len(left) + Len(mid)) :
           start[j] = IF j <= Len(left) THEN left[j] ELSE mid[j - Len(left)]
  BY <1>2, <1>4, ConcatProperties, Zenon
<1> HIDE DEF start
<1>a. start \in Seq(S) /\ right \in Seq(S)
  BY <1>3, <1>6
<1>7. /\ start \o right \in Seq(S)
      /\ Len(start \o right) = Len(start) + Len(right)
      /\ \A j \in 1..(Len(start) + Len(right)) :
           (start \o right)[j] = IF j <= Len(start) THEN start[j] ELSE right[j - Len(start)]
  BY <1>a, ConcatProperties, Zenon
<1>8. Len(start) = i /\ \A j \in 1..i : start[j] = IF j < i THEN s[j] ELSE e
  <2>1. Len(start) = i
    BY <1>2, <1>4, <1>6
  <2>2. ASSUME NEW j \in 1..i PROVE start[j] = IF j < i THEN s[j] ELSE e
    <3>1. j \in 1..(Len(left) + Len(mid))
      BY <1>2, <1>4
    <3>2. CASE j < i
      BY <3>1, <3>2, <1>2, <1>6
    <3>3. CASE j = i
      <4>1. j - Len(left) = 1 /\ ~(j <= Len(left))
        BY <1>2, <3>3
      <4> QED
        BY <3>1, <3>3, <4>1, <1>4, <1>6
    <3> QED
      BY <3>2, <3>3
  <2> QED
    BY <2>1, <2>2
<1>9. InsertAt(s, i, e) = start \o right
  BY <1>5 DEF start
<1> DEFINE whole == start \o right
<1>10. /\ whole \in Seq(S) /\ Len(whole) = Len(start) + Len(right)
       /\ \A j \in 1..(Len(start) + Len(right)) :
            whole[j] = IF j <= Len(start) THEN start[j] ELSE right[j - Len(start)]
  BY <1>7
<1> HIDE DEF whole
<1>11. new = whole
  BY <1>9 DEF whole
<1>12. Len(whole) = Len(s) + 1
  BY <1>1, <1>3, <1>8, <1>10
<1>13. ASSUME NEW j \in 1..(Len(s) + 1)
       PROVE  whole[j] = IF j < i THEN s[j] ELSE IF j = i THEN e ELSE s[j - 1]
  <2>1. whole[j] = IF j <= i THEN start[j] ELSE right[j - i]
    BY <1>1, <1>3, <1>8, <1>10
  <2>2. CASE j <= i
    BY <2>1, <2>2, <1>8
  <2>3. CASE j > i
    <3>1. j - i \in 1..(Len(s) - i + 1) /\ i + (j - i) - 1 = j - 1
      BY <1>1, <2>3
    <3>2. right[j - i] = s[j - 1]
      BY <3>1, <1>3
    <3> QED
      BY <2>1, <2>3, <3>2
  <2> QED
    BY <2>2, <2>3
<1>14. \A j \in 1..(i - 1) : whole[j] = s[j]
  BY <1>1, <1>13
<1>15. whole[i] = e
  BY <1>1, <1>13
<1>16. \A j \in i..Len(s) : whole[j + 1] = s[j]
  <2>1. ASSUME NEW j \in i..Len(s) PROVE whole[j + 1] = s[j]
    <3>1. j + 1 \in 1..(Len(s) + 1) /\ ~(j + 1 < i) /\ j + 1 # i /\ (j + 1) - 1 = j
      BY <1>1
    <3> QED
      BY <3>1, <1>13
  <2> QED
    BY <2>1
<1> QED
  BY <1>10, <1>11, <1>12, <1>14, <1>15, <1>16

-----------------------------------------------------------------------------
(* Division with remainder.                                                *)

LEMMA Remainder ==
  ASSUME NEW x \in Nat, NEW y \in Nat \ {0}
  PROVE  x \div y \in Nat /\ x % y \in 0..(y - 1) /\ x = y * (x \div y) + (x % y)
OBVIOUS

LEMMA QuotientIs ==
  ASSUME NEW y \in Nat \ {0}, NEW q \in Nat, NEW r \in 0..(y - 1)
  PROVE  (y * q + r) \div y = q /\ (y * q + r) % y = r
<1>1. PICK x : x = y * q + r
  OBVIOUS
<1>2. x \in Nat
  BY <1>1
<1>3. PICK p, s : p = x \div y /\ s = x % y
  OBVIOUS
<1>4. p \in Nat /\ s \in 0..(y - 1) /\ x = y * p + s
  BY <1>2, <1>3, Remainder
<1>5. ~(p < q)
  <2> SUFFICES ASSUME p < q PROVE FALSE
    OBVIOUS
  <2>1. PICK d : d \in Nat /\ q = p + 1 + d
    <3>1. q - p - 1 \in Nat /\ q = p + 1 + (q - p - 1)
      BY <1>4
    <3> QED
      BY <3>1
  <2>2. y * q = y * p + y + y * d /\ y * d \in Nat
    BY <1>4, <2>1
  <2> QED
    BY <1>1, <1>4, <2>2
<1>6. ~(q < p)
  <2> SUFFICES ASSUME q < p PROVE FALSE
    OBVIOUS
  <2>1. PICK d : d \in Nat /\ p = q + 1 + d
    <3>1. p - q - 1 \in Nat /\ p = q + 1 + (p - q - 1)
      BY <1>4
    <3> QED
      BY <3>1
  <2>2. y * p = y * q + y + y * d /\ y * d \in Nat
    BY <1>4, <2>1
  <2> QED
    BY <1>1, <1>4, <2>2
<1>7. p = q
  BY <1>4, <1>5, <1>6
<1>8. s = r
  BY <1>1, <1>4, <1>7
<1> QED
  BY <1>1, <1>3, <1>7, <1>8

LEMMA QuotientTwice ==
  ASSUME NEW x \in Nat, NEW y \in Nat \ {0}, NEW z \in Nat \ {0}
  PROVE  (x \div y) \div z = x \div (y * z)
<1>1. PICK q, r : q = x \div y /\ r = x % y
  OBVIOUS
<1>2. q \in Nat /\ r \in 0..(y - 1) /\ x = y * q + r
  BY <1>1, Remainder
<1>3. PICK p, s : p = q \div z /\ s = q % z
  OBVIOUS
<1>4. p \in Nat /\ s \in 0..(z - 1) /\ q = z * p + s
  BY <1>2, <1>3, Remainder
<1>5. PICK w, v : w = y * z /\ v = y * s + r
  OBVIOUS
<1>6. w \in Nat \ {0}
  BY <1>5
<1>7. v \in 0..(w - 1)
  <2>1. PICK d : d \in Nat /\ z = s + 1 + d
    <3>1. z - s - 1 \in Nat /\ z = s + 1 + (z - s - 1)
      BY <1>4
    <3> QED
      BY <3>1
  <2>2. y * s \in Nat
    BY <1>4
  <2>3. w = y * s + y + y * d /\ y * d \in Nat
    BY <1>4, <1>5, <2>1
  <2> QED
    BY <1>2, <1>5, <2>2, <2>3
<1>8. x = w * p + v
  <2>1. y * q = y * (z * p) + y * s
    BY <1>2, <1>4
  <2>2. y * (z * p) = w * p
    BY <1>4, <1>5
  <2>3. y * s \in Nat /\ w * p \in Nat
    BY <1>4, <1>6
  <2> QED
    BY <1>2, <1>5, <2>1, <2>2, <2>3
<1>9. x \div w = p
  BY <1>4, <1>6, <1>7, <1>8, QuotientIs
<1> QED
  BY <1>1, <1>3, <1>5, <1>9

-----------------------------------------------------------------------------
(* Powers of two.                                                          *)

PowerIs(f, m) == f = [i \in 0..m |-> IF i = 0 THEN 1 ELSE 2 * f[i - 1]]

LEMMA PowerExists ==
  ASSUME NEW m \in Nat
  PROVE  \E f : PowerIs(f, m)
<1> DEFINE S == {n \in Nat : \E f : PowerIs(f, n)}
<1>1. 0 \in S
  <2>1. PowerIs([i \in 0..0 |-> 1], 0)
    BY DEF PowerIs
  <2> QED
    BY <2>1
<1>2. ASSUME NEW n \in S PROVE n + 1 \in S
  <2>1. PICK f : PowerIs(f, n)
    OBVIOUS
  <2>2. PICK h : h = [i \in 0..(n + 1) |-> IF i = n + 1 THEN 2 * f[n] ELSE f[i]]
    OBVIOUS
  <2>3. ASSUME NEW i \in 0..(n + 1)
        PROVE  h[i] = IF i = 0 THEN 1 ELSE 2 * h[i - 1]
    <3>1. CASE i = n + 1
      <4>1. n \in 0..(n + 1) /\ n # n + 1 /\ i - 1 = n /\ i # 0
        BY <3>1
      <4> QED
        BY <2>2, <3>1, <4>1
    <3>2. CASE i # n + 1
      <4>1. i \in 0..n /\ h[i] = f[i] /\ (i # 0 => i - 1 \in 0..(n + 1) /\ i - 1 # n + 1 /\ h[i - 1] = f[i - 1])
        BY <2>2, <3>2
      <4> QED
        BY <2>1, <4>1 DEF PowerIs
    <3> QED
      BY <3>1, <3>2
  <2>4. PowerIs(h, n + 1)
    BY <2>2, <2>3 DEF PowerIs
  <2> QED
    BY <2>4
<1> HIDE DEF S
<1>3. S = Nat
  BY <1>1, <1>2, NatSteps DEF S
<1> QED
  BY <1>3 DEF S

LEMMA PowersAgree ==
  ASSUME NEW m \in Nat, NEW f, NEW h, PowerIs(f, m), PowerIs(h, m + 1)
  PROVE  f[m] = h[m]
<1> DEFINE S == {i \in Nat : i <= m => f[i] = h[i]}
<1>1. 0 \in S
  BY DEF PowerIs
<1>2. ASSUME NEW i \in S PROVE i + 1 \in S
  <2> SUFFICES ASSUME i + 1 <= m PROVE f[i + 1] = h[i + 1]
    OBVIOUS
  <2>1. i + 1 \in 0..m /\ i + 1 \in 0..(m + 1) /\ i + 1 # 0 /\ (i + 1) - 1 = i /\ f[i] = h[i]
    OBVIOUS
  <2> QED
    BY <2>1 DEF PowerIs
<1> HIDE DEF S
<1>3. S = Nat
  BY <1>1, <1>2, NatSteps DEF S
<1> QED
  BY <1>3 DEF S

\* The recursive function that shifts are written with is what it should be.
LEMMA PowerFacts ==
  /\ Pow2[0] = 1
  /\ \A n \in Nat : Pow2[n + 1] = 2 * Pow2[n]
  /\ \A n \in Nat : Pow2[n] \in Nat \ {0}
<1>1. PICK g : g = [n \in Nat |-> CHOOSE f : PowerIs(f, n)]
  OBVIOUS
<1>2. \A n \in Nat : PowerIs(g[n], n)
  BY <1>1, PowerExists
<1>3. PICK h : h = [n \in Nat |-> g[n][n]]
  OBVIOUS
<1>4. ASSUME NEW n \in Nat PROVE h[n] = IF n = 0 THEN 1 ELSE 2 * h[n - 1]
  <2>1. CASE n = 0
    <3>1. PowerIs(g[0], 0) /\ 0 \in 0..0 /\ h[0] = g[0][0]
      BY <1>2, <1>3
    <3>2. g[0][0] = 1
      BY <3>1 DEF PowerIs
    <3> QED
      BY <2>1, <3>1, <3>2
  <2>2. CASE n # 0
    <3>1. PICK m : m = n - 1
      OBVIOUS
    <3>2. m \in Nat /\ n = m + 1 /\ n \in 0..n
      BY <2>2, <3>1
    <3>3. PowerIs(g[m], m) /\ PowerIs(g[n], m + 1)
      BY <1>2, <3>2
    <3>4. g[m][m] = g[n][m]
      BY <3>2, <3>3, PowersAgree
    <3>5. g[n][n] = 2 * g[n][m]
      BY <1>2, <2>2, <3>1, <3>2 DEF PowerIs
    <3> QED
      BY <1>3, <2>2, <3>1, <3>2, <3>4, <3>5
  <2> QED
    BY <2>1, <2>2
<1>5. h = [n \in Nat |-> IF n = 0 THEN 1 ELSE 2 * h[n - 1]]
  BY <1>3, <1>4
<1>6. Pow2 = [n \in Nat |-> IF n = 0 THEN 1 ELSE 2 * Pow2[n - 1]]
  <2>1. Pow2 = CHOOSE f : f = [n \in Nat |-> IF n = 0 THEN 1 ELSE 2 * f[n - 1]]
    BY DEF Pow2
  <2> QED
    BY <1>5, <2>1
<1>7. Pow2[0] = 1
  BY <1>6
<1>8. ASSUME NEW n \in Nat PROVE Pow2[n + 1] = 2 * Pow2[n]
  <2>1. n + 1 \in Nat /\ n + 1 # 0 /\ (n + 1) - 1 = n
    OBVIOUS
  <2> QED
    BY <1>6, <2>1
<1> DEFINE S == {n \in Nat : Pow2[n] \in Nat \ {0}}
<1>9. 0 \in S
  BY <1>7
<1>10. ASSUME NEW n \in S PROVE n + 1 \in S
  BY <1>8
<1> HIDE DEF S
<1>11. S = Nat
  BY <1>9, <1>10, NatSteps DEF S
<1> QED
  BY <1>7, <1>8, <1>11 DEF S

LEMMA PowerAdds ==
  ASSUME NEW m \in Nat, NEW n \in Nat
  PROVE  Pow2[m + n] = Pow2[m] * Pow2[n]
<1> DEFINE S == {i \in Nat : Pow2[m + i] = Pow2[m] * Pow2[i]}
<1>1. 0 \in S
  BY PowerFacts
<1>2. ASSUME NEW i \in S PROVE i + 1 \in S
  <2>1. PICK x, y : x = Pow2[m] /\ y = Pow2[i]
    OBVIOUS
  <2>2. x \in Nat /\ y \in Nat /\ Pow2[m + i] = x * y /\ m + i \in Nat /\ (m + i) + 1 = m + (i + 1)
    BY <2>1, PowerFacts
  <2>3. Pow2[i + 1] = 2 * y /\ Pow2[m + (i + 1)] = 2 * (x * y)
    BY <2>1, <2>2, PowerFacts
  <2>4. 2 * (x * y) = x * (2 * y)
    BY <2>2
  <2> QED
    BY <2>1, <2>3, <2>4
<1> HIDE DEF S
<1>3. S = Nat
  BY <1>1, <1>2, NatSteps DEF S
<1> QED
  BY <1>3 DEF S

LEMMA PowerGrows ==
  ASSUME NEW m \in Nat, NEW n \in Nat, m <= n
  PROVE  Pow2[m] <= Pow2[n]
<1>1. PICK d : d \in Nat /\ n = m + d
  <2>1. n - m \in Nat /\ n = m + (n - m)
    OBVIOUS
  <2> QED
    BY <2>1
<1>2. PICK x, y : x = Pow2[m] /\ y = Pow2[d]
  OBVIOUS
<1>3. x \in Nat /\ y \in Nat \ {0}
  BY <1>1, <1>2, PowerFacts
<1>4. Pow2[n] = x * y
  BY <1>1, <1>2, PowerAdds
<1>5. x * y = x + x * (y - 1) /\ x * (y - 1) \in Nat
  BY <1>3
<1> QED
  BY <1>2, <1>3, <1>4, <1>5
-----------------------------------------------------------------------------
(* The digits of a word.                                                   *)

\* What a shift by rank ranks multiplies by.
Unit(rank) == Pow2[RankBits * rank]

Digit(o, rank) == (o \div Unit(rank)) % NodeKeys

\* o is the word of the n slots f[0], ..., f[n - 1], in this order.
IsWord(o, f, n) ==
  /\ n \in 0..NodeCapacity /\ f \in [0..(n - 1) -> 0..(NodeCapacity - 1)]
  /\ o \in 0..(Unit(n) - 1)
  /\ \A rank \in 0..(n - 1) : Digit(o, rank) = f[rank] + 1

LEMMA KeysFacts ==
  /\ NodeKeys \in Nat /\ NodeKeys >= 2 /\ NodeCapacity = NodeKeys - 1 /\ PadSlot = NodeKeys - 1
  /\ NodeCapacity \in Nat /\ NodeCapacity >= 1
<1>1. PICK b, x : b = RankBits - 1 /\ x = Pow2[RankBits - 1]
  OBVIOUS
<1>2. b \in Nat /\ RankBits = b + 1
  BY <1>1, RankBitsAssumption
<1>3. x \in Nat \ {0} /\ Pow2[RankBits] = 2 * x
  BY <1>1, <1>2, PowerFacts
<1> QED
  BY <1>3 DEF NodeKeys, NodeCapacity, PadSlot

LEMMA UnitFacts ==
  /\ Unit(0) = 1
  /\ \A r \in Nat : Unit(r) \in Nat \ {0} /\ Unit(r + 1) = NodeKeys * Unit(r)
  /\ \A q, r \in Nat : Unit(q + r) = Unit(q) * Unit(r)
  /\ \A q, r \in Nat : q <= r => Unit(q) <= Unit(r)
  /\ Unit(1) = NodeKeys
<1>1. PICK b : b = RankBits
  OBVIOUS
<1>2. b \in Nat /\ b >= 1
  BY <1>1, RankBitsAssumption
<1>3. \A r \in Nat : b * r \in Nat
  BY <1>2
<1>4. Unit(0) = 1
  <2>1. b * 0 = 0
    BY <1>2
  <2> QED
    BY <1>1, <2>1, PowerFacts DEF Unit
<1>5. ASSUME NEW q \in Nat, NEW r \in Nat PROVE Unit(q + r) = Unit(q) * Unit(r)
  <2>1. b * (q + r) = b * q + b * r /\ b * q \in Nat /\ b * r \in Nat
    BY <1>2
  <2>2. PICK x, y : x = b * q /\ y = b * r
    OBVIOUS
  <2>3. Pow2[x + y] = Pow2[x] * Pow2[y]
    BY <2>1, <2>2, PowerAdds
  <2> QED
    BY <1>1, <2>1, <2>2, <2>3 DEF Unit
<1>6. Unit(1) = NodeKeys
  <2>1. b * 1 = b
    BY <1>2
  <2> QED
    BY <1>1, <2>1 DEF Unit, NodeKeys
<1>7. \A r \in Nat : Unit(r) \in Nat \ {0}
  BY <1>1, <1>3, PowerFacts DEF Unit
<1>8. ASSUME NEW r \in Nat PROVE Unit(r + 1) = NodeKeys * Unit(r)
  <2>1. PICK x, y : x = Unit(r) /\ y = NodeKeys
    OBVIOUS
  <2>2. x \in Nat /\ y \in Nat /\ x * y = y * x
    BY <1>7, <2>1, KeysFacts
  <2>3. Unit(r + 1) = x * y
    BY <1>5, <1>6, <2>1
  <2> QED
    BY <2>1, <2>2, <2>3
<1>9. ASSUME NEW q \in Nat, NEW r \in Nat, q <= r PROVE Unit(q) <= Unit(r)
  <2>1. PICK x, y : x = b * q /\ y = b * r
    OBVIOUS
  <2>2. x \in Nat /\ y \in Nat
    BY <1>3, <2>1
  <2>3. PICK d : d \in Nat /\ r = q + d
    <3>1. r - q \in Nat /\ r = q + (r - q)
      BY <1>9
    <3> QED
      BY <3>1
  <2>4. y = x + b * d /\ b * d \in Nat
    BY <1>2, <2>1, <2>3
  <2>5. x <= y
    BY <2>2, <2>4
  <2>6. Pow2[x] <= Pow2[y]
    BY <2>2, <2>5, PowerGrows
  <2> QED
    BY <1>1, <2>1, <2>6 DEF Unit
<1> QED
  BY <1>4, <1>5, <1>6, <1>7, <1>8, <1>9

LEMMA DigitRange ==
  ASSUME NEW o \in Nat, NEW r \in Nat
  PROVE  o \div Unit(r) \in Nat /\ Digit(o, r) \in 0..NodeCapacity
<1>1. PICK y, k : y = Unit(r) /\ k = NodeKeys
  OBVIOUS
<1>2. y \in Nat \ {0} /\ k \in Nat \ {0} /\ NodeCapacity = k - 1
  BY <1>1, UnitFacts, KeysFacts
<1>3. o \div y \in Nat
  BY <1>2, Remainder
<1>4. (o \div y) % k \in 0..(k - 1)
  BY <1>2, <1>3, Remainder
<1> QED
  BY <1>1, <1>2, <1>3, <1>4 DEF Digit

\* A rank of order_slot is its digit less one; the digit 0 borrows.
LEMMA SlotOfDigit ==
  ASSUME NEW o \in Nat, NEW r \in Nat
  PROVE  OrderSlot(o, r) = IF Digit(o, r) = 0 THEN PadSlot ELSE Digit(o, r) - 1
<1>1. PICK x, k, q, d : x = o \div Unit(r) /\ k = NodeKeys /\ q = x \div k /\ d = x % k
  OBVIOUS
<1>2. x \in Nat /\ k \in Nat \ {0} /\ k >= 2
  BY <1>1, DigitRange, KeysFacts
<1>3. q \in Nat /\ d \in 0..(k - 1) /\ x = k * q + d
  BY <1>1, <1>2, Remainder
<1>4. OrderSlot(o, r) = (x - 1) % k /\ Digit(o, r) = d /\ PadSlot = k - 1
  BY <1>1, KeysFacts DEF OrderSlot, Digit, Unit
<1>5. CASE d # 0
  <2>1. d - 1 \in 0..(k - 1) /\ x - 1 = k * q + (d - 1)
    BY <1>2, <1>3, <1>5
  <2>2. (x - 1) % k = d - 1
    BY <1>2, <1>3, <2>1, QuotientIs
  <2> QED
    BY <1>4, <1>5, <2>2
<1>6. CASE d = 0
  <2>1. CASE q = 0
    <3>1. x = 0
      BY <1>2, <1>3, <1>6, <2>1
    <3>2. (0 - 1) % k = k - 1
      BY <1>2
    <3> QED
      BY <1>4, <1>6, <3>1, <3>2
  <2>2. CASE q # 0
    <3>1. PICK p : p = q - 1
      OBVIOUS
    <3>2. p \in Nat /\ q = p + 1
      BY <1>3, <2>2, <3>1
    <3>3. k * q = k * p + k
      BY <1>2, <3>2
    <3>4. k * p \in Nat /\ k - 1 \in 0..(k - 1)
      BY <1>2, <3>2
    <3>5. x - 1 = k * p + (k - 1)
      BY <1>2, <1>3, <1>6, <3>3, <3>4
    <3>6. (x - 1) % k = k - 1
      BY <1>2, <3>2, <3>4, <3>5, QuotientIs
    <3> QED
      BY <1>4, <1>6, <3>6
  <2> QED
    BY <2>1, <2>2
<1> QED
  BY <1>5, <1>6

LEMMA WordFacts ==
  ASSUME NEW o, NEW f, NEW n, IsWord(o, f, n)
  PROVE  /\ n \in Nat /\ n <= NodeCapacity /\ n < NodeKeys
         /\ o \in Nat /\ o < Unit(n)
         /\ \A rank \in 0..(n - 1) : /\ f[rank] \in 0..(NodeCapacity - 1) /\ f[rank] \in Nat
                                     /\ Digit(o, rank) = f[rank] + 1
<1>1. n \in Nat /\ n <= NodeCapacity /\ n < NodeKeys
  BY KeysFacts DEF IsWord
<1>2. Unit(n) \in Nat \ {0}
  BY <1>1, UnitFacts
<1>3. o \in Nat /\ o < Unit(n)
  BY <1>2 DEF IsWord
<1>4. ASSUME NEW rank \in 0..(n - 1)
      PROVE  f[rank] \in 0..(NodeCapacity - 1) /\ f[rank] \in Nat /\ Digit(o, rank) = f[rank] + 1
  <2>1. f[rank] \in 0..(NodeCapacity - 1) /\ Digit(o, rank) = f[rank] + 1
    BY DEF IsWord
  <2> QED
    BY <2>1, KeysFacts
<1> QED
  BY <1>1, <1>3, <1>4

LEMMA BitLengthFacts ==
  ASSUME NEW o \in Nat, o < Unit(NodeKeys)
  PROVE  /\ BitLength(o) \in Nat
         /\ o < Pow2[BitLength(o)]
         /\ BitLength(o) > 0 => o >= Pow2[BitLength(o) - 1]
<1>1. WordBits \in Nat /\ Unit(NodeKeys) = Pow2[WordBits]
  <2>1. PICK b, k : b = RankBits /\ k = NodeKeys
    OBVIOUS
  <2>2. b * k \in Nat
    BY <2>1, RankBitsAssumption, KeysFacts
  <2> QED
    BY <2>1, <2>2 DEF WordBits, Unit
<1> DEFINE S == {n \in Nat : o < Pow2[n]}
<1>2. PICK m : m = Min(S)
  OBVIOUS
<1>3. WordBits \in S
  BY <1>1
<1>4. m \in S /\ \A n \in S : m <= n
  BY <1>2, <1>3, LeastExists
<1>5. m \in 0..WordBits /\ o < Pow2[m]
  BY <1>1, <1>3, <1>4
<1>6. m > 0 => o >= Pow2[m - 1]
  <2> SUFFICES ASSUME m > 0 PROVE o >= Pow2[m - 1]
    OBVIOUS
  <2>1. m - 1 \in Nat /\ ~(m <= m - 1)
    BY <1>5
  <2>2. ~(o < Pow2[m - 1])
    BY <1>4, <2>1
  <2>3. Pow2[m - 1] \in Nat
    BY <2>1, PowerFacts
  <2> QED
    BY <2>2, <2>3
<1>7. PICK c : c = BitLength(o)
  OBVIOUS
<1>8. c = CHOOSE n \in 0..WordBits : o < Pow2[n] /\ (n > 0 => o >= Pow2[n - 1])
  BY <1>7 DEF BitLength
<1>9. c \in 0..WordBits /\ o < Pow2[c] /\ (c > 0 => o >= Pow2[c - 1])
  BY <1>5, <1>6, <1>8
<1> QED
  BY <1>1, <1>7, <1>9

\* The count of leading zeros tells the number of ranks in use.
LEMMA CountIs ==
  ASSUME NEW o, NEW f, NEW n, IsWord(o, f, n)
  PROVE  OrderCount(o) = n
<1>1. /\ n \in Nat /\ n <= NodeKeys /\ o \in Nat /\ o < Unit(n)
      /\ \A rank \in 0..(n - 1) : f[rank] \in Nat /\ Digit(o, rank) = f[rank] + 1
  BY WordFacts, KeysFacts
<1>2. Unit(n) \in Nat /\ Unit(NodeKeys) \in Nat /\ Unit(n) <= Unit(NodeKeys)
  BY <1>1, KeysFacts, UnitFacts
<1>3. PICK m, b : m = BitLength(o) /\ b = RankBits
  OBVIOUS
<1>4. m \in Nat /\ o < Pow2[m] /\ (m > 0 => o >= Pow2[m - 1])
  BY <1>1, <1>2, <1>3, BitLengthFacts
<1>5. b \in Nat /\ b >= 1 /\ OrderCount(o) = (m + b - 1) \div b
  BY <1>3, RankBitsAssumption DEF OrderCount
<1>6. CASE n = 0
  <2>1. o = 0
    BY <1>1, <1>6, UnitFacts
  <2>2. m = 0
    <3> SUFFICES ASSUME m > 0 PROVE FALSE
      BY <1>4
    <3>1. Pow2[m - 1] \in Nat \ {0}
      <4>1. m - 1 \in Nat
        BY <1>4
      <4> QED
        BY <4>1, PowerFacts
    <3> QED
      BY <1>4, <2>1, <3>1
  <2>3. b - 1 \in 0..(b - 1) /\ m + b - 1 = b * 0 + (b - 1)
    BY <1>5, <2>2
  <2>4. (m + b - 1) \div b = 0
    BY <1>5, <2>3, QuotientIs
  <2> QED
    BY <1>5, <1>6, <2>4
<1>7. CASE n # 0
  <2>1. PICK p : p = n - 1
    OBVIOUS
  <2>2. p \in Nat /\ n = p + 1 /\ p \in 0..(n - 1)
    BY <1>1, <1>7, <2>1
  <2>3. PICK x, y : x = b * p /\ y = b * n
    OBVIOUS
  <2>4. x \in Nat /\ y = x + b /\ Unit(n) = Pow2[y] /\ Unit(p) = Pow2[x] /\ y \in Nat
    BY <1>3, <1>5, <2>2, <2>3 DEF Unit
  <2>5. Unit(p) <= o
    <3> SUFFICES ASSUME ~(Unit(p) <= o) PROVE FALSE
      OBVIOUS
    <3>1. PICK u, k : u = Unit(p) /\ k = NodeKeys
      OBVIOUS
    <3>2. u \in Nat \ {0} /\ k \in Nat \ {0} /\ k - 1 \in Nat
      BY <2>2, <3>1, UnitFacts, KeysFacts
    <3>3. o \in 0..(u - 1) /\ o = u * 0 + o
      BY <1>1, <3>1, <3>2
    <3>4. o \div u = 0
      BY <3>2, <3>3, QuotientIs
    <3>5. 0 \in 0..(k - 1) /\ 0 = k * 0 + 0
      BY <3>2
    <3>6. 0 % k = 0
      BY <3>2, <3>5, QuotientIs
    <3>7. Digit(o, p) = 0
      BY <3>1, <3>4, <3>6 DEF Digit
    <3>8. Digit(o, p) = f[p] + 1 /\ f[p] \in Nat
      BY <1>1, <2>2
    <3> QED
      BY <3>7, <3>8
  <2>6. m <= y
    <3> SUFFICES ASSUME ~(m <= y) PROVE FALSE
      OBVIOUS
    <3>1. m > 0 /\ m - 1 \in Nat /\ y <= m - 1
      BY <1>4, <2>4
    <3>2. Pow2[y] <= Pow2[m - 1] /\ Pow2[y] \in Nat /\ Pow2[m - 1] \in Nat
      BY <2>4, <3>1, PowerGrows, PowerFacts
    <3> QED
      BY <1>1, <1>4, <2>4, <3>1, <3>2
  <2>7. x + 1 <= m
    <3> SUFFICES ASSUME ~(x + 1 <= m) PROVE FALSE
      OBVIOUS
    <3>1. m <= x
      BY <1>4, <2>4
    <3>2. Pow2[m] <= Pow2[x] /\ Pow2[m] \in Nat /\ Pow2[x] \in Nat
      BY <1>4, <2>4, <3>1, PowerGrows, PowerFacts
    <3> QED
      BY <1>1, <1>4, <2>4, <2>5, <3>2
  <2>8. PICK r : r = m - x - 1
    OBVIOUS
  <2>9. r \in 0..(b - 1) /\ m + b - 1 = b * n + r
    BY <1>4, <1>5, <2>3, <2>4, <2>6, <2>7, <2>8
  <2>10. b \in Nat \ {0} /\ n \in Nat
    BY <1>1, <1>5
  <2>11. (b * n + r) \div b = n
    BY <2>9, <2>10, QuotientIs
  <2> QED
    BY <1>5, <2>9, <2>11
<1> QED
  BY <1>6, <1>7

\* What order_slot says of the word of f.
LEMMA SlotsOf ==
  ASSUME NEW o, NEW f, NEW n, IsWord(o, f, n)
  PROVE  /\ \A rank \in 0..(n - 1) : OrderSlot(o, rank) = f[rank]
         /\ \A rank \in Nat : rank >= n => OrderSlot(o, rank) = PadSlot
<1>1. /\ n \in Nat /\ o \in Nat /\ o < Unit(n)
      /\ \A rank \in 0..(n - 1) : f[rank] \in Nat /\ Digit(o, rank) = f[rank] + 1
  BY WordFacts
<1>2. ASSUME NEW rank \in 0..(n - 1) PROVE OrderSlot(o, rank) = f[rank]
  <2>1. rank \in Nat /\ f[rank] \in Nat /\ Digit(o, rank) = f[rank] + 1
    BY <1>1
  <2>2. OrderSlot(o, rank) = IF Digit(o, rank) = 0 THEN PadSlot ELSE Digit(o, rank) - 1
    BY <1>1, <2>1, SlotOfDigit
  <2> QED
    BY <2>1, <2>2
<1>3. ASSUME NEW rank \in Nat, rank >= n PROVE OrderSlot(o, rank) = PadSlot
  <2>1. PICK u, k : u = Unit(rank) /\ k = NodeKeys
    OBVIOUS
  <2>2. u \in Nat \ {0} /\ k \in Nat \ {0} /\ Unit(n) <= u /\ Unit(n) \in Nat
    BY <1>1, <1>3, <2>1, UnitFacts, KeysFacts
  <2>3. o \in 0..(u - 1) /\ o = u * 0 + o
    BY <1>1, <2>2
  <2>4. o \div u = 0
    BY <2>2, <2>3, QuotientIs
  <2>5. 0 \in 0..(k - 1) /\ 0 = k * 0 + 0
    BY <2>2
  <2>6. 0 % k = 0
    BY <2>2, <2>5, QuotientIs
  <2>7. Digit(o, rank) = 0
    BY <2>1, <2>4, <2>6 DEF Digit
  <2> QED
    BY <1>1, <2>7, SlotOfDigit
<1> QED
  BY <1>2, <1>3

-----------------------------------------------------------------------------
(* Splitting a word at a rank.                                             *)

LEMMA Below ==
  ASSUME NEW x \in Nat, NEW y \in Nat, NEW low \in Nat, NEW high \in Nat, low < x, high < y
  PROVE  low + x * high \in Nat /\ low + x * high < x * y
<1>1. PICK d : d \in Nat /\ y = high + 1 + d
  <2>1. y - high - 1 \in Nat /\ y = high + 1 + (y - high - 1)
    OBVIOUS
  <2> QED
    BY <2>1
<1>2. x * high \in Nat /\ x * d \in Nat
  BY <1>1
<1>3. x * y = x * high + x + x * d
  BY <1>1
<1> QED
  BY <1>2, <1>3

LEMMA LowDigits ==
  ASSUME NEW low \in Nat, NEW high \in Nat, NEW k \in Nat, NEW r \in Nat, r < k
  PROVE  Digit(low + Unit(k) * high, r) = Digit(low, r)
<1>1. PICK d : d \in Nat /\ k = r + (d + 1)
  <2>1. k - r - 1 \in Nat /\ k = r + ((k - r - 1) + 1)
    OBVIOUS
  <2> QED
    BY <2>1
<1>2. PICK u, v, b : u = Unit(r) /\ v = Unit(d) /\ b = NodeKeys
  OBVIOUS
<1>3. u \in Nat \ {0} /\ v \in Nat \ {0} /\ b \in Nat \ {0}
  BY <1>1, <1>2, UnitFacts, KeysFacts
<1>4. Unit(k) = u * (b * v)
  <2>1. d + 1 \in Nat
    BY <1>1
  <2>2. Unit(k) = Unit(r) * Unit(d + 1)
    BY <1>1, <2>1, UnitFacts
  <2>3. Unit(d + 1) = b * v
    BY <1>1, <1>2, UnitFacts
  <2> QED
    BY <1>2, <2>2, <2>3
<1>5. PICK q, s : q = low \div u /\ s = low % u
  OBVIOUS
<1>6. q \in Nat /\ s \in 0..(u - 1) /\ low = u * q + s
  BY <1>3, <1>5, Remainder
<1>7. PICK p, c : p = q \div b /\ c = q % b
  OBVIOUS
<1>8. p \in Nat /\ c \in 0..(b - 1) /\ q = b * p + c
  BY <1>3, <1>6, <1>7, Remainder
<1>9. PICK w, z : w = v * high /\ z = p + w
  OBVIOUS
<1>10. w \in Nat /\ z \in Nat
  BY <1>3, <1>8, <1>9
<1>11. PICK t : t = b * z + c
  OBVIOUS
<1>12. t \in Nat
  BY <1>3, <1>8, <1>10, <1>11
<1>13. low + Unit(k) * high = u * t + s
  <2>1. (u * (b * v)) * high = u * (b * w)
    BY <1>3, <1>9
  <2>2. t = q + b * w /\ b * w \in Nat
    BY <1>3, <1>8, <1>9, <1>10, <1>11
  <2>3. u * t = u * q + u * (b * w)
    BY <1>3, <1>6, <2>2
  <2>4. u * q \in Nat /\ u * (b * w) \in Nat
    BY <1>3, <1>6, <2>2
  <2> QED
    BY <1>4, <1>6, <2>1, <2>3, <2>4
<1>14. (u * t + s) \div u = t
  BY <1>3, <1>6, <1>12, QuotientIs
<1>15. (b * z + c) % b = c
  BY <1>3, <1>8, <1>10, QuotientIs
<1> QED
  BY <1>2, <1>5, <1>7, <1>11, <1>13, <1>14, <1>15 DEF Digit

LEMMA HighDigits ==
  ASSUME NEW low \in Nat, NEW high \in Nat, NEW k \in Nat, NEW r \in Nat, low < Unit(k)
  PROVE  Digit(low + Unit(k) * high, k + r) = Digit(high, r)
<1>1. PICK u, v, x : u = Unit(k) /\ v = Unit(r) /\ x = low + Unit(k) * high
  OBVIOUS
<1>2. u \in Nat \ {0} /\ v \in Nat \ {0} /\ Unit(k + r) = u * v
  BY <1>1, UnitFacts
<1>3. u * high \in Nat /\ x = u * high + low /\ low \in 0..(u - 1)
  BY <1>1, <1>2
<1>4. x \in Nat
  BY <1>3
<1>5. x \div u = high
  BY <1>2, <1>3, QuotientIs
<1>6. x \div (u * v) = high \div v
  BY <1>2, <1>4, <1>5, QuotientTwice
<1> QED
  BY <1>1, <1>2, <1>6 DEF Digit

\* A word is what is below a rank, and from there on a word of its own.
LEMMA SplitAt ==
  ASSUME NEW o \in Nat, NEW n \in Nat, NEW k \in 0..n, o < Unit(n)
  PROVE  \E low, high \in Nat : /\ low = o % Unit(k) /\ high = o \div Unit(k)
                                /\ low < Unit(k) /\ high < Unit(n - k)
                                /\ o = low + Unit(k) * high
<1>1. PICK u, v, low, high : u = Unit(k) /\ v = Unit(n - k) /\ low = o % u /\ high = o \div u
  OBVIOUS
<1>2. k \in Nat /\ n - k \in Nat /\ k + (n - k) = n
  OBVIOUS
<1>3. u \in Nat \ {0} /\ v \in Nat \ {0} /\ Unit(n) = u * v
  BY <1>1, <1>2, UnitFacts
<1>4. high \in Nat /\ low \in 0..(u - 1) /\ o = u * high + low
  BY <1>1, <1>3, Remainder
<1>5. low \in Nat /\ low < u /\ o = low + u * high
  <2>1. u * high \in Nat
    BY <1>3, <1>4
  <2> QED
    BY <1>3, <1>4, <2>1
<1>6. high < v
  <2> SUFFICES ASSUME ~(high < v) PROVE FALSE
    OBVIOUS
  <2>1. PICK d : d \in Nat /\ high = v + d
    <3>1. high - v \in Nat /\ high = v + (high - v)
      BY <1>3, <1>4
    <3> QED
      BY <3>1
  <2>2. u * high = u * v + u * d /\ u * d \in Nat /\ u * v \in Nat
    BY <1>3, <2>1
  <2> QED
    BY <1>3, <1>5, <2>2
<1> QED
  BY <1>1, <1>4, <1>5, <1>6

-----------------------------------------------------------------------------
(* order_insert and order_identity.                                        *)

\* The slots f with slot put in at rank.
Spliced(f, n, rank, slot) ==
  [r \in 0..n |-> IF r < rank THEN f[r] ELSE IF r = rank THEN slot ELSE f[r - 1]]

\* The shift to the left loses nothing while a rank is free.
LEMMA InsertWhole ==
  ASSUME NEW o \in Nat, NEW n \in 0..(NodeCapacity - 1), o < Unit(n),
         NEW rank \in 0..n, NEW slot \in 0..(NodeCapacity - 1)
  PROVE  \E low, high \in Nat :
           /\ low < Unit(rank) /\ high < Unit(n - rank) /\ o = low + Unit(rank) * high
           /\ OrderInsert(o, rank, slot) = low + Unit(rank) * ((slot + 1) + Unit(1) * high)
<1>1. n \in Nat /\ rank \in Nat /\ rank <= n /\ n + 1 <= NodeKeys /\ slot \in Nat /\ rank + 1 \in Nat
  BY KeysFacts
<1>2. PICK low, high \in Nat : /\ low = o % Unit(rank) /\ high = o \div Unit(rank)
                               /\ low < Unit(rank) /\ high < Unit(n - rank)
                               /\ o = low + Unit(rank) * high
  BY <1>1, SplitAt
<1>3. PICK u, v, w, x, b : /\ u = Unit(rank) /\ v = Unit(n - rank) /\ w = Unit(rank + 1)
                           /\ x = Unit(NodeKeys) /\ b = NodeKeys
  OBVIOUS
<1>4. /\ u \in Nat \ {0} /\ v \in Nat \ {0} /\ w \in Nat \ {0} /\ x \in Nat \ {0} /\ b \in Nat
      /\ w = b * u /\ Unit(1) = b
  <2>1. n - rank \in Nat
    BY <1>1
  <2> QED
    BY <1>1, <1>3, <2>1, UnitFacts, KeysFacts
<1>5. w * v <= x
  <2>1. n - rank \in Nat /\ (rank + 1) + (n - rank) = n + 1 /\ n + 1 \in Nat
    BY <1>1
  <2>2. Unit(n + 1) = w * v
    BY <1>1, <1>3, <2>1, UnitFacts
  <2>3. Unit(n + 1) <= x
    BY <1>1, <1>3, <2>1, UnitFacts, KeysFacts
  <2> QED
    BY <2>2, <2>3
<1>6. high * w \in Nat /\ high * w < x
  <2>1. w \in Nat /\ v \in Nat /\ 0 \in Nat /\ 0 < w
    BY <1>4
  <2>2. 0 + w * high \in Nat /\ 0 + w * high < w * v
    BY <1>2, <1>3, <2>1, Below
  <2>3. 0 + w * high = high * w /\ w * v \in Nat
    BY <1>2, <1>4
  <2> QED
    BY <1>4, <1>5, <2>2, <2>3
<1>7. (high * w) % x = high * w
  <2>1. PICK y : y = high * w
    OBVIOUS
  <2>2. y \in 0..(x - 1)
    BY <1>4, <1>6, <2>1
  <2>3. (x * 0 + y) % x = y
    BY <1>4, <2>2, QuotientIs
  <2>4. x * 0 + y = y
    BY <1>4, <2>2
  <2> QED
    BY <2>1, <2>3, <2>4
<1>8. OrderInsert(o, rank, slot) = low + high * w + (slot + 1) * u
  <2>1. PICK bit, a : bit = RankBits * rank /\ a = RankBits
    OBVIOUS
  <2>2. a \in Nat /\ bit = a * rank
    BY <2>1, RankBitsAssumption
  <2>3. a * (rank + 1) = bit + a
    BY <1>1, <2>2
  <2>4. Pow2[bit] = u /\ Pow2[bit + a] = w
    BY <1>3, <2>1, <2>3 DEF Unit
  <2>5. Pow2[WordBits] = x
    BY <1>3 DEF Unit, WordBits
  <2>6. OrderInsert(o, rank, slot) = (o % Pow2[bit]) + (((o \div Pow2[bit]) * Pow2[bit + a]) % Pow2[WordBits])
                                       + (slot + 1) * Pow2[bit]
    BY <2>1 DEF OrderInsert
  <2> QED
    BY <1>2, <1>3, <1>7, <2>4, <2>5, <2>6
<1>9. low + high * w + (slot + 1) * u = low + u * ((slot + 1) + b * high)
  <2>1. PICK c : c = slot + 1
    OBVIOUS
  <2>2. c \in Nat
    BY <1>1, <2>1
  <2>3. high * w = u * (b * high)
    BY <1>2, <1>4
  <2>4. u * (c + b * high) = u * c + u * (b * high) /\ c * u = u * c
    BY <1>2, <1>4, <2>2
  <2>5. u * c \in Nat /\ u * (b * high) \in Nat
    BY <1>2, <1>4, <2>2
  <2> QED
    BY <1>2, <2>1, <2>3, <2>4, <2>5
<1> QED
  BY <1>2, <1>3, <1>4, <1>8, <1>9

\* order_insert puts the slot in at the rank and moves those from there on up.
LEMMA InsertIs ==
  ASSUME NEW o, NEW f, NEW n, IsWord(o, f, n), n < NodeCapacity,
         NEW rank \in 0..n, NEW slot \in 0..(NodeCapacity - 1)
  PROVE  IsWord(OrderInsert(o, rank, slot), Spliced(f, n, rank, slot), n + 1)
<1>1. /\ n \in Nat /\ o \in Nat /\ o < Unit(n)
      /\ \A r \in 0..(n - 1) : /\ f[r] \in 0..(NodeCapacity - 1) /\ f[r] \in Nat
                               /\ Digit(o, r) = f[r] + 1
  BY WordFacts
<1>2. n \in 0..(NodeCapacity - 1) /\ n + 1 \in 0..NodeCapacity /\ rank \in Nat /\ rank <= n /\ slot \in Nat
  BY <1>1, KeysFacts
<1>3. PICK low, high \in Nat :
           /\ low < Unit(rank) /\ high < Unit(n - rank) /\ o = low + Unit(rank) * high
           /\ OrderInsert(o, rank, slot) = low + Unit(rank) * ((slot + 1) + Unit(1) * high)
  BY <1>1, <1>2, InsertWhole
<1>4. PICK new, rest, u, b, v : /\ new = OrderInsert(o, rank, slot) /\ rest = (slot + 1) + Unit(1) * high
                                /\ u = Unit(rank) /\ b = NodeKeys /\ v = Unit(n - rank)
  OBVIOUS
<1>5. /\ u \in Nat \ {0} /\ v \in Nat \ {0} /\ b \in Nat /\ Unit(1) = b /\ slot + 1 < b
      /\ n - rank \in Nat /\ Unit((n - rank) + 1) = b * v
  <2>1. n - rank \in Nat
    BY <1>1, <1>2
  <2>2. slot + 1 < b
    BY <1>2, <1>4, KeysFacts
  <2> QED
    BY <1>2, <1>4, <2>1, <2>2, UnitFacts, KeysFacts
<1>6. rest \in Nat /\ rest < b * v
  <2>1. slot + 1 \in Nat /\ v \in Nat
    BY <1>2, <1>5
  <2>2. (slot + 1) + b * high \in Nat /\ (slot + 1) + b * high < b * v
    BY <1>3, <1>4, <1>5, <2>1, Below
  <2> QED
    BY <1>4, <1>5, <2>2
<1>7. new = low + u * rest /\ low < u
  BY <1>3, <1>4
<1>8. new \in Nat /\ new < Unit(n + 1)
  <2>1. PICK y : y = b * v
    OBVIOUS
  <2>2. y \in Nat /\ u \in Nat
    BY <1>5, <2>1
  <2>3. low + u * rest \in Nat /\ low + u * rest < u * y
    BY <1>3, <1>6, <1>7, <2>1, <2>2, Below
  <2>4. rank + ((n - rank) + 1) = n + 1 /\ (n - rank) + 1 \in Nat
    BY <1>1, <1>2, <1>5
  <2>5. Unit(n + 1) = u * y
    BY <1>2, <1>4, <1>5, <2>1, <2>4, UnitFacts
  <2> QED
    BY <1>7, <2>3, <2>5
<1>9. ASSUME NEW r \in 0..n
      PROVE  /\ Spliced(f, n, rank, slot)[r] \in 0..(NodeCapacity - 1)
             /\ Digit(new, r) = Spliced(f, n, rank, slot)[r] + 1
  <2>1. CASE r < rank
    <3>1. r \in Nat /\ r \in 0..(n - 1)
      BY <1>1, <1>2, <2>1
    <3>2. Digit(new, r) = Digit(low, r)
      BY <1>2, <1>3, <1>4, <1>6, <1>7, <2>1, <3>1, LowDigits
    <3>3. Digit(o, r) = Digit(low, r)
      BY <1>2, <1>3, <2>1, <3>1, LowDigits
    <3> QED
      BY <1>1, <2>1, <3>1, <3>2, <3>3 DEF Spliced
  <2>2. CASE r = rank
    <3>1. Digit(low + u * rest, rank + 0) = Digit(rest, 0)
      <4>1. 0 \in Nat
        OBVIOUS
      <4> QED
        BY <1>2, <1>3, <1>4, <1>6, <1>7, <4>1, HighDigits
    <3>2. Digit(rest, 0) = slot + 1
      <4>1. PICK c : c = slot + 1
        OBVIOUS
      <4>2. c \in 0..(b - 1) /\ b \in Nat \ {0} /\ c \in Nat
        BY <1>2, <1>5, <4>1
      <4>3. rest = b * high + c
        BY <1>3, <1>4, <1>5, <4>1, <4>2
      <4>4. rest % b = c
        BY <1>3, <4>2, <4>3, QuotientIs
      <4>5. rest \div 1 = rest
        BY <1>6
      <4> QED
        BY <1>4, <4>1, <4>4, <4>5, UnitFacts DEF Digit
    <3>3. rank + 0 = rank
      BY <1>2
    <3> QED
      BY <1>7, <2>2, <3>1, <3>2, <3>3 DEF Spliced
  <2>3. CASE r > rank
    <3>1. PICK j : j = r - rank - 1
      OBVIOUS
    <3>2. j \in Nat /\ r = rank + (1 + j) /\ r - 1 = rank + j /\ r - 1 \in 0..(n - 1) /\ 1 + j \in Nat
      BY <1>1, <1>2, <2>3, <3>1
    <3>3. Digit(low + u * rest, rank + (1 + j)) = Digit(rest, 1 + j)
      <4>1. PICK i : i = 1 + j
        OBVIOUS
      <4>2. low \in Nat /\ rest \in Nat /\ rank \in Nat /\ i \in Nat /\ low < Unit(rank)
        BY <1>2, <1>3, <1>6, <3>2, <4>1
      <4>3. Digit(low + Unit(rank) * rest, rank + i) = Digit(rest, i)
        BY <4>2, HighDigits
      <4> QED
        BY <1>4, <4>1, <4>3
    <3>4. Digit((slot + 1) + Unit(1) * high, 1 + j) = Digit(high, j)
      <4>1. slot + 1 \in Nat /\ 1 \in Nat /\ slot + 1 < Unit(1)
        BY <1>2, <1>5
      <4> QED
        BY <1>3, <3>2, <4>1, HighDigits
    <3>5. Digit(low + Unit(rank) * high, rank + j) = Digit(high, j)
      BY <1>2, <1>3, <3>2, HighDigits
    <3>6. Digit(new, r) = Digit(o, r - 1)
      BY <1>3, <1>4, <1>7, <3>2, <3>3, <3>4, <3>5
    <3> QED
      BY <1>1, <1>2, <2>3, <3>2, <3>6 DEF Spliced
  <2> QED
    BY <1>2, <2>1, <2>2, <2>3
<1>10. (n + 1) - 1 = n
  BY <1>1
<1>11. new \in 0..(Unit(n + 1) - 1)
  <2>1. Unit(n + 1) \in Nat
    BY <1>2, UnitFacts
  <2> QED
    BY <1>8, <2>1
<1>12. Spliced(f, n, rank, slot) \in [0..n -> 0..(NodeCapacity - 1)]
  BY <1>9 DEF Spliced
<1> QED
  BY <1>2, <1>4, <1>9, <1>10, <1>11, <1>12 DEF IsWord

\* A word grows at the top by a sum.
LEMMA TopIs ==
  ASSUME NEW o, NEW f, NEW n, IsWord(o, f, n), n < NodeCapacity,
         NEW slot \in 0..(NodeCapacity - 1)
  PROVE  IsWord(o + (slot + 1) * Unit(n), Spliced(f, n, n, slot), n + 1)
<1>1. n \in Nat /\ o \in Nat /\ o < Unit(n)
  BY WordFacts
<1>2. n \in 0..(NodeCapacity - 1) /\ n \in 0..n /\ n - n = 0 /\ slot \in Nat
  BY <1>1, KeysFacts
<1>3. PICK low, high \in Nat :
           /\ low < Unit(n) /\ high < Unit(n - n) /\ o = low + Unit(n) * high
           /\ OrderInsert(o, n, slot) = low + Unit(n) * ((slot + 1) + Unit(1) * high)
  BY <1>1, <1>2, InsertWhole
<1>4. high = 0
  BY <1>2, <1>3, UnitFacts
<1>5. PICK u, b, c : u = Unit(n) /\ b = Unit(1) /\ c = slot + 1
  OBVIOUS
<1>6. u \in Nat /\ b \in Nat /\ c \in Nat
  BY <1>1, <1>2, <1>5, UnitFacts, KeysFacts
<1>7. low + u * (c + b * 0) = low + c * u /\ low + u * 0 = low
  BY <1>6
<1>8. OrderInsert(o, n, slot) = o + (slot + 1) * Unit(n)
  BY <1>3, <1>4, <1>5, <1>7
<1>9. IsWord(OrderInsert(o, n, slot), Spliced(f, n, n, slot), n + 1)
  BY <1>2, InsertIs
<1> QED
  BY <1>8, <1>9

\* What starts at 0 and is carried on by steps exists.
StepsFrom(g, n, step) ==
  g \in [0..n -> Nat] /\ g[0] = 0 /\ \A i \in 1..n : g[i] = step[<<i, g[i - 1]>>]

LEMMA StepsExist ==
  ASSUME NEW n \in Nat, NEW step \in [(1..n) \X Nat -> Nat]
  PROVE  \E g : StepsFrom(g, n, step)
<1> DEFINE S == {m \in Nat : m <= n => \E g : StepsFrom(g, m, step)}
<1>1. 0 \in S
  <2>1. StepsFrom([i \in 0..0 |-> 0], 0, step)
    BY DEF StepsFrom
  <2> QED
    BY <2>1
<1>2. ASSUME NEW m \in S PROVE m + 1 \in S
  <2> SUFFICES ASSUME m + 1 <= n PROVE \E g : StepsFrom(g, m + 1, step)
    OBVIOUS
  <2>1. PICK g : StepsFrom(g, m, step)
    OBVIOUS
  <2>2. g[m] \in Nat /\ m + 1 \in 1..n
    BY <2>1 DEF StepsFrom
  <2>3. PICK x : x = step[<<m + 1, g[m]>>]
    OBVIOUS
  <2>4. x \in Nat
    BY <2>2, <2>3
  <2>5. PICK h : h = [i \in 0..(m + 1) |-> IF i = m + 1 THEN x ELSE g[i]]
    OBVIOUS
  <2>6. h \in [0..(m + 1) -> Nat] /\ h[0] = 0
    BY <2>1, <2>4, <2>5 DEF StepsFrom
  <2>7. ASSUME NEW i \in 1..(m + 1) PROVE h[i] = step[<<i, h[i - 1]>>]
    <3>1. CASE i = m + 1
      <4>1. i - 1 = m /\ m \in 0..(m + 1) /\ m # m + 1
        BY <3>1
      <4> QED
        BY <2>3, <2>5, <3>1, <4>1
    <3>2. CASE i # m + 1
      <4>1. i \in 1..m /\ i \in 0..(m + 1) /\ i - 1 \in 0..(m + 1) /\ i - 1 # m + 1
        BY <3>2
      <4>2. h[i] = g[i] /\ h[i - 1] = g[i - 1]
        BY <2>5, <3>2, <4>1
      <4>3. g[i] = step[<<i, g[i - 1]>>]
        BY <2>1, <4>1 DEF StepsFrom
      <4> QED
        BY <4>2, <4>3
    <3> QED
      BY <3>1, <3>2
  <2>8. StepsFrom(h, m + 1, step)
    BY <2>6, <2>7 DEF StepsFrom
  <2> QED
    BY <2>8
<1> HIDE DEF S
<1>3. S = Nat
  BY <1>1, <1>2, NatSteps DEF S
<1>4. n \in S /\ n <= n
  BY <1>3
<1> QED
  BY <1>4 DEF S

\* A word summed up rank by rank.
SumsUp(g, f, n) ==
  g[0] = 0 /\ \A i \in 1..n : g[i] = g[i - 1] + (f[i - 1] + 1) * Unit(i - 1)

LEMMA SummedIsWord ==
  ASSUME NEW n \in 0..NodeCapacity, NEW f \in [0..(n - 1) -> 0..(NodeCapacity - 1)],
         NEW g, SumsUp(g, f, n)
  PROVE  IsWord(g[n], f, n)
<1> DEFINE Part(i) == [r \in 0..(i - 1) |-> f[r]]
           S == {i \in Nat : i <= n => IsWord(g[i], Part(i), i)}
<1>1. n \in Nat /\ n <= NodeCapacity
  BY KeysFacts
<1>2. 0 \in S
  <2>1. g[0] = 0 /\ Unit(0) - 1 = 0 /\ 0 \in 0..0 /\ 0..(0 - 1) = {}
    BY UnitFacts DEF SumsUp
  <2>2. Part(0) \in [0..(0 - 1) -> 0..(NodeCapacity - 1)]
    BY <2>1
  <2>3. 0 \in 0..NodeCapacity
    BY KeysFacts
  <2>4. IsWord(g[0], Part(0), 0)
    BY <2>1, <2>2, <2>3 DEF IsWord
  <2> QED
    BY <2>4
<1>3. ASSUME NEW i \in S PROVE i + 1 \in S
  <2> SUFFICES ASSUME i + 1 <= n PROVE IsWord(g[i + 1], Part(i + 1), i + 1)
    OBVIOUS
  <2>0. i \in Nat /\ n \in Nat /\ i + 1 <= n
    BY <1>1
  <2>1. /\ i \in Nat /\ i + 1 \in 1..n /\ (i + 1) - 1 = i /\ i \in 0..(n - 1) /\ i < NodeCapacity
        /\ i <= n
    <3>1. i \in Nat /\ i + 1 \in 1..n /\ (i + 1) - 1 = i /\ i \in 0..(n - 1) /\ i <= n
      BY <2>0
    <3>2. i < NodeCapacity
      BY <2>0, <1>1, KeysFacts
    <3> QED
      BY <3>1, <3>2
  <2>2. IsWord(g[i], Part(i), i)
    BY <2>1
  <2>3. PICK h, o, slot : h = Part(i) /\ o = g[i] /\ slot = f[i]
    OBVIOUS
  <2>4. IsWord(o, h, i) /\ slot \in 0..(NodeCapacity - 1)
    BY <2>1, <2>2, <2>3
  <2>5. IsWord(o + (slot + 1) * Unit(i), Spliced(h, i, i, slot), i + 1)
    BY <2>1, <2>4, TopIs
  <2>6. g[i + 1] = o + (slot + 1) * Unit(i)
    BY <2>1, <2>3 DEF SumsUp
  <2>7. Spliced(h, i, i, slot) = Part(i + 1)
    <3>1. \A r \in 0..i : (r < i => r \in 0..(i - 1)) /\ (~(r < i) => r = i)
      BY <2>1
    <3>2. \A r \in 0..i : Spliced(h, i, i, slot)[r] = f[r]
      BY <2>3, <3>1 DEF Spliced
    <3> QED
      BY <2>1, <3>2 DEF Spliced
  <2> QED
    BY <2>5, <2>6, <2>7
<1>4. Part(n) = f
  OBVIOUS
<1> HIDE DEF S, Part
<1>5. S = Nat
  BY <1>2, <1>3, NatSteps DEF S
<1>6. IsWord(g[n], Part(n), n)
  <2>1. n \in S /\ n <= n
    BY <1>1, <1>5
  <2> QED
    BY <2>1 DEF S
<1> QED
  BY <1>4, <1>6

\* The word of sorted slots is that of the identity.
LEMMA IdentityIs ==
  ASSUME NEW n \in 0..NodeCapacity
  PROVE  IsWord(OrderIdentity(n), [r \in 0..(n - 1) |-> r], n)
<1>1. n \in Nat /\ n <= NodeCapacity /\ NodeCapacity \in Nat
  BY KeysFacts
<1>2. \A i \in 1..n : i \in Nat /\ i - 1 \in Nat /\ Unit(i - 1) \in Nat
  <2>1. \A i \in 1..n : i \in Nat /\ i - 1 \in Nat
    BY <1>1
  <2>2. \A r \in Nat : Unit(r) \in Nat
    BY UnitFacts
  <2> QED
    BY <2>1, <2>2
<1>3. PICK step : step = [p \in (1..n) \X Nat |-> p[2] + p[1] * Unit(p[1] - 1)]
  OBVIOUS
<1>4. step \in [(1..n) \X Nat -> Nat]
  <2>1. ASSUME NEW p \in (1..n) \X Nat PROVE p[2] + p[1] * Unit(p[1] - 1) \in Nat
    <3>1. PICK i, x, u : i = p[1] /\ x = p[2] /\ u = Unit(p[1] - 1)
      OBVIOUS
    <3>2. i \in Nat /\ x \in Nat /\ u \in Nat
      BY <1>2, <3>1
    <3>3. x + i * u \in Nat
      BY <3>2
    <3> QED
      BY <3>1, <3>3
  <2> QED
    BY <1>3, <2>1
<1>5. PICK g : StepsFrom(g, n, step)
  BY <1>1, <1>4, StepsExist
<1>6. \A i \in 1..n : g[i - 1] \in Nat /\ g[i] = g[i - 1] + i * Unit(i - 1)
  <2> SUFFICES ASSUME NEW i \in 1..n PROVE g[i - 1] \in Nat /\ g[i] = g[i - 1] + i * Unit(i - 1)
    OBVIOUS
  <2>1. i - 1 \in 0..n
    BY <1>1
  <2>2. g[i - 1] \in Nat /\ g[i] = step[<<i, g[i - 1]>>]
    BY <1>5, <2>1 DEF StepsFrom
  <2> QED
    BY <1>3, <2>2
<1>7. g = [i \in 0..n |-> IF i = 0 THEN 0 ELSE g[i - 1] + i * Unit(i - 1)]
  <2>1. \A i \in 0..n : i # 0 => i \in 1..n
    BY <1>1
  <2>2. g[0] = 0 /\ g \in [0..n -> Nat]
    BY <1>5 DEF StepsFrom
  <2>3. \A i \in 0..n : g[i] = IF i = 0 THEN 0 ELSE g[i - 1] + i * Unit(i - 1)
    BY <1>6, <2>1, <2>2
  <2> QED
    BY <2>2, <2>3
<1>8. PICK w : w = CHOOSE sum : sum = [i \in 0..n |-> IF i = 0 THEN 0 ELSE sum[i - 1] + i * Pow2[RankBits * (i - 1)]]
  OBVIOUS
<1>9. w = [i \in 0..n |-> IF i = 0 THEN 0 ELSE w[i - 1] + i * Unit(i - 1)]
  BY <1>7, <1>8 DEF Unit
<1>10. PICK f : f = [r \in 0..(n - 1) |-> r]
  OBVIOUS
<1>11. SumsUp(w, f, n)
  <2>1. 0 \in 0..n /\ \A i \in 1..n : i \in 0..n /\ i # 0 /\ i - 1 \in 0..(n - 1) /\ (i - 1) + 1 = i
    BY <1>1
  <2> QED
    BY <1>9, <1>10, <2>1 DEF SumsUp
<1>12. f \in [0..(n - 1) -> 0..(NodeCapacity - 1)]
  BY <1>1, <1>10
<1>13. IsWord(w[n], f, n)
  BY <1>11, <1>12, SummedIsWord
<1>14. OrderIdentity(n) = w[n]
  BY <1>8 DEF OrderIdentity
<1> QED
  BY <1>10, <1>13, <1>14

\* A word built by hand names the slots dealt.
LEMMA HandBuiltIs ==
  ASSUME NEW slots \in [0..(NodeCapacity - 1) -> 0..(NodeCapacity - 1)]
  PROVE  IsWord(HandBuiltWord(slots), slots, NodeCapacity)
<1>1. PICK n : n = NodeCapacity
  OBVIOUS
<1>2. n \in Nat /\ n \in 0..NodeCapacity
  BY <1>1, KeysFacts
<1>3. \A i \in 1..n : i \in Nat /\ slots[i - 1] \in Nat /\ Unit(i - 1) \in Nat
  <2>1. \A i \in 1..n : i \in Nat /\ i - 1 \in Nat /\ i - 1 \in 0..(NodeCapacity - 1)
    BY <1>1, <1>2
  <2>2. \A r \in Nat : Unit(r) \in Nat
    BY UnitFacts
  <2>3. \A r \in 0..(NodeCapacity - 1) : slots[r] \in Nat
    BY <1>1, <1>2
  <2> QED
    BY <2>1, <2>2, <2>3
<1>4. PICK step : step = [p \in (1..n) \X Nat |-> p[2] + (slots[p[1] - 1] + 1) * Unit(p[1] - 1)]
  OBVIOUS
<1>5. step \in [(1..n) \X Nat -> Nat]
  <2>1. ASSUME NEW p \in (1..n) \X Nat PROVE p[2] + (slots[p[1] - 1] + 1) * Unit(p[1] - 1) \in Nat
    <3>1. PICK i, x, u : i = slots[p[1] - 1] /\ x = p[2] /\ u = Unit(p[1] - 1)
      OBVIOUS
    <3>2. i \in Nat /\ x \in Nat /\ u \in Nat
      BY <1>3, <3>1
    <3>3. x + (i + 1) * u \in Nat
      BY <3>2
    <3> QED
      BY <3>1, <3>3
  <2> QED
    BY <1>4, <2>1
<1>6. PICK g : StepsFrom(g, n, step)
  BY <1>2, <1>5, StepsExist
<1>7. \A i \in 1..n : g[i - 1] \in Nat /\ g[i] = g[i - 1] + (slots[i - 1] + 1) * Unit(i - 1)
  <2> SUFFICES ASSUME NEW i \in 1..n
               PROVE  g[i - 1] \in Nat /\ g[i] = g[i - 1] + (slots[i - 1] + 1) * Unit(i - 1)
    OBVIOUS
  <2>1. i - 1 \in 0..n
    BY <1>2
  <2>2. g[i - 1] \in Nat /\ g[i] = step[<<i, g[i - 1]>>]
    BY <1>6, <2>1 DEF StepsFrom
  <2> QED
    BY <1>4, <2>2
<1>8. g = [i \in 0..n |-> IF i = 0 THEN 0 ELSE g[i - 1] + (slots[i - 1] + 1) * Unit(i - 1)]
  <2>1. \A i \in 0..n : i # 0 => i \in 1..n
    BY <1>2
  <2>2. g[0] = 0 /\ g \in [0..n -> Nat]
    BY <1>6 DEF StepsFrom
  <2>3. \A i \in 0..n : g[i] = IF i = 0 THEN 0 ELSE g[i - 1] + (slots[i - 1] + 1) * Unit(i - 1)
    BY <1>7, <2>1, <2>2
  <2> QED
    BY <2>2, <2>3
<1>9. PICK w : w = CHOOSE built : built = [rank \in 0..NodeCapacity |->
                IF rank = 0 THEN 0
                ELSE built[rank - 1] + (slots[rank - 1] + 1) * Pow2[RankBits * (rank - 1)]]
  OBVIOUS
<1>10. w = [i \in 0..n |-> IF i = 0 THEN 0 ELSE w[i - 1] + (slots[i - 1] + 1) * Unit(i - 1)]
  BY <1>1, <1>8, <1>9 DEF Unit
<1>11. SumsUp(w, slots, n)
  <2>1. 0 \in 0..n /\ \A i \in 1..n : i \in 0..n /\ i # 0
    BY <1>2
  <2> QED
    BY <1>10, <2>1 DEF SumsUp
<1>12. IsWord(w[n], slots, n)
  BY <1>1, <1>2, <1>11, SummedIsWord
<1>13. HandBuiltWord(slots) = w[n]
  BY <1>1, <1>9 DEF HandBuiltWord
<1> QED
  BY <1>1, <1>12, <1>13


\* A word is its digits.
LEMMA WordsEqual ==
  ASSUME NEW o, NEW p, NEW f, NEW n, IsWord(o, f, n), IsWord(p, f, n)
  PROVE  o = p
<1> DEFINE S == {i \in Nat : i <= n => o \div Unit(n - i) = p \div Unit(n - i)}
<1>1. n \in Nat /\ o \in Nat /\ p \in Nat /\ o < Unit(n) /\ p < Unit(n)
  BY WordFacts
<1>2. 0 \in S
  <2>1. Unit(n) \in Nat \ {0} /\ n - 0 = n
    BY <1>1, UnitFacts
  <2>2. PICK u : u = Unit(n)
    OBVIOUS
  <2>3. \A x \in Nat : x < u => x \div u = 0
    <3> SUFFICES ASSUME NEW x \in Nat, x < u PROVE x \div u = 0
      OBVIOUS
    <3>1. u \in Nat \ {0} /\ x \in 0..(u - 1) /\ x = u * 0 + x /\ 0 \in Nat
      BY <2>1, <2>2
    <3>2. (u * 0 + x) \div u = 0
      BY <3>1, QuotientIs
    <3> QED
      BY <3>1, <3>2
  <2>4. o \div Unit(n) = 0 /\ p \div Unit(n) = 0
    BY <1>1, <2>2, <2>3
  <2> QED
    BY <2>1, <2>4
<1>3. ASSUME NEW i \in S PROVE i + 1 \in S
  <2> SUFFICES ASSUME i + 1 <= n
               PROVE  o \div Unit(n - (i + 1)) = p \div Unit(n - (i + 1))
    OBVIOUS
  <2>1. PICK r : r = n - (i + 1)
    OBVIOUS
  <2>2. i \in Nat /\ r \in Nat /\ r \in 0..(n - 1) /\ n - i = r + 1 /\ i <= n
    BY <1>1, <2>1
  <2>3. o \div Unit(r + 1) = p \div Unit(r + 1)
    BY <2>2
  <2>4. PICK u : u = Unit(r)
    OBVIOUS
  <2>5. u \in Nat \ {0} /\ Unit(r + 1) = NodeKeys * u /\ NodeKeys \in Nat \ {0}
    BY <2>2, <2>4, UnitFacts, KeysFacts
  <2>6. Unit(r + 1) = u * NodeKeys
    BY <2>5
  <2>7. (o \div u) \div NodeKeys = (p \div u) \div NodeKeys
    <3>1. o \in Nat /\ p \in Nat /\ u \in Nat \ {0} /\ NodeKeys \in Nat \ {0}
      BY <1>1, <2>5
    <3>2. (o \div u) \div NodeKeys = o \div (u * NodeKeys)
      BY <3>1, QuotientTwice
    <3>3. (p \div u) \div NodeKeys = p \div (u * NodeKeys)
      BY <3>1, QuotientTwice
    <3> QED
      BY <2>3, <2>6, <3>2, <3>3
  <2>8. (o \div u) % NodeKeys = (p \div u) % NodeKeys
    <3>1. Digit(o, r) = f[r] + 1 /\ Digit(p, r) = f[r] + 1
      BY <2>2, WordFacts
    <3> QED
      BY <2>4, <3>1 DEF Digit
  <2>9. o \div u \in Nat /\ p \div u \in Nat
    BY <1>1, <2>5, Remainder
  <2>10. PICK x, y, k : x = o \div u /\ y = p \div u /\ k = NodeKeys
    OBVIOUS
  <2>11. x \in Nat /\ y \in Nat /\ k \in Nat \ {0} /\ x \div k = y \div k /\ x % k = y % k
    BY <2>5, <2>7, <2>8, <2>9, <2>10
  <2>12. x = k * (x \div k) + (x % k) /\ y = k * (y \div k) + (y % k)
    BY <2>11, Remainder
  <2>13. x = y
    BY <2>11, <2>12
  <2> QED
    BY <2>1, <2>4, <2>10, <2>13
<1> HIDE DEF S
<1>4. S = Nat
  <2>1. S \in SUBSET Nat
    BY DEF S
  <2> QED
    BY <1>2, <1>3, <2>1, NatSteps
<1>5. o \div Unit(n - n) = p \div Unit(n - n)
  <2>1. n \in S /\ n <= n
    BY <1>1, <1>4
  <2> QED
    BY <2>1 DEF S
<1>6. n - n = 0 /\ Unit(0) = 1
  BY <1>1, UnitFacts
<1>7. o \div 1 = p \div 1
  BY <1>5, <1>6
<1>8. \A x \in Nat : x \div 1 = x
  OBVIOUS
<1> QED
  BY <1>1, <1>7, <1>8

-----------------------------------------------------------------------------
(* The inductive invariant of the writer and the reader.                   *)

\* The slots a word names, rank by rank.
Slots(o) == [r \in 0..(OrderCount(o) - 1) |-> OrderSlot(o, r)]

\* f lists the slots below n, each once.
Permutes(f, n) ==
  /\ f \in [0..(n - 1) -> 0..(n - 1)]
  /\ \A q, r \in 0..(n - 1) : f[q] = f[r] => q = r
  /\ \A s \in 0..(n - 1) : \E r \in 0..(n - 1) : f[r] = s

Ascends(line, f, n) == \A q, r \in 0..(n - 1) : q < r => line[f[q]] <= line[f[r]]

\* o is the word of f, which lists the slots below n.
Names(o, f, n) == IsWord(o, f, n) /\ Permutes(f, n)

Ordered(line, o, f, n) == Names(o, f, n) /\ Ascends(line, f, n)

\* A word that names the slots below its count, each once.
Named(o) == Names(o, Slots(o), OrderCount(o))

\* A word that orders the lanes below its count.
Orders(line, o) == Ordered(line, o, Slots(o), OrderCount(o))

\* The words of the writer and of the reader name the lanes below their counts, each
\* once and in any order, and the reader's counts no more of them: a store goes to
\* the lane past both.  Without the permutation a count of lanes is none of ranks;
\* without the room left while a store is under way the next one could reach the
\* padding.
KernelInv ==
  /\ lanes \in [Lanes -> 0..EmptyKey] /\ lanes[PadSlot] = EmptyKey
  /\ pc \in {"idle", "storing", "publish"}
  /\ Named(word) /\ Named(snap)
  /\ OrderCount(snap) <= OrderCount(word)
  /\ pc # "idle" => HasRoom

-----------------------------------------------------------------------------
(* The writer and the reader keep the words.                               *)

LEMMA WordForm ==
  ASSUME NEW o, NEW f, NEW n, IsWord(o, f, n)
  PROVE  OrderCount(o) = n /\ Slots(o) = f
<1>1. OrderCount(o) = n
  BY CountIs
<1>2. \A rank \in 0..(n - 1) : OrderSlot(o, rank) = f[rank]
  BY SlotsOf
<1>3. f = [rank \in 0..(n - 1) |-> f[rank]]
  BY DEF IsWord
<1> QED
  BY <1>1, <1>2, <1>3 DEF Slots

LEMMA NamedFacts ==
  ASSUME NEW o, Named(o)
  PROVE  \E f, n : /\ Names(o, f, n) /\ f = Slots(o) /\ n = OrderCount(o)
                   /\ n \in Nat /\ n <= NodeCapacity /\ n < NodeKeys /\ o \in Nat
                   /\ \A rank \in 0..(n - 1) : OrderSlot(o, rank) = f[rank] /\ f[rank] \in 0..(n - 1)
                   /\ \A rank \in Nat : rank >= n => OrderSlot(o, rank) = PadSlot
<1>1. PICK f, n : f = Slots(o) /\ n = OrderCount(o)
  OBVIOUS
<1>2. Names(o, f, n)
  BY <1>1 DEF Named
<1>3. IsWord(o, f, n) /\ Permutes(f, n)
  BY <1>2 DEF Names
<1>4. n \in Nat /\ n <= NodeCapacity /\ n < NodeKeys /\ o \in Nat
  BY <1>3, WordFacts
<1>5. /\ \A rank \in 0..(n - 1) : OrderSlot(o, rank) = f[rank]
      /\ \A rank \in Nat : rank >= n => OrderSlot(o, rank) = PadSlot
  BY <1>3, SlotsOf
<1>6. \A rank \in 0..(n - 1) : f[rank] \in 0..(n - 1)
  BY <1>3 DEF Permutes
<1> QED
  BY <1>1, <1>2, <1>4, <1>5, <1>6

LEMMA NamesIs ==
  ASSUME NEW o, NEW f, NEW n, Names(o, f, n)
  PROVE  Named(o) /\ OrderCount(o) = n /\ Slots(o) = f
<1>1. IsWord(o, f, n)
  BY DEF Names
<1>2. OrderCount(o) = n /\ Slots(o) = f
  BY <1>1, WordForm
<1> QED
  BY <1>2 DEF Named

LEMMA OrdersFacts ==
  ASSUME NEW line, NEW o, Orders(line, o)
  PROVE  \E f, n : /\ Ordered(line, o, f, n) /\ f = Slots(o) /\ n = OrderCount(o)
                   /\ n \in Nat /\ n <= NodeCapacity /\ n < NodeKeys /\ o \in Nat
                   /\ \A rank \in 0..(n - 1) : OrderSlot(o, rank) = f[rank] /\ f[rank] \in 0..(n - 1)
                   /\ \A rank \in Nat : rank >= n => OrderSlot(o, rank) = PadSlot
<1>1. Named(o)
  BY DEF Orders, Ordered, Named
<1> QED
  BY <1>1, NamedFacts DEF Orders

LEMMA OrderedIs ==
  ASSUME NEW line, NEW o, NEW f, NEW n, Ordered(line, o, f, n)
  PROVE  Orders(line, o) /\ OrderCount(o) = n /\ Slots(o) = f
<1>1. OrderCount(o) = n /\ Slots(o) = f
  BY NamesIs DEF Ordered
<1> QED
  BY <1>1 DEF Orders

LEMMA SplicedPermutes ==
  ASSUME NEW n \in Nat, NEW f, Permutes(f, n), NEW rank \in 0..n
  PROVE  Permutes(Spliced(f, n, rank, n), n + 1)
<1>1. PICK h : h = Spliced(f, n, rank, n)
  OBVIOUS
<1>2. /\ DOMAIN h = 0..n
      /\ \A r \in 0..n : h[r] = IF r < rank THEN f[r] ELSE IF r = rank THEN n ELSE f[r - 1]
      /\ h = [r \in 0..n |-> h[r]]
  BY <1>1 DEF Spliced
<1>3. \A r \in 0..(n - 1) : f[r] \in 0..(n - 1)
  BY DEF Permutes
<1>4. \A r \in 0..n : /\ r < rank => r \in 0..(n - 1)
                      /\ r > rank => r - 1 \in 0..(n - 1)
  OBVIOUS
<1>5. ASSUME NEW r \in 0..n PROVE h[r] \in 0..n /\ (r # rank => h[r] \in 0..(n - 1))
  <2>1. CASE r < rank
    <3>1. h[r] \in 0..(n - 1)
      BY <1>2, <1>3, <1>4, <2>1
    <3> QED
      BY <3>1
  <2>2. CASE r = rank
    BY <1>2, <2>2
  <2>3. CASE r > rank
    <3>1. h[r] \in 0..(n - 1)
      BY <1>2, <1>3, <1>4, <2>3
    <3> QED
      BY <3>1
  <2> QED
    BY <2>1, <2>2, <2>3
<1>6. ASSUME NEW q \in 0..n, NEW r \in 0..n, h[q] = h[r] PROVE q = r
  <2>1. \A a, b \in 0..(n - 1) : f[a] = f[b] => a = b
    BY DEF Permutes
  <2>2. CASE q = rank \/ r = rank
    <3>1. h[rank] = n /\ n \notin 0..(n - 1)
      BY <1>2
    <3> QED
      BY <1>5, <1>6, <2>2, <3>1
  <2>3. CASE q < rank /\ r < rank
    <3>1. h[q] = f[q] /\ h[r] = f[r] /\ q \in 0..(n - 1) /\ r \in 0..(n - 1)
      BY <1>2, <1>4, <2>3
    <3> QED
      BY <1>6, <2>1, <3>1
  <2>4. CASE q < rank /\ r > rank
    <3>1. h[q] = f[q] /\ h[r] = f[r - 1] /\ q \in 0..(n - 1) /\ r - 1 \in 0..(n - 1)
      BY <1>2, <1>4, <2>4
    <3>2. q = r - 1
      BY <1>6, <2>1, <3>1
    <3> QED
      BY <2>4, <3>2
  <2>5. CASE q > rank /\ r < rank
    <3>1. h[q] = f[q - 1] /\ h[r] = f[r] /\ q - 1 \in 0..(n - 1) /\ r \in 0..(n - 1)
      BY <1>2, <1>4, <2>5
    <3>2. q - 1 = r
      BY <1>6, <2>1, <3>1
    <3> QED
      BY <2>5, <3>2
  <2>6. CASE q > rank /\ r > rank
    <3>1. h[q] = f[q - 1] /\ h[r] = f[r - 1] /\ q - 1 \in 0..(n - 1) /\ r - 1 \in 0..(n - 1)
      BY <1>2, <1>4, <2>6
    <3>2. q - 1 = r - 1
      BY <1>6, <2>1, <3>1
    <3> QED
      BY <3>2
  <2> QED
    BY <2>2, <2>3, <2>4, <2>5, <2>6
<1>7. ASSUME NEW s \in 0..n PROVE \E r \in 0..n : h[r] = s
  <2>1. CASE s = n
    BY <1>2, <2>1
  <2>2. CASE s # n
    <3>1. s \in 0..(n - 1)
      BY <2>2
    <3>2. PICK r \in 0..(n - 1) : f[r] = s
      BY <3>1 DEF Permutes
    <3>3. CASE r < rank
      BY <1>2, <3>2, <3>3
    <3>4. CASE ~(r < rank)
      <4>1. r + 1 \in 0..n /\ ~(r + 1 < rank) /\ r + 1 # rank /\ (r + 1) - 1 = r
        BY <3>4
      <4> QED
        BY <1>2, <3>2, <4>1
    <3> QED
      BY <3>3, <3>4
  <2> QED
    BY <2>1, <2>2
<1>8. (n + 1) - 1 = n
  OBVIOUS
<1> QED
  BY <1>1, <1>2, <1>5, <1>6, <1>7, <1>8 DEF Permutes

LEMMA SplicedAscends ==
  ASSUME NEW n \in Nat, NEW f, Permutes(f, n), NEW rank \in 0..n,
         NEW line, \A s \in 0..n : line[s] \in Nat, Ascends(line, f, n),
         \A r \in 0..(n - 1) : IF r < rank THEN line[f[r]] <= line[n] ELSE line[f[r]] >= line[n]
  PROVE  Ascends(line, Spliced(f, n, rank, n), n + 1)
<1>1. PICK h : h = Spliced(f, n, rank, n)
  OBVIOUS
<1>2. \A r \in 0..n : h[r] = IF r < rank THEN f[r] ELSE IF r = rank THEN n ELSE f[r - 1]
  BY <1>1 DEF Spliced
<1>3. \A r \in 0..(n - 1) : f[r] \in 0..n /\ line[f[r]] \in Nat
  <2>1. \A r \in 0..(n - 1) : f[r] \in 0..(n - 1)
    BY DEF Permutes
  <2>2. \A s \in 0..(n - 1) : s \in 0..n
    OBVIOUS
  <2> QED
    BY <2>1, <2>2
<1>4. \A r \in 0..n : /\ r < rank => r \in 0..(n - 1)
                      /\ r > rank => r - 1 \in 0..(n - 1)
  OBVIOUS
<1>5. ASSUME NEW q \in 0..n, NEW r \in 0..n, q < r PROVE line[h[q]] <= line[h[r]]
  <2>1. CASE r < rank
    <3>1. h[q] = f[q] /\ h[r] = f[r] /\ q \in 0..(n - 1) /\ r \in 0..(n - 1)
      BY <1>2, <1>4, <1>5, <2>1
    <3> QED
      BY <1>5, <3>1 DEF Ascends
  <2>2. CASE r = rank
    <3>1. h[q] = f[q] /\ h[r] = n /\ q \in 0..(n - 1) /\ q < rank
      BY <1>2, <1>4, <1>5, <2>2
    <3> QED
      BY <3>1
  <2>3. CASE r > rank /\ q < rank
    <3>1. h[q] = f[q] /\ h[r] = f[r - 1] /\ q \in 0..(n - 1) /\ r - 1 \in 0..(n - 1) /\ q < r - 1
      BY <1>2, <1>4, <2>3
    <3> QED
      BY <3>1 DEF Ascends
  <2>4. CASE r > rank /\ q = rank
    <3>1. h[q] = n /\ h[r] = f[r - 1] /\ r - 1 \in 0..(n - 1) /\ ~(r - 1 < rank)
      BY <1>2, <1>4, <2>4
    <3>2. line[f[r - 1]] >= line[n]
      BY <3>1
    <3>3. line[f[r - 1]] \in Nat /\ line[n] \in Nat
      BY <1>3, <3>1
    <3>4. line[n] <= line[f[r - 1]]
      BY <3>2, <3>3
    <3> QED
      BY <3>1, <3>4
  <2>5. CASE r > rank /\ q > rank
    <3>1. h[q] = f[q - 1] /\ h[r] = f[r - 1] /\ q - 1 \in 0..(n - 1) /\ r - 1 \in 0..(n - 1) /\ q - 1 < r - 1
      BY <1>2, <1>4, <1>5, <2>5
    <3> QED
      BY <3>1 DEF Ascends
  <2> QED
    BY <1>5, <2>1, <2>2, <2>3, <2>4, <2>5
<1>6. (n + 1) - 1 = n
  OBVIOUS
<1> QED
  BY <1>1, <1>5, <1>6 DEF Ascends

LEMMA LaneFacts ==
  /\ EmptyKey \in Nat /\ 0..EmptyKey \subseteq Nat
  /\ Lanes = 0..NodeCapacity /\ PadSlot = NodeCapacity
  /\ LaneValue \subseteq 0..EmptyKey /\ EmptyKey \in LaneValue
<1>1. LaneBits \in Nat
  BY LaneAssumption
<1>2. Pow2[LaneBits] \in Nat \ {0}
  BY <1>1, PowerFacts
<1>3. EmptyKey \in Nat
  BY <1>2 DEF EmptyKey
<1> QED
  BY <1>3, KeysFacts, LaneAssumption DEF Lanes

LEMMA InitSound == Init => KernelInv
<1> SUFFICES ASSUME Init PROVE KernelInv
  OBVIOUS
<1>1. PICK half : half = NodeKeys \div 2
  OBVIOUS
<1>2. half \in Nat /\ half <= NodeCapacity
  <2>1. NodeKeys \in Nat /\ NodeKeys >= 2 /\ NodeCapacity = NodeKeys - 1
    BY KeysFacts
  <2> QED
    BY <1>1, <2>1
<1>3. PICK run \in {<<>>} \union [1..half -> LaneValue] :
        /\ lanes = [s \in Lanes |-> IF s < Len(run) THEN run[s + 1] ELSE EmptyKey]
        /\ word = OrderIdentity(Len(run))
  BY <1>1 DEF Init
<1>4. PICK n : n = Len(run)
  OBVIOUS
<1>5. n \in 0..NodeCapacity /\ n \in Nat /\ n <= NodeCapacity /\ DOMAIN run = 1..n
      /\ \A s \in 1..n : run[s] \in LaneValue
  <2>1. CASE run = <<>>
    <3>1. n = 0 /\ DOMAIN run = {} /\ 1..0 = {}
      BY <1>4, <2>1
    <3> QED
      BY <3>1, KeysFacts
  <2>2. CASE run \in [1..half -> LaneValue]
    <3>1. n = half
      BY <1>2, <1>4, <2>2
    <3> QED
      BY <1>2, <2>2, <3>1, KeysFacts
  <2> QED
    BY <1>3, <2>1, <2>2
<1>6. PICK f : f = [r \in 0..(n - 1) |-> r]
  OBVIOUS
<1>7. IsWord(word, f, n)
  BY <1>3, <1>4, <1>5, <1>6, IdentityIs
<1>8. Permutes(f, n)
  BY <1>5, <1>6 DEF Permutes
<1>9. \A s \in Lanes : /\ s \in Nat /\ (s < n => s + 1 \in 1..n)
                       /\ lanes[s] = IF s < n THEN run[s + 1] ELSE EmptyKey
  BY <1>3, <1>4, <1>5, LaneFacts, KeysFacts
<1>10. lanes \in [Lanes -> 0..EmptyKey]
  <2>1. \A s \in Lanes : lanes[s] \in 0..EmptyKey
    BY <1>5, <1>9, LaneFacts
  <2>2. lanes = [s \in Lanes |-> IF s < Len(run) THEN run[s + 1] ELSE EmptyKey]
    BY <1>3
  <2> QED
    BY <2>1, <2>2
<1>11. lanes[PadSlot] = EmptyKey
  <2>1. NodeCapacity \in Lanes /\ ~(NodeCapacity < n)
    BY <1>5, LaneFacts, KeysFacts
  <2> QED
    BY <1>9, <2>1, LaneFacts
<1>12. Names(word, f, n)
  BY <1>7, <1>8 DEF Names
<1>13. Named(word) /\ OrderCount(word) = n
  BY <1>12, NamesIs
<1>14. pc = "idle" /\ snap = word
  BY DEF Init
<1>15. OrderCount(snap) <= OrderCount(word)
  BY <1>5, <1>13, <1>14
<1> QED
  BY <1>10, <1>11, <1>13, <1>14, <1>15 DEF KernelInv

\* A store reaches only the lane past those the words name.
LEMMA StoreKeeps ==
  ASSUME KernelInv, NEW s \in LaneValue, HasRoom, lanes' = [lanes EXCEPT ![Free] = s]
  PROVE  lanes' \in [Lanes -> 0..EmptyKey] /\ lanes'[PadSlot] = EmptyKey
<1>1. PICK n : n = OrderCount(word) /\ n \in Nat /\ n <= NodeCapacity
  BY NamedFacts DEF KernelInv
<1>2. n < NodeCapacity /\ NodeCapacity \in Nat
  BY <1>1, KeysFacts DEF HasRoom
<1>3. lanes \in [Lanes -> 0..EmptyKey] /\ lanes[PadSlot] = EmptyKey
  BY DEF KernelInv
<1>4. lanes' = [lanes EXCEPT ![n] = s] /\ s \in 0..EmptyKey
  BY <1>1, LaneFacts DEF Free
<1>5. PadSlot \in Lanes /\ PadSlot # n
  BY <1>1, <1>2, LaneFacts
<1> QED
  BY <1>3, <1>4, <1>5

\* What publishing does to the slots, at the rank the comparator found.
LEMMA PublishNames ==
  ASSUME KernelInv, NEW rank \in 0..OrderCount(word), Publish(rank)
  PROVE  \E f, n : /\ Names(word, f, n) /\ n \in Nat /\ n < NodeCapacity /\ rank \in 0..n
                   /\ Names(word', Spliced(f, n, rank, n), n + 1)
<1>1. PICK f, n : Names(word, f, n) /\ n = OrderCount(word) /\ n \in Nat
  BY NamedFacts DEF KernelInv
<1>2. n < NodeCapacity /\ NodeCapacity \in Nat /\ rank \in 0..n
  BY <1>1, KeysFacts DEF KernelInv, HasRoom, Publish
<1>3. word' = OrderInsert(word, rank, n)
  BY <1>1 DEF Publish, Free
<1>4. IsWord(word, f, n) /\ Permutes(f, n)
  BY <1>1 DEF Names
<1>5. n \in 0..(NodeCapacity - 1)
  BY <1>1, <1>2
<1>6. IsWord(word', Spliced(f, n, rank, n), n + 1)
  BY <1>2, <1>3, <1>4, <1>5, InsertIs
<1>7. Permutes(Spliced(f, n, rank, n), n + 1)
  BY <1>1, <1>2, <1>4, SplicedPermutes
<1> QED
  BY <1>1, <1>2, <1>6, <1>7 DEF Names

LEMMA StepKeeps == KernelInv /\ [Next]_vars => KernelInv'
<1> SUFFICES ASSUME KernelInv, [Next]_vars PROVE KernelInv'
  OBVIOUS
<1>1. CASE StoreBegins
  <2>1. PICK torn \in LaneValue : lanes' = [lanes EXCEPT ![Free] = torn]
    BY <1>1 DEF StoreBegins
  <2>2. HasRoom /\ pc' = "storing" /\ word' = word /\ snap' = snap
    BY <1>1 DEF StoreBegins
  <2>3. lanes' \in [Lanes -> 0..EmptyKey] /\ lanes'[PadSlot] = EmptyKey
    BY <2>1, <2>2, StoreKeeps
  <2>4. HasRoom'
    BY <2>2 DEF HasRoom
  <2> QED
    BY <2>2, <2>3, <2>4 DEF KernelInv
<1>2. CASE StoreEnds
  <2>1. PICK s \in LaneValue : lanes' = [lanes EXCEPT ![Free] = s]
    BY <1>2 DEF StoreEnds
  <2>2. HasRoom /\ pc' = "publish" /\ word' = word /\ snap' = snap
    BY <1>2 DEF StoreEnds, KernelInv
  <2>3. lanes' \in [Lanes -> 0..EmptyKey] /\ lanes'[PadSlot] = EmptyKey
    BY <2>1, <2>2, StoreKeeps
  <2>4. HasRoom'
    BY <2>2 DEF HasRoom
  <2> QED
    BY <2>2, <2>3, <2>4 DEF KernelInv
<1>3. CASE Snapshot
  <2>1. snap' = word /\ lanes' = lanes /\ word' = word /\ pc' = pc
    BY <1>3 DEF Snapshot
  <2>2. PICK n : n = OrderCount(word) /\ n \in Nat
    BY NamedFacts DEF KernelInv
  <2>3. OrderCount(snap') <= OrderCount(word')
    BY <2>1, <2>2
  <2>4. HasRoom' = HasRoom
    BY <2>1 DEF HasRoom
  <2> QED
    BY <2>1, <2>3, <2>4 DEF KernelInv
<1>4. ASSUME NEW rank \in 0..OrderCount(word), Publish(rank) PROVE KernelInv'
  <2>1. PICK f, n : /\ Names(word, f, n) /\ n \in Nat
                    /\ Names(word', Spliced(f, n, rank, n), n + 1)
    BY <1>4, PublishNames
  <2>2. OrderCount(word) = n /\ OrderCount(word') = n + 1 /\ Named(word')
    BY <2>1, NamesIs
  <2>3. PICK m : m = OrderCount(snap) /\ m \in Nat
    BY NamedFacts DEF KernelInv
  <2>4. pc' = "idle" /\ lanes' = lanes /\ snap' = snap
    BY <1>4 DEF Publish
  <2>5. m <= n
    BY <2>2, <2>3 DEF KernelInv
  <2>6. m <= n + 1
    BY <2>1, <2>3, <2>5
  <2>7. OrderCount(snap') <= OrderCount(word')
    BY <2>2, <2>3, <2>4, <2>6
  <2> QED
    BY <2>2, <2>4, <2>7 DEF KernelInv
<1>5. CASE UNCHANGED vars
  <2>1. lanes' = lanes /\ word' = word /\ pc' = pc /\ snap' = snap
    BY <1>5 DEF vars
  <2> QED
    BY <2>1 DEF KernelInv, HasRoom
<1> QED
  BY <1>1, <1>2, <1>3, <1>4, <1>5 DEF Next

\* The words of the writer and of the reader name the lanes below their counts, each
\* once, at whatever ranks the comparator put them, and a store under way is into
\* none of these.
THEOREM KernelInvHolds == Spec => []KernelInv
<1>1. Init => KernelInv
  BY InitSound
<1>2. KernelInv /\ [Next]_vars => KernelInv'
  BY StepKeeps
<1> QED
  BY <1>1, <1>2, PTL DEF Spec

-----------------------------------------------------------------------------
(* What the shifts and masks do.                                           *)

\* The used ranks of a word name each slot below its count once, and every
\* unused one the padding lane, which no store ever reaches.
THEOREM WordIsAPermutation == Spec => []WordIsPermutation
<1>1. KernelInv => WordIsPermutation
  <2> SUFFICES ASSUME KernelInv PROVE WordIsPermutation
    OBVIOUS
  <2>1. PICK f, n : /\ Names(word, f, n) /\ n = OrderCount(word) /\ n \in Nat
                    /\ \A r \in 0..(n - 1) : OrderSlot(word, r) = f[r] /\ f[r] \in 0..(n - 1)
                    /\ \A r \in Nat : r >= n => OrderSlot(word, r) = PadSlot
    BY NamedFacts DEF KernelInv
  <2>2. \A s \in 0..(n - 1) : \E r \in 0..(n - 1) : f[r] = s
    BY <2>1 DEF Names, Permutes
  <2>3. {OrderSlot(word, r) : r \in 0..(n - 1)} = 0..(n - 1)
    BY <2>1, <2>2
  <2>4. NodeKeys \in Nat
    BY KeysFacts
  <2>5. \A r \in n..(NodeKeys - 1) : OrderSlot(word, r) = PadSlot
    BY <2>1, <2>4
  <2>6. lanes[PadSlot] = EmptyKey
    BY DEF KernelInv
  <2> QED
    BY <2>1, <2>3, <2>5, <2>6 DEF WordIsPermutation
<1> QED
  BY <1>1, KernelInvHolds, PTL

\* The slots of a word as the sequence that Memtable keeps.
LEMMA RanksAre ==
  ASSUME NEW o, NEW f, NEW n, Names(o, f, n), n \in Nat
  PROVE  /\ Ranks(o) = [r \in 1..n |-> f[r - 1]]
         /\ Ranks(o) \in Seq(Nat) /\ Len(Ranks(o)) = n
<1>1. OrderCount(o) = n /\ IsWord(o, f, n)
  BY NamesIs DEF Names
<1>2. \A r \in 1..n : r - 1 \in 0..(n - 1)
  OBVIOUS
<1>3. \A r \in 0..(n - 1) : OrderSlot(o, r) = f[r] /\ f[r] \in Nat
  BY <1>1, SlotsOf, WordFacts
<1>4. Ranks(o) = [r \in 1..n |-> f[r - 1]]
  BY <1>1, <1>2, <1>3 DEF Ranks
<1>5. PICK s : s = [r \in 1..n |-> f[r - 1]]
  OBVIOUS
<1>6. s \in [1..n -> Nat]
  BY <1>2, <1>3, <1>5
<1>7. s \in Seq(Nat) /\ Len(s) = n
  BY <1>6
<1> QED
  BY <1>4, <1>5, <1>7

\* An append splices its slot in at one rank and moves the ranks above it.
THEOREM WordFollows == Spec => WordFollowsSequence
<1>1. KernelInv /\ [Next]_vars =>
        [word' # word => \E rank \in 1..(Len(Ranks(word)) + 1) :
            Ranks(word') = InsertAt(Ranks(word), rank, Len(Ranks(word)))]_vars
  <2> SUFFICES ASSUME KernelInv, Next, word' # word
               PROVE  \E rank \in 1..(Len(Ranks(word)) + 1) :
                        Ranks(word') = InsertAt(Ranks(word), rank, Len(Ranks(word)))
    BY DEF vars
  <2>1. PICK rank \in 0..OrderCount(word) : Publish(rank)
    BY DEF Next, StoreBegins, StoreEnds, Snapshot
  <2>2. PICK f, n : /\ Names(word, f, n) /\ n \in Nat /\ rank \in 0..n
                    /\ Names(word', Spliced(f, n, rank, n), n + 1)
    BY <2>1, PublishNames
  <2>3. PICK s, at, next : s = Ranks(word) /\ at = rank + 1 /\ next = Ranks(word')
    OBVIOUS
  <2>4. s = [r \in 1..n |-> f[r - 1]] /\ s \in Seq(Nat) /\ Len(s) = n
    BY <2>2, <2>3, RanksAre
  <2>5. n + 1 \in Nat
    BY <2>2
  <2>6. /\ next = [r \in 1..(n + 1) |-> Spliced(f, n, rank, n)[r - 1]]
        /\ next \in Seq(Nat) /\ Len(next) = n + 1
    BY <2>2, <2>3, <2>5, RanksAre
  <2>7. at \in 1..(Len(s) + 1) /\ n \in Nat /\ at \in Nat
    BY <2>2, <2>3, <2>4
  <2>8. PICK new : new = InsertAt(s, at, n)
    OBVIOUS
  <2>9. /\ new \in Seq(Nat) /\ Len(new) = Len(s) + 1
        /\ \A j \in 1..(at - 1) : new[j] = s[j]
        /\ new[at] = n
        /\ \A j \in at..Len(s) : new[j + 1] = s[j]
    <3>0. PICK S : S = Nat
      OBVIOUS
    <3>1. s \in Seq(S) /\ at \in 1..(Len(s) + 1) /\ n \in S
      BY <2>4, <2>7, <3>0
    <3>2. /\ InsertAt(s, at, n) \in Seq(S) /\ Len(InsertAt(s, at, n)) = Len(s) + 1
          /\ \A j \in 1..(at - 1) : InsertAt(s, at, n)[j] = s[j]
          /\ InsertAt(s, at, n)[at] = n
          /\ \A j \in at..Len(s) : InsertAt(s, at, n)[j + 1] = s[j]
      BY <3>1, InsertAtProperties
    <3> QED
      BY <2>8, <3>0, <3>2, Zenon
  <2>10. ASSUME NEW j \in 1..(n + 1) PROVE next[j] = new[j]
    <3>1. /\ j - 1 \in 0..n
          /\ next[j] = IF j - 1 < rank THEN f[j - 1] ELSE IF j - 1 = rank THEN n ELSE f[j - 1 - 1]
      BY <2>2, <2>6 DEF Spliced
    <3>2. CASE j < at
      <4>1. j - 1 < rank /\ j \in 1..(at - 1) /\ j \in 1..n
        BY <2>2, <2>3, <3>2
      <4> QED
        BY <2>4, <2>9, <3>1, <4>1
    <3>3. CASE j = at
      <4>1. j - 1 = rank /\ ~(j - 1 < rank)
        BY <2>2, <2>3, <3>3
      <4> QED
        BY <2>9, <3>1, <3>3, <4>1
    <3>4. CASE j > at
      <4>1. ~(j - 1 < rank) /\ j - 1 # rank /\ j - 1 \in at..n /\ (j - 1) + 1 = j /\ j - 1 \in 1..n
        BY <2>2, <2>3, <3>4
      <4>2. new[j] = s[j - 1]
        BY <2>4, <2>9, <4>1
      <4> QED
        BY <2>4, <3>1, <4>1, <4>2
    <3> QED
      BY <2>7, <3>2, <3>3, <3>4
  <2>11. next = new
    <3>1. Len(new) = n + 1 /\ Len(next) = n + 1 /\ next \in Seq(Nat) /\ new \in Seq(Nat)
      BY <2>4, <2>6, <2>9
    <3> QED
      BY <2>10, <3>1, SeqEqual
  <2> QED
    BY <2>3, <2>4, <2>7, <2>8, <2>11
<1> QED
  BY <1>1, KernelInvHolds, PTL DEF Spec, WordFollowsSequence

-----------------------------------------------------------------------------
(* The kernels agree.                                                      *)

\* The ranks below m name as many slots.
LEMMA SlotsUpTo ==
  ASSUME NEW n \in Nat, NEW f, Permutes(f, n), NEW m \in 0..n,
         NEW S, S \subseteq 0..(n - 1), \A r \in 0..(n - 1) : f[r] \in S <=> r < m
  PROVE  Cardinality(S) = m
<1>1. PICK g : g = [r \in 1..m |-> f[r - 1]]
  OBVIOUS
<1>2. \A r \in 1..m : r - 1 \in 0..(n - 1) /\ r - 1 < m
  OBVIOUS
<1>3. \A r \in 1..m : g[r] \in S
  BY <1>1, <1>2
<1>4. ASSUME NEW s \in S PROVE \E r \in 1..m : g[r] = s
  <2>1. PICK q \in 0..(n - 1) : f[q] = s
    BY DEF Permutes
  <2>2. q < m
    BY <2>1
  <2>3. q + 1 \in 1..m /\ (q + 1) - 1 = q
    BY <2>2
  <2> QED
    BY <1>1, <2>1, <2>3
<1>5. \A q, r \in 1..m : g[q] = g[r] => q = r
  <2> SUFFICES ASSUME NEW q \in 1..m, NEW r \in 1..m, g[q] = g[r] PROVE q = r
    OBVIOUS
  <2>1. f[q - 1] = f[r - 1]
    BY <1>1
  <2>2. q - 1 = r - 1
    BY <1>2, <2>1 DEF Permutes
  <2> QED
    BY <2>2
<1>6. g \in [1..m -> S]
  BY <1>1, <1>3
<1>7. g \in Bijection(1..m, S)
  BY <1>4, <1>5, <1>6 DEF Bijection, Surjection, Injection, IsInjective
<1>8. IsFiniteSet(1..m) /\ Cardinality(1..m) = m
  <2>1. 1 \in Int /\ m \in Int /\ (1 > m => m = 0)
    OBVIOUS
  <2>2. IsFiniteSet(1..m) /\ Cardinality(1..m) = IF 1 > m THEN 0 ELSE m - 1 + 1
    BY <2>1, FS_Interval
  <2> QED
    BY <2>1, <2>2
<1>9. ExistsBijection(1..m, S)
  BY <1>7 DEF ExistsBijection
<1>10. Cardinality(S) = Cardinality(1..m)
  BY <1>8, <1>9, FS_Bijection
<1> QED
  BY <1>8, <1>10

\* Of lanes in order, the first that is not below the key, and where the others lie.
LEMMA FirstNotBelow ==
  ASSUME NEW n \in Nat, NEW run, \A r \in 0..(n - 1) : run[r] \in Nat, NEW key \in Nat,
         \A q, r \in 0..(n - 1) : q < r => run[q] <= run[r]
  PROVE  \E m \in 0..n : /\ Min({r \in 0..n : r = n \/ run[r] >= key}) = m
                         /\ \A r \in 0..(n - 1) : run[r] < key <=> r < m
<1>1. PICK walk, m : walk = {r \in 0..n : r = n \/ run[r] >= key} /\ m = Min(walk)
  OBVIOUS
<1>2. walk \in SUBSET Nat /\ n \in walk
  BY <1>1
<1>3. m \in walk /\ \A y \in walk : m <= y
  BY <1>1, <1>2, LeastExists
<1>4. m \in 0..n /\ (m = n \/ run[m] >= key)
  BY <1>1, <1>3
<1>5. ASSUME NEW r \in 0..(n - 1) PROVE run[r] < key <=> r < m
  <2>1. CASE r < m
    <3>1. r \in 0..n /\ ~(m <= r) /\ r # n
      BY <1>4, <2>1
    <3>2. ~(run[r] >= key)
      BY <1>1, <1>3, <3>1
    <3> QED
      BY <2>1, <3>2
  <2>2. CASE ~(r < m)
    <3>1. m \in 0..(n - 1) /\ m # n /\ (m = r \/ m < r)
      BY <1>4, <2>2
    <3>2. run[m] >= key /\ run[m] \in Nat /\ run[r] \in Nat
      BY <1>4, <3>1
    <3>3. run[m] <= run[r]
      BY <3>1, <3>2
    <3> QED
      BY <2>2, <3>2, <3>3
  <2> QED
    BY <2>1, <2>2
<1> QED
  BY <1>1, <1>4, <1>5

\* With the sign bit flipped a signed compare is an unsigned one.
LEMMA SignedIs ==
  ASSUME NEW x \in 0..EmptyKey
  PROVE  Signed(Bias(x)) = x - Pow2[LaneBits - 1]
<1>1. PICK b : b = LaneBits - 1
  OBVIOUS
<1>2. b \in Nat /\ LaneBits = b + 1
  BY <1>1, LaneAssumption
<1>3. PICK h : h = Pow2[b]
  OBVIOUS
<1>4. h \in Nat \ {0} /\ Pow2[LaneBits] = 2 * h
  BY <1>2, <1>3, PowerFacts
<1>5. x \in Nat /\ x < 2 * h
  BY <1>4 DEF EmptyKey
<1>6. CASE x < h
  <2>1. 2 * h \in Nat \ {0} /\ 0 \in Nat /\ x + h \in 0..(2 * h - 1) /\ (2 * h) * 0 + (x + h) = x + h
    BY <1>4, <1>5, <1>6
  <2>2. ((2 * h) * 0 + (x + h)) % (2 * h) = x + h
    BY <2>1, QuotientIs
  <2>3. Bias(x) = x + h
    BY <1>1, <1>3, <1>4, <2>1, <2>2 DEF Bias
  <2>4. ~(x + h < h) /\ (x + h) - 2 * h = x - h
    BY <1>4, <1>5
  <2> QED
    BY <1>1, <1>3, <1>4, <2>3, <2>4 DEF Signed
<1>7. CASE ~(x < h)
  <2>1. 2 * h \in Nat \ {0} /\ 1 \in Nat /\ x - h \in 0..(2 * h - 1) /\ (2 * h) * 1 + (x - h) = x + h
    BY <1>4, <1>5, <1>7
  <2>2. ((2 * h) * 1 + (x - h)) % (2 * h) = x - h
    BY <2>1, QuotientIs
  <2>3. Bias(x) = x - h
    BY <1>1, <1>3, <1>4, <2>1, <2>2 DEF Bias
  <2>4. x - h < h
    BY <1>4, <1>5
  <2> QED
    BY <1>1, <1>3, <1>4, <2>3, <2>4 DEF Signed
<1> QED
  BY <1>6, <1>7

LEMMA CountsAgree ==
  ASSUME NEW line, \A i \in Lanes : line[i] \in 0..EmptyKey, NEW key \in 0..EmptyKey
  PROVE  LowerBoundAvx2(line, key) = LowerBoundCount(line, key)
<1>1. PICK h : h = Pow2[LaneBits - 1]
  OBVIOUS
<1>2. h \in Nat
  <2>1. LaneBits - 1 \in Nat
    BY LaneAssumption
  <2> QED
    BY <1>1, <2>1, PowerFacts
<1>3. Signed(Bias(key)) = key - h
  BY <1>1, SignedIs
<1>4. \A i \in Lanes : Signed(Bias(line[i])) = line[i] - h
  <2> SUFFICES ASSUME NEW i \in Lanes PROVE Signed(Bias(line[i])) = line[i] - h
    OBVIOUS
  <2>1. PICK x : x = line[i]
    OBVIOUS
  <2>2. x \in 0..EmptyKey
    BY <2>1
  <2> QED
    BY <1>1, <2>1, <2>2, SignedIs
<1>5. key \in Nat /\ \A i \in Lanes : line[i] \in Nat
  BY LaneFacts
<1>6. \A i \in Lanes : key - h > line[i] - h <=> line[i] < key
  <2> SUFFICES ASSUME NEW i \in Lanes PROVE key - h > line[i] - h <=> line[i] < key
    OBVIOUS
  <2>1. line[i] \in Nat
    BY <1>5
  <2> QED
    BY <1>2, <1>5, <2>1
<1>7. {i \in Lanes : Signed(Bias(key)) > Signed(Bias(line[i]))} = {i \in Lanes : line[i] < key}
  BY <1>3, <1>4, <1>6
<1> QED
  BY <1>7 DEF LowerBoundAvx2, LowerBoundCount

\* What both vector kernels count: the masked lanes and the padding hold nothing below.
LEMMA MaskedCount ==
  ASSUME NEW line, line \in [Lanes -> 0..EmptyKey], NEW o, Named(o), NEW key \in 0..EmptyKey,
         NEW below, below = {s \in 0..(OrderCount(o) - 1) : line[s] < key}
  PROVE  /\ LowerBoundPermAvx512(line, key, o) = Cardinality(below)
         /\ LowerBoundPermAvx2(line, key, o) = Cardinality(below)
<1>1. PICK n : n = OrderCount(o) /\ n \in Nat /\ n <= NodeCapacity
  BY NamedFacts
<1>2. key \in Nat /\ EmptyKey \in Nat /\ NodeCapacity \in Nat /\ Lanes = 0..NodeCapacity
  BY LaneFacts, KeysFacts
<1>3. PICK load : load = Loaded(line, o)
  OBVIOUS
<1>4. \A i \in Lanes : /\ load[i] = (IF i < n THEN line[i] ELSE EmptyKey)
                       /\ load[i] \in 0..EmptyKey
  BY <1>1, <1>2, <1>3 DEF Loaded
<1>5. ~(EmptyKey < key)
  BY <1>2
<1>6. ASSUME NEW i \in Lanes, load[i] < key PROVE i \in 0..(n - 1) /\ line[i] < key
  <2>1. i < n
    BY <1>4, <1>5, <1>6
  <2> QED
    BY <1>1, <1>2, <1>4, <1>6, <2>1
<1>7. ASSUME NEW i \in 0..(n - 1), line[i] < key PROVE i \in Lanes /\ load[i] < key
  <2>1. i \in Lanes /\ i < n
    BY <1>1, <1>2
  <2> QED
    BY <1>4, <1>7, <2>1
<1>8. {i \in Lanes : load[i] < key} = below
  BY <1>1, <1>6, <1>7
<1>9. LowerBoundCount(load, key) = Cardinality(below)
  BY <1>8 DEF LowerBoundCount
<1>10. LowerBoundAvx2(load, key) = LowerBoundCount(load, key)
  BY <1>4, CountsAgree
<1> QED
  BY <1>3, <1>9, <1>10 DEF LowerBoundPermAvx512, LowerBoundPermAvx2

\* Walking the ranks stops at the first lane that is not below, past lanes that are.
LEMMA WalkStops ==
  ASSUME NEW line, line \in [Lanes -> 0..EmptyKey], NEW o, Named(o), NEW key \in 0..EmptyKey
  PROVE  \E m \in 0..OrderCount(o) :
           /\ LowerBoundPermScalar(line, key, o) = m
           /\ \A r \in 0..(m - 1) : line[OrderSlot(o, r)] < key
           /\ m # OrderCount(o) => line[OrderSlot(o, m)] >= key
<1>1. PICK n : /\ n = OrderCount(o) /\ n \in Nat /\ n <= NodeCapacity
               /\ \A r \in 0..(n - 1) : OrderSlot(o, r) \in 0..(n - 1)
  BY NamedFacts
<1>2. key \in Nat /\ NodeCapacity \in Nat /\ Lanes = 0..NodeCapacity
  BY LaneFacts, KeysFacts
<1>3. PICK walk, m : walk = {r \in 0..n : r = n \/ line[OrderSlot(o, r)] >= key} /\ m = Min(walk)
  OBVIOUS
<1>4. walk \in SUBSET Nat /\ n \in walk
  BY <1>1, <1>3
<1>5. m \in walk /\ \A y \in walk : m <= y
  BY <1>3, <1>4, LeastExists
<1>6. m \in 0..n /\ (m # n => line[OrderSlot(o, m)] >= key)
  BY <1>3, <1>5
<1>7. ASSUME NEW r \in 0..(m - 1) PROVE line[OrderSlot(o, r)] < key
  <2>1. r \in 0..n /\ r \in 0..(n - 1) /\ ~(m <= r)
    BY <1>1, <1>6
  <2>2. ~(line[OrderSlot(o, r)] >= key)
    BY <1>3, <1>5, <2>1
  <2>3. line[OrderSlot(o, r)] \in Nat
    <3>1. OrderSlot(o, r) \in Lanes
      BY <1>1, <1>2, <2>1
    <3> QED
      BY <3>1, LaneFacts
  <2> QED
    BY <1>2, <2>2, <2>3
<1>8. LowerBoundPermScalar(line, key, o) = m
  BY <1>1, <1>3 DEF LowerBoundPermScalar
<1> QED
  BY <1>1, <1>6, <1>7, <1>8

\* So it never gives more than there are lanes below.
LEMMA WalkAtMost ==
  ASSUME NEW line, line \in [Lanes -> 0..EmptyKey], NEW o, Named(o), NEW key \in 0..EmptyKey,
         NEW below, below = {s \in 0..(OrderCount(o) - 1) : line[s] < key}
  PROVE  LowerBoundPermScalar(line, key, o) <= Cardinality(below)
<1>1. PICK f, n : /\ Names(o, f, n) /\ n = OrderCount(o) /\ n \in Nat
                  /\ \A r \in 0..(n - 1) : OrderSlot(o, r) = f[r] /\ f[r] \in 0..(n - 1)
  BY NamedFacts
<1>2. PICK m \in 0..n : /\ LowerBoundPermScalar(line, key, o) = m
                        /\ \A r \in 0..(m - 1) : line[OrderSlot(o, r)] < key
  BY <1>1, WalkStops
<1>3. m \in Nat /\ \A r \in 0..(m - 1) : r \in 0..(n - 1)
  BY <1>1, <1>2
<1>4. PICK S : S = {f[r] : r \in 0..(m - 1)}
  OBVIOUS
<1>5. S \subseteq below /\ S \subseteq 0..(n - 1)
  BY <1>1, <1>2, <1>3, <1>4
<1>6. ASSUME NEW r \in 0..(n - 1) PROVE f[r] \in S <=> r < m
  <2>1. CASE r < m
    <3>1. r \in 0..(m - 1)
      BY <1>3, <2>1
    <3> QED
      BY <1>4, <2>1, <3>1
  <2>2. CASE ~(r < m)
    <3>1. \A q \in 0..(m - 1) : f[q] = f[r] => q = r
      BY <1>1, <1>3 DEF Names, Permutes
    <3>2. r \notin 0..(m - 1)
      BY <1>3, <2>2
    <3> QED
      BY <1>4, <2>2, <3>1, <3>2
  <2> QED
    BY <2>1, <2>2
<1>7. Cardinality(S) = m
  BY <1>1, <1>2, <1>5, <1>6, SlotsUpTo DEF Names
<1>8. IsFiniteSet(below)
  <2>1. IsFiniteSet(0..(n - 1))
    BY <1>1, FS_Interval
  <2> QED
    BY <1>1, <2>1, FS_Subset
<1>9. Cardinality(S) <= Cardinality(below)
  BY <1>5, <1>8, FS_Subset
<1> QED
  BY <1>2, <1>7, <1>9

\* In rank order nothing below the key comes after the first that is not, and the
\* walk gives the count.
LEMMA ProbesMeet ==
  ASSUME NEW line, line \in [Lanes -> 0..EmptyKey], NEW o, Orders(line, o), NEW key \in 0..EmptyKey,
         NEW below, below = {s \in 0..(OrderCount(o) - 1) : line[s] < key}
  PROVE  \E m \in 0..OrderCount(o) :
           /\ LowerBoundPermScalar(line, key, o) = m
           /\ Cardinality(below) = m
           /\ \A r \in 0..(OrderCount(o) - 1) : line[OrderSlot(o, r)] < key <=> r < m
<1>1. PICK f, n : /\ Ordered(line, o, f, n) /\ n = OrderCount(o) /\ n \in Nat /\ n <= NodeCapacity
                  /\ \A r \in 0..(n - 1) : OrderSlot(o, r) = f[r] /\ f[r] \in 0..(n - 1)
  BY OrdersFacts
<1>2. key \in Nat /\ EmptyKey \in Nat /\ NodeCapacity \in Nat /\ Lanes = 0..NodeCapacity
  BY LaneFacts, KeysFacts
<1>3. \A s \in 0..(n - 1) : s \in Lanes /\ line[s] \in Nat
  BY <1>1, <1>2
<1>4. PICK run : run = [r \in 0..(n - 1) |-> line[f[r]]]
  OBVIOUS
<1>5. /\ \A r \in 0..(n - 1) : run[r] = line[f[r]] /\ run[r] \in Nat
      /\ \A q, r \in 0..(n - 1) : q < r => run[q] <= run[r]
  BY <1>1, <1>3, <1>4 DEF Ordered, Ascends
<1>6. PICK m \in 0..n : /\ Min({r \in 0..n : r = n \/ run[r] >= key}) = m
                        /\ \A r \in 0..(n - 1) : run[r] < key <=> r < m
  <2>1. n \in Nat /\ key \in Nat /\ \A r \in 0..(n - 1) : run[r] \in Nat
    BY <1>1, <1>2, <1>5
  <2>2. \A q, r \in 0..(n - 1) : q < r => run[q] <= run[r]
    BY <1>5
  <2> QED
    BY <2>1, <2>2, FirstNotBelow
<1>7. LowerBoundPermScalar(line, key, o) = m
  <2>1. \A r \in 0..n : r # n => r \in 0..(n - 1)
    BY <1>1
  <2>2. \A r \in 0..n : (r = n \/ line[OrderSlot(o, r)] >= key) <=> (r = n \/ run[r] >= key)
    BY <1>1, <1>5, <2>1
  <2>3. {r \in 0..n : r = n \/ line[OrderSlot(o, r)] >= key} = {r \in 0..n : r = n \/ run[r] >= key}
    BY <2>2
  <2> QED
    BY <1>1, <1>6, <2>3 DEF LowerBoundPermScalar
<1>8. below \subseteq 0..(n - 1) /\ \A r \in 0..(n - 1) : f[r] \in below <=> r < m
  BY <1>1, <1>5, <1>6
<1>9. Permutes(f, n)
  BY <1>1 DEF Ordered, Names
<1>10. Cardinality(below) = m
  BY <1>1, <1>8, <1>9, SlotsUpTo
<1>11. \A r \in 0..(OrderCount(o) - 1) : line[OrderSlot(o, r)] < key <=> r < m
  BY <1>1, <1>5, <1>6
<1> QED
  BY <1>1, <1>7, <1>10, <1>11

\* What the kernel of a CPU gives.
LEMMA DispatchIs ==
  ASSUME NEW line, line \in [Lanes -> 0..EmptyKey], NEW o, Named(o), NEW key \in 0..EmptyKey, NEW cpu,
         NEW below, below = {s \in 0..(OrderCount(o) - 1) : line[s] < key}
  PROVE  LowerBoundPermDispatch(cpu, line, key, o)
           = IF DetectIsa(cpu) = "scalar" THEN LowerBoundPermScalar(line, key, o) ELSE Cardinality(below)
<1>1. /\ LowerBoundPermAvx512(line, key, o) = Cardinality(below)
      /\ LowerBoundPermAvx2(line, key, o) = Cardinality(below)
  BY MaskedCount
<1>2. DetectIsa(cpu) \in {"avx512", "avx2", "scalar"}
  BY DEF DetectIsa
<1>3. CASE DetectIsa(cpu) = "avx512"
  BY <1>1, <1>3 DEF LowerBoundPermDispatch
<1>4. CASE DetectIsa(cpu) = "avx2"
  BY <1>1, <1>4 DEF LowerBoundPermDispatch
<1>5. CASE DetectIsa(cpu) = "scalar"
  BY <1>5 DEF LowerBoundPermDispatch
<1> QED
  BY <1>2, <1>3, <1>4, <1>5

LEMMA DispatchAgrees ==
  ASSUME NEW line, line \in [Lanes -> 0..EmptyKey], NEW o, Orders(line, o), NEW key \in 0..EmptyKey,
         NEW cpu
  PROVE  LowerBoundPermDispatch(cpu, line, key, o) = LowerBoundPermScalar(line, key, o)
<1>1. PICK below : below = {s \in 0..(OrderCount(o) - 1) : line[s] < key}
  OBVIOUS
<1>2. LowerBoundPermScalar(line, key, o) = Cardinality(below)
  BY <1>1, ProbesMeet
<1>3. Named(o)
  BY DEF Orders, Ordered, Named
<1>4. LowerBoundPermDispatch(cpu, line, key, o)
        = IF DetectIsa(cpu) = "scalar" THEN LowerBoundPermScalar(line, key, o) ELSE Cardinality(below)
  BY <1>1, <1>3, DispatchIs
<1> QED
  BY <1>2, <1>4

\* Lanes that ascend with the ranks are ordered by the word.
LEMMA AscendingOrders ==
  ASSUME NEW o, Named(o), RanksAscend(o)
  PROVE  Orders(lanes, o)
<1>1. PICK f, n : /\ Names(o, f, n) /\ n = OrderCount(o)
                  /\ \A r \in 0..(n - 1) : OrderSlot(o, r) = f[r]
  BY NamedFacts
<1>2. Ascends(lanes, f, n)
  BY <1>1 DEF RanksAscend, Ascends
<1>3. Ordered(lanes, o, f, n)
  BY <1>1, <1>2 DEF Ordered
<1> QED
  BY <1>3, OrderedIs

\* Of a snapshot, also while the writer stores, both vector kernels give the number
\* of lanes below the key and the walk over the ranks no more; where the lanes are
\* in rank order, as in the nodes LanesCheckOut is about, it gives as much.
THEOREM KernelsGiveOneAnswer == Spec => []KernelsAgree
<1>1. KernelInv => KernelsAgree
  <2> SUFFICES ASSUME KernelInv, NEW cpu \in Cpu, NEW key \in LaneValue,
                      NEW below, below = {s \in 0..(OrderCount(snap) - 1) : lanes[s] < key}
               PROVE  /\ LowerBoundPermDispatch(cpu, lanes, key, snap)
                           = IF DetectIsa(cpu) = "scalar" THEN LowerBoundPermScalar(lanes, key, snap)
                             ELSE Cardinality(below)
                      /\ LowerBoundPermScalar(lanes, key, snap) <= Cardinality(below)
                      /\ RanksAscend(snap) =>
                           LowerBoundPermScalar(lanes, key, snap) = Cardinality(below)
    BY DEF KernelsAgree
  <2>1. key \in 0..EmptyKey
    BY LaneFacts
  <2>2. lanes \in [Lanes -> 0..EmptyKey] /\ Named(snap)
    BY DEF KernelInv
  <2>3. ASSUME RanksAscend(snap)
        PROVE  LowerBoundPermScalar(lanes, key, snap) = Cardinality(below)
    <3>1. Orders(lanes, snap)
      BY <2>2, <2>3, AscendingOrders
    <3> QED
      BY <2>1, <2>2, <3>1, ProbesMeet
  <2> QED
    BY <2>1, <2>2, <2>3, DispatchIs, WalkAtMost
<1> QED
  BY <1>1, KernelInvHolds, PTL

\* No kernel looks at a lane the word does not name.
LEMMA DispatchOthers ==
  ASSUME NEW line, NEW o, Named(o), NEW other, NEW key, NEW cpu,
         \A s \in 0..(OrderCount(o) - 1) : other[s] = line[s]
  PROVE  LowerBoundPermDispatch(cpu, other, key, o) = LowerBoundPermDispatch(cpu, line, key, o)
<1>1. PICK n : /\ n = OrderCount(o) /\ n \in Nat /\ n <= NodeCapacity
               /\ \A r \in 0..(n - 1) : OrderSlot(o, r) \in 0..(n - 1)
  BY NamedFacts
<1>2. \A r \in 0..n : r # n => other[OrderSlot(o, r)] = line[OrderSlot(o, r)]
  <2>1. \A r \in 0..n : r # n => r \in 0..(n - 1)
    BY <1>1
  <2> QED
    BY <1>1, <2>1
<1>3. {r \in 0..n : r = n \/ other[OrderSlot(o, r)] >= key}
        = {r \in 0..n : r = n \/ line[OrderSlot(o, r)] >= key}
  BY <1>2
<1>4. LowerBoundPermScalar(other, key, o) = LowerBoundPermScalar(line, key, o)
  BY <1>1, <1>3 DEF LowerBoundPermScalar
<1>5. Loaded(other, o) = Loaded(line, o)
  <2>1. NodeCapacity \in Nat /\ Lanes = 0..NodeCapacity
    BY LaneFacts, KeysFacts
  <2>2. \A i \in Lanes : i < n => i \in 0..(n - 1)
    BY <1>1, <2>1
  <2>3. \A i \in Lanes : i < n => other[i] = line[i]
    BY <1>1, <2>2
  <2> QED
    BY <1>1, <2>3 DEF Loaded
<1>6. /\ LowerBoundPermAvx512(other, key, o) = LowerBoundPermAvx512(line, key, o)
      /\ LowerBoundPermAvx2(other, key, o) = LowerBoundPermAvx2(line, key, o)
  BY <1>5 DEF LowerBoundPermAvx512, LowerBoundPermAvx2
<1> QED
  BY <1>4, <1>6 DEF LowerBoundPermDispatch

\* A step of the writer leaves the lanes the reader's word names.
LEMMA SnapshotLanes ==
  ASSUME KernelInv, Next, NEW s \in 0..(OrderCount(snap) - 1)
  PROVE  lanes'[s] = lanes[s]
<1>1. PICK n : n = OrderCount(word) /\ n \in Nat
  BY NamedFacts DEF KernelInv
<1>2. PICK m : m = OrderCount(snap) /\ m \in Nat /\ m <= NodeCapacity
  BY NamedFacts DEF KernelInv
<1>3. m <= n /\ lanes \in [Lanes -> 0..EmptyKey]
  BY <1>1, <1>2 DEF KernelInv
<1>4. s \in Lanes /\ s # n
  BY <1>1, <1>2, <1>3, LaneFacts, KeysFacts
<1>5. CASE StoreBegins
  BY <1>1, <1>3, <1>4, <1>5 DEF StoreBegins, Free
<1>6. CASE StoreEnds
  BY <1>1, <1>3, <1>4, <1>6 DEF StoreEnds, Free
<1>7. CASE lanes' = lanes
  BY <1>7
<1> QED
  BY <1>5, <1>6, <1>7 DEF Next, Snapshot, Publish

\* The answer belongs to the snapshot: until the reader takes another, no store
\* of the writer changes what any kernel returns.
THEOREM AnswersAreStable == Spec => AnswersStable
<1>1. KernelInv /\ [Next]_vars =>
        [snap' = snap => \A cpu \in Cpu, key \in LaneValue :
           LowerBoundPermDispatch(cpu, lanes, key, snap)' = LowerBoundPermDispatch(cpu, lanes, key, snap)]_vars
  <2> SUFFICES ASSUME KernelInv, Next, snap' = snap, NEW cpu \in Cpu, NEW key \in LaneValue
               PROVE  LowerBoundPermDispatch(cpu, lanes', key, snap') = LowerBoundPermDispatch(cpu, lanes, key, snap)
    BY DEF vars
  <2>1. PICK line, other, o : line = lanes /\ other = lanes' /\ o = snap /\ o = snap'
    OBVIOUS
  <2>2. Named(o)
    BY <2>1 DEF KernelInv
  <2>3. \A s \in 0..(OrderCount(o) - 1) : other[s] = line[s]
    BY <2>1, SnapshotLanes
  <2>4. LowerBoundPermDispatch(cpu, other, key, o) = LowerBoundPermDispatch(cpu, line, key, o)
    BY <2>2, <2>3, DispatchOthers
  <2> QED
    BY <2>1, <2>4
<1> QED
  BY <1>1, KernelInvHolds, PTL DEF Spec, AnswersStable

-----------------------------------------------------------------------------
(* The bisection of a sorted line.                                         *)

Bisected(line, key, f, lo, hi) ==
  LET mid == lo + ((hi - lo) \div 2)
  IN  IF lo > hi THEN NotFound
      ELSE IF line[mid] = key THEN mid
      ELSE IF line[mid] < key THEN f[<<mid + 1, hi>>]
      ELSE f[<<lo, mid - 1>>]

\* f answers for the ranges shorter than d.
Bisects(line, key, f, d) ==
  \A lo \in 0..NodeKeys, hi \in -1..(NodeKeys - 1) :
    hi - lo < d => f[<<lo, hi>>] = Bisected(line, key, f, lo, hi)

LEMMA MiddleFacts ==
  ASSUME NEW lo \in Int, NEW hi \in Int, lo <= hi
  PROVE  \E mid \in Int : mid = lo + ((hi - lo) \div 2) /\ lo <= mid /\ mid <= hi
<1>1. PICK d, half : d = hi - lo /\ half = (hi - lo) \div 2
  OBVIOUS
<1>2. d \in Nat
  BY <1>1
<1>3. d \div 2 \in Nat /\ d \div 2 <= d
  BY <1>2
<1> QED
  BY <1>1, <1>2, <1>3

\* The answer for a range rests on shorter ranges only.
LEMMA BisectedAgrees ==
  ASSUME NEW line, NEW key, NEW f, NEW h, NEW d \in Nat,
         NEW lo \in 0..NodeKeys, NEW hi \in -1..(NodeKeys - 1), hi - lo <= d,
         \A a \in 0..NodeKeys, b \in -1..(NodeKeys - 1) : b - a < d => h[<<a, b>>] = f[<<a, b>>]
  PROVE  Bisected(line, key, h, lo, hi) = Bisected(line, key, f, lo, hi)
<1>1. CASE lo > hi
  BY <1>1 DEF Bisected
<1>2. CASE ~(lo > hi)
  <2>1. NodeKeys \in Nat
    BY KeysFacts
  <2>2. lo \in Int /\ hi \in Int /\ lo <= hi
    BY <1>2, <2>1
  <2>3. PICK mid \in Int : mid = lo + ((hi - lo) \div 2) /\ lo <= mid /\ mid <= hi
    BY <2>2, MiddleFacts
  <2>4. /\ mid + 1 \in 0..NodeKeys /\ hi - (mid + 1) < d
        /\ mid - 1 \in -1..(NodeKeys - 1) /\ (mid - 1) - lo < d
    BY <2>1, <2>2, <2>3
  <2>5. h[<<mid + 1, hi>>] = f[<<mid + 1, hi>>]
    BY <2>4
  <2>6. h[<<lo, mid - 1>>] = f[<<lo, mid - 1>>]
    BY <2>4
  <2> QED
    BY <2>3, <2>5, <2>6 DEF Bisected
<1> QED
  BY <1>1, <1>2

LEMMA BisectionExists ==
  ASSUME NEW line, NEW key
  PROVE  \E f : f = [range \in (0..NodeKeys) \X (-1..(NodeKeys - 1)) |->
                       Bisected(line, key, f, range[1], range[2])]
<1> DEFINE S == {d \in Nat : \E f : Bisects(line, key, f, d - NodeKeys)}
<1>1. NodeKeys \in Nat
  BY KeysFacts
<1>2. 0 \in S
  <2>1. \A lo \in 0..NodeKeys, hi \in -1..(NodeKeys - 1) : ~(hi - lo < 0 - NodeKeys) \/ lo > hi
    BY <1>1
  <2>2. PICK f : f = [range \in (0..NodeKeys) \X (-1..(NodeKeys - 1)) |-> NotFound]
    OBVIOUS
  <2>3. \A lo \in 0..NodeKeys, hi \in -1..(NodeKeys - 1) : f[<<lo, hi>>] = NotFound
    BY <2>2
  <2>4. Bisects(line, key, f, 0 - NodeKeys)
    BY <2>1, <2>3 DEF Bisects, Bisected
  <2> QED
    BY <2>4
<1>3. ASSUME NEW d \in S PROVE d + 1 \in S
  <2>1. PICK e : e = d - NodeKeys
    OBVIOUS
  <2>2. e \in Int /\ (d + 1) - NodeKeys = e + 1
    BY <1>1, <2>1
  <2>3. PICK f : Bisects(line, key, f, e)
    BY <2>1
  <2>4. PICK h : h = [range \in (0..NodeKeys) \X (-1..(NodeKeys - 1)) |->
                       IF range[2] - range[1] < e THEN f[range]
                       ELSE Bisected(line, key, f, range[1], range[2])]
    OBVIOUS
  <2>5. \A lo \in 0..NodeKeys, hi \in -1..(NodeKeys - 1) :
          /\ hi - lo < e => h[<<lo, hi>>] = f[<<lo, hi>>]
          /\ ~(hi - lo < e) => h[<<lo, hi>>] = Bisected(line, key, f, lo, hi)
    BY <2>4
  <2>6. ASSUME NEW lo \in 0..NodeKeys, NEW hi \in -1..(NodeKeys - 1), hi - lo < e + 1
        PROVE  h[<<lo, hi>>] = Bisected(line, key, h, lo, hi)
    <3>1. h[<<lo, hi>>] = Bisected(line, key, f, lo, hi)
      BY <2>3, <2>5 DEF Bisects
    <3>2. lo \in Int /\ hi \in Int
      BY <1>1
    <3>3. CASE lo > hi
      BY <3>1, <3>3 DEF Bisected
    <3>4. CASE ~(lo > hi)
      <4>1. e \in Nat /\ hi - lo <= e
        BY <2>2, <2>6, <3>2, <3>4
      <4>2. \A a \in 0..NodeKeys, b \in -1..(NodeKeys - 1) : b - a < e => h[<<a, b>>] = f[<<a, b>>]
        BY <2>5
      <4>3. Bisected(line, key, h, lo, hi) = Bisected(line, key, f, lo, hi)
        <5> HIDE DEF S
        <5>1. e \in Nat /\ lo \in 0..NodeKeys /\ hi \in -1..(NodeKeys - 1) /\ hi - lo <= e
          BY <4>1
        <5> QED
          BY <5>1, <4>2, BisectedAgrees
      <4> QED
        BY <3>1, <4>3
    <3> QED
      BY <3>3, <3>4
  <2>7. Bisects(line, key, h, e + 1)
    BY <2>6 DEF Bisects
  <2> QED
    BY <2>2, <2>7
<1> HIDE DEF S
<1>4. S = Nat
  <2>1. S \in SUBSET Nat
    BY DEF S
  <2> QED
    BY <1>2, <1>3, <2>1, NatSteps
<1>5. PICK f : Bisects(line, key, f, NodeKeys)
  <2>1. NodeKeys + NodeKeys \in S /\ (NodeKeys + NodeKeys) - NodeKeys = NodeKeys
    BY <1>1, <1>4
  <2> QED
    BY <2>1 DEF S
<1>6. PICK h : h = [range \in (0..NodeKeys) \X (-1..(NodeKeys - 1)) |->
                     Bisected(line, key, f, range[1], range[2])]
  OBVIOUS
<1>7. \A a \in 0..NodeKeys, b \in -1..(NodeKeys - 1) : b - a < NodeKeys /\ h[<<a, b>>] = f[<<a, b>>]
  <2> SUFFICES ASSUME NEW a \in 0..NodeKeys, NEW b \in -1..(NodeKeys - 1)
               PROVE  b - a < NodeKeys /\ h[<<a, b>>] = f[<<a, b>>]
    OBVIOUS
  <2>1. b - a < NodeKeys
    BY <1>1
  <2>2. f[<<a, b>>] = Bisected(line, key, f, a, b)
    BY <1>5, <2>1 DEF Bisects
  <2>3. h[<<a, b>>] = Bisected(line, key, f, a, b)
    BY <1>6
  <2> QED
    BY <2>1, <2>2, <2>3
<1>8. \A a \in 0..NodeKeys, b \in -1..(NodeKeys - 1) :
        Bisected(line, key, h, a, b) = Bisected(line, key, f, a, b)
  <2> SUFFICES ASSUME NEW a \in 0..NodeKeys, NEW b \in -1..(NodeKeys - 1)
               PROVE  Bisected(line, key, h, a, b) = Bisected(line, key, f, a, b)
    OBVIOUS
  <2>1. b - a <= NodeKeys
    BY <1>1
  <2> QED
    BY <1>1, <1>7, <2>1, BisectedAgrees
<1>9. \A range \in (0..NodeKeys) \X (-1..(NodeKeys - 1)) :
        Bisected(line, key, f, range[1], range[2]) = Bisected(line, key, h, range[1], range[2])
  BY <1>8
<1>10. h = [range \in (0..NodeKeys) \X (-1..(NodeKeys - 1)) |-> Bisected(line, key, h, range[1], range[2])]
  BY <1>6, <1>9, Zenon
<1> QED
  BY <1>10

\* What a range answers, of a sorted line.
LEMMA BisectionFinds ==
  ASSUME NEW line, \A i \in Lanes : line[i] \in Nat, NEW key \in Nat,
         \A i, j \in Lanes : i < j => line[i] <= line[j],
         NEW f, \A lo \in 0..NodeKeys, hi \in -1..(NodeKeys - 1) :
                  f[<<lo, hi>>] = Bisected(line, key, f, lo, hi)
  PROVE  IF f[<<0, NodeKeys - 1>>] = NotFound THEN \A i \in Lanes : line[i] # key
         ELSE line[f[<<0, NodeKeys - 1>>]] = key
<1> DEFINE Right(lo, hi) == IF f[<<lo, hi>>] = NotFound THEN \A i \in Lanes : lo <= i /\ i <= hi => line[i] # key
                            ELSE line[f[<<lo, hi>>]] = key
           S == {d \in Nat : \A lo \in 0..NodeKeys, hi \in -1..(NodeKeys - 1) : hi - lo < d => Right(lo, hi)}
<1>1. NodeKeys \in Nat /\ NodeKeys >= 2 /\ Lanes = 0..(NodeKeys - 1) /\ NotFound = NodeKeys
  BY KeysFacts DEF Lanes, NotFound
<1>2. ASSUME NEW lo \in 0..NodeKeys, NEW hi \in -1..(NodeKeys - 1), lo > hi PROVE Right(lo, hi)
  <2>1. f[<<lo, hi>>] = NotFound
    BY <1>2 DEF Bisected
  <2>2. \A i \in Lanes : ~(lo <= i /\ i <= hi)
    BY <1>1, <1>2
  <2> QED
    BY <2>1, <2>2
<1>3. 0 \in S
  <2>1. \A lo \in 0..NodeKeys, hi \in -1..(NodeKeys - 1) : hi - lo < 0 => lo > hi
    BY <1>1
  <2> HIDE DEF Right
  <2> QED
    BY <1>2, <2>1
<1>4. ASSUME NEW d \in S PROVE d + 1 \in S
  <2> SUFFICES ASSUME NEW lo \in 0..NodeKeys, NEW hi \in -1..(NodeKeys - 1), hi - lo < d + 1
               PROVE  Right(lo, hi)
    <3> HIDE DEF Right
    <3> QED
      OBVIOUS
  <2>1. CASE lo > hi
    <3> HIDE DEF Right
    <3> QED
      BY <1>2, <2>1
  <2>2. CASE ~(lo > hi)
    <3>1. lo \in Int /\ hi \in Int /\ lo <= hi /\ d \in Nat
      BY <1>1, <2>2
    <3>2. PICK mid \in Int : mid = lo + ((hi - lo) \div 2) /\ lo <= mid /\ mid <= hi
      BY <3>1, MiddleFacts
    <3>3. /\ mid \in Lanes /\ mid # NotFound
          /\ mid + 1 \in 0..NodeKeys /\ hi - (mid + 1) < d
          /\ mid - 1 \in -1..(NodeKeys - 1) /\ (mid - 1) - lo < d
      BY <1>1, <3>1, <3>2
    <3>4. f[<<lo, hi>>] = IF line[mid] = key THEN mid
                          ELSE IF line[mid] < key THEN f[<<mid + 1, hi>>]
                          ELSE f[<<lo, mid - 1>>]
      BY <2>2, <3>2 DEF Bisected
    <3>5. Right(mid + 1, hi) /\ Right(lo, mid - 1)
      <4> HIDE DEF Right
      <4> QED
        BY <3>3
    <3>6. CASE line[mid] = key
      BY <3>3, <3>4, <3>6
    <3>7. CASE line[mid] # key /\ line[mid] < key
      <4>1. f[<<lo, hi>>] = f[<<mid + 1, hi>>]
        BY <3>4, <3>7
      <4>2. ASSUME NEW i \in Lanes, line[i] = key PROVE ~(i <= mid)
        <5> SUFFICES ASSUME i <= mid PROVE FALSE
          OBVIOUS
        <5>1. i \in Int /\ i # mid
          BY <1>1, <3>7, <4>2
        <5>2. i < mid
          BY <3>2, <5>1
        <5>3. line[i] <= line[mid]
          BY <3>3, <5>2
        <5> QED
          BY <3>7, <4>2, <5>3, <3>3
      <4>3. \A i \in Lanes : ~(i <= mid) => mid + 1 <= i
        BY <1>1, <3>2
      <4> QED
        BY <3>5, <4>1, <4>2, <4>3
    <3>8. CASE line[mid] # key /\ ~(line[mid] < key)
      <4>1. f[<<lo, hi>>] = f[<<lo, mid - 1>>]
        BY <3>4, <3>8
      <4>2. ASSUME NEW i \in Lanes, line[i] = key PROVE ~(mid <= i)
        <5> SUFFICES ASSUME mid <= i PROVE FALSE
          OBVIOUS
        <5>1. i \in Int /\ i # mid
          BY <1>1, <3>8, <4>2
        <5>2. mid < i
          BY <3>2, <5>1
        <5>3. line[mid] <= line[i] /\ line[mid] \in Nat
          BY <3>3, <5>2
        <5> QED
          BY <3>8, <4>2, <5>3
      <4>3. \A i \in Lanes : ~(mid <= i) => i <= mid - 1
        BY <1>1, <3>2
      <4> QED
        BY <3>5, <4>1, <4>2, <4>3
    <3> QED
      BY <3>6, <3>7, <3>8
  <2> QED
    BY <2>1, <2>2
<1> HIDE DEF Right
<1>5. S \in SUBSET Nat
  OBVIOUS
<1> HIDE DEF S
<1>6. S = Nat
  BY <1>3, <1>4, <1>5, NatSteps
<1>7. Right(0, NodeKeys - 1)
  <2>1. NodeKeys \in S /\ 0 \in 0..NodeKeys /\ NodeKeys - 1 \in -1..(NodeKeys - 1) /\ (NodeKeys - 1) - 0 < NodeKeys
    BY <1>1, <1>6
  <2> QED
    BY <2>1 DEF S
<1>8. \A i \in Lanes : 0 <= i /\ i <= NodeKeys - 1
  BY <1>1
<1> QED
  BY <1>7, <1>8 DEF Right

LEMMA SearchBinaryFinds ==
  ASSUME NEW line, \A i \in Lanes : line[i] \in Nat, NEW key \in Nat,
         \A i, j \in Lanes : i < j => line[i] <= line[j]
  PROVE  IF SearchBinary(line, key) = NotFound THEN \A i \in Lanes : line[i] # key
         ELSE line[SearchBinary(line, key)] = key
<1>1. PICK h : h = [range \in (0..NodeKeys) \X (-1..(NodeKeys - 1)) |->
                     Bisected(line, key, h, range[1], range[2])]
  BY BisectionExists
<1>2. PICK f : f = CHOOSE g : g = [range \in (0..NodeKeys) \X (-1..(NodeKeys - 1)) |->
                      LET lo == range[1]
                          hi == range[2]
                          mid == lo + ((hi - lo) \div 2)
                      IN  IF lo > hi THEN NotFound
                          ELSE IF line[mid] = key THEN mid
                          ELSE IF line[mid] < key THEN g[<<mid + 1, hi>>]
                          ELSE g[<<lo, mid - 1>>]]
  OBVIOUS
<1>3. f = [range \in (0..NodeKeys) \X (-1..(NodeKeys - 1)) |->
            Bisected(line, key, f, range[1], range[2])]
  BY <1>1, <1>2 DEF Bisected
<1>4. \A lo \in 0..NodeKeys, hi \in -1..(NodeKeys - 1) : f[<<lo, hi>>] = Bisected(line, key, f, lo, hi)
  BY <1>3
<1>5. IF f[<<0, NodeKeys - 1>>] = NotFound THEN \A i \in Lanes : line[i] # key
      ELSE line[f[<<0, NodeKeys - 1>>]] = key
  BY <1>4, BisectionFinds
<1>6. SearchBinary(line, key) = f[<<0, NodeKeys - 1>>]
  BY <1>2 DEF SearchBinary
<1> QED
  BY <1>5, <1>6

-----------------------------------------------------------------------------
(* Permuting is transparent.                                               *)

\* Counting the lanes below the key finds the first that is not.
LEMMA SortedLowerBound ==
  ASSUME NEW line, \A i \in Lanes : line[i] \in 0..EmptyKey, NEW key \in 0..EmptyKey,
         \A i, j \in Lanes : i < j => line[i] <= line[j]
  PROVE  \E m \in 0..NodeKeys :
           /\ LowerBoundScalar(line, key) = m /\ LowerBoundCount(line, key) = m
           /\ LowerBoundAvx2(line, key) = m
           /\ \A r \in Lanes : line[r] < key <=> r < m
<1>1. NodeKeys \in Nat /\ Lanes = 0..(NodeKeys - 1) /\ key \in Nat /\ \A i \in Lanes : line[i] \in Nat
  BY KeysFacts, LaneFacts DEF Lanes
<1>2. PICK n : n = NodeKeys
  OBVIOUS
<1>3. PICK m \in 0..n : /\ Min({r \in 0..n : r = n \/ line[r] >= key}) = m
                        /\ \A r \in 0..(n - 1) : line[r] < key <=> r < m
  <2>1. n \in Nat /\ key \in Nat /\ \A r \in 0..(n - 1) : line[r] \in Nat
    BY <1>1, <1>2
  <2>2. \A q, r \in 0..(n - 1) : q < r => line[q] <= line[r]
    BY <1>1, <1>2
  <2> QED
    BY <2>1, <2>2, FirstNotBelow
<1>4. LowerBoundScalar(line, key) = m
  BY <1>2, <1>3 DEF LowerBoundScalar
<1>5. PICK S, f : S = {i \in Lanes : line[i] < key} /\ f = [r \in 0..(n - 1) |-> r]
  OBVIOUS
<1>6. Permutes(f, n)
  BY <1>5 DEF Permutes
<1>7. S \subseteq 0..(n - 1) /\ \A r \in 0..(n - 1) : f[r] \in S <=> r < m
  BY <1>1, <1>2, <1>3, <1>5
<1>8. Cardinality(S) = m
  BY <1>1, <1>2, <1>6, <1>7, SlotsUpTo
<1>9. LowerBoundCount(line, key) = m
  BY <1>5, <1>8 DEF LowerBoundCount
<1>10. LowerBoundAvx2(line, key) = m
  BY <1>9, CountsAgree
<1> QED
  BY <1>1, <1>2, <1>3, <1>4, <1>9, <1>10

\* The permuted line: live lanes by rank, and padding.
LEMMA PermutedFacts ==
  ASSUME KernelInv
  PROVE  \A i \in Lanes : /\ Permuted(word)[i] \in 0..EmptyKey
                          /\ Permuted(word)[i] = IF i < OrderCount(word) THEN lanes[OrderSlot(word, i)]
                                                 ELSE EmptyKey
<1>1. PICK n : /\ n = OrderCount(word) /\ n \in Nat /\ n <= NodeCapacity
               /\ \A r \in 0..(n - 1) : OrderSlot(word, r) \in 0..(n - 1)
               /\ \A r \in Nat : r >= n => OrderSlot(word, r) = PadSlot
  BY NamedFacts DEF KernelInv
<1>2. PICK line : line = Permuted(word)
  OBVIOUS
<1>3. /\ EmptyKey \in Nat /\ NodeCapacity \in Nat /\ Lanes = 0..NodeCapacity
      /\ lanes \in [Lanes -> 0..EmptyKey] /\ lanes[PadSlot] = EmptyKey
  BY LaneFacts, KeysFacts DEF KernelInv
<1>4. \A i \in Lanes : line[i] = lanes[OrderSlot(word, i)]
  BY <1>2 DEF Permuted
<1>5. \A i \in Lanes : i < n => i \in 0..(n - 1) /\ OrderSlot(word, i) \in Lanes
  BY <1>1, <1>3
<1>6. \A i \in Lanes : ~(i < n) => line[i] = EmptyKey
  BY <1>1, <1>3, <1>4
<1>7. \A i \in Lanes : line[i] \in 0..EmptyKey
  BY <1>3, <1>4, <1>5, <1>6
<1> QED
  BY <1>1, <1>2, <1>4, <1>6, <1>7

\* It is sorted if the lanes are in rank order.
LEMMA PermutedAscends ==
  ASSUME KernelInv, RanksAscend(word), NEW i \in Lanes, NEW j \in Lanes, i < j
  PROVE  Permuted(word)[i] <= Permuted(word)[j]
<1>1. PICK n, line : n = OrderCount(word) /\ n \in Nat /\ line = Permuted(word)
  BY NamedFacts DEF KernelInv
<1>2. EmptyKey \in Nat /\ i \in Nat /\ j \in Nat
  BY LaneFacts, KeysFacts
<1>3. \A r \in Lanes : /\ line[r] \in 0..EmptyKey
                       /\ line[r] = IF r < n THEN lanes[OrderSlot(word, r)] ELSE EmptyKey
  BY <1>1, PermutedFacts
<1>4. CASE j < n
  <2>1. i < n /\ i \in 0..(n - 1) /\ j \in 0..(n - 1)
    BY <1>1, <1>2, <1>4
  <2>2. lanes[OrderSlot(word, i)] <= lanes[OrderSlot(word, j)]
    BY <1>1, <2>1 DEF RanksAscend
  <2> QED
    BY <1>1, <1>3, <1>4, <2>1, <2>2
<1>5. CASE ~(j < n)
  <2>1. line[j] = EmptyKey /\ line[i] \in 0..EmptyKey
    BY <1>3, <1>5
  <2> QED
    BY <1>1, <1>2, <2>1
<1> QED
  BY <1>4, <1>5

\* The walk over the permuted line stops at the padding if not before.
LEMMA LowerBoundsMeet ==
  ASSUME KernelInv, NEW key \in 0..EmptyKey
  PROVE  LowerBoundScalar(Permuted(word), key) = LowerBoundPermScalar(lanes, key, word)
<1>1. PICK line, n : /\ line = Permuted(word) /\ n = OrderCount(word) /\ n \in Nat /\ n <= NodeCapacity
  BY NamedFacts DEF KernelInv
<1>2. /\ EmptyKey \in Nat /\ NodeCapacity \in Nat /\ Lanes = 0..NodeCapacity
      /\ NodeKeys = NodeCapacity + 1 /\ key \in Nat
  BY LaneFacts, KeysFacts
<1>3. \A i \in Lanes : line[i] = IF i < n THEN lanes[OrderSlot(word, i)] ELSE EmptyKey
  BY <1>1, PermutedFacts
<1>4. PICK whole, live : /\ whole = {i \in 0..NodeKeys : i = NodeKeys \/ line[i] >= key}
                         /\ live = {r \in 0..n : r = n \/ lanes[OrderSlot(word, r)] >= key}
  OBVIOUS
<1>5. n \in Lanes /\ n \in 0..NodeKeys /\ ~(n < n)
  BY <1>1, <1>2
<1>6. n \in whole /\ n \in live
  <2>1. line[n] = EmptyKey /\ EmptyKey >= key
    BY <1>2, <1>3, <1>5
  <2> QED
    BY <1>1, <1>4, <1>5, <2>1
<1>7. ASSUME NEW r \in Nat, r < n PROVE r \in whole <=> r \in live
  <2>1. r \in Lanes /\ r \in 0..NodeKeys /\ r \in 0..n /\ r # n /\ r # NodeKeys
    BY <1>1, <1>2, <1>7
  <2> QED
    BY <1>3, <1>4, <1>7, <2>1
<1>8. PICK a, b : a = Min(whole) /\ b = Min(live)
  OBVIOUS
<1>9. /\ a \in whole /\ \A y \in whole : a <= y
      /\ b \in live /\ \A y \in live : b <= y
  <2>1. whole \in SUBSET Nat /\ live \in SUBSET Nat
    BY <1>1, <1>2, <1>4
  <2> QED
    BY <1>6, <1>8, <2>1, LeastExists
<1>10. a \in Nat /\ b \in Nat /\ a <= n /\ b <= n
  BY <1>1, <1>2, <1>4, <1>6, <1>9
<1>11. a \in live /\ b \in whole
  BY <1>1, <1>6, <1>7, <1>9, <1>10
<1>12. a = b
  <2>1. a <= b /\ b <= a
    BY <1>9, <1>11
  <2> QED
    BY <1>10, <2>1
<1> QED
  BY <1>1, <1>4, <1>8, <1>12 DEF LowerBoundScalar, LowerBoundPermScalar

LEMMA MaskIsLinear ==
  ASSUME NEW line, NEW key
  PROVE  SearchMask(line, key) = SearchLinear(line, key)
<1>1. NodeKeys \in Nat /\ Lanes = 0..(NodeKeys - 1) /\ NotFound = NodeKeys
  BY KeysFacts DEF Lanes, NotFound
<1>2. \A i : i \in 0..NotFound <=> i \in Lanes \/ i = NotFound
  BY <1>1
<1>3. NotFound \notin Lanes
  BY <1>1
<1>4. {i \in Lanes : line[i] = key} \union {NotFound} = {i \in 0..NotFound : i = NotFound \/ line[i] = key}
  BY <1>2, <1>3
<1> QED
  BY <1>4 DEF SearchMask, SearchLinear

LEMMA LinearMisses ==
  ASSUME NEW line, NEW key, \A i \in Lanes : line[i] # key
  PROVE  SearchLinear(line, key) = NotFound
<1>1. NodeKeys \in Nat /\ Lanes = 0..(NodeKeys - 1) /\ NotFound = NodeKeys
  BY KeysFacts DEF Lanes, NotFound
<1>2. {i \in 0..NotFound : i = NotFound \/ line[i] = key} = {NotFound}
  BY <1>1
<1>3. {NotFound} \in SUBSET Nat /\ {NotFound} # {}
  BY <1>1
<1>4. Min({NotFound}) \in {NotFound}
  BY <1>3, LeastExists
<1> QED
  BY <1>2, <1>4 DEF SearchLinear

\* Given a node by rank, the walk over the line returns what the walk over the ranks
\* does and the mask the first equal slot; and if its lanes are in rank order, the
\* counts return what the walk does and the bisection finds an equal lane if there
\* is one.
THEOREM PermutingIsTransparent == Spec => []PermuteTransparent
<1>1. KernelInv => PermuteTransparent
  <2> SUFFICES ASSUME KernelInv, NEW cpu \in Cpu, NEW key \in LaneValue, NEW line, line = Permuted(word)
               PROVE  /\ LowerBoundScalar(line, key) = LowerBoundPermScalar(lanes, key, word)
                      /\ SearchDispatch(cpu, line, key) = SearchLinear(line, key)
                      /\ RanksAscend(word) =>
                           /\ LowerBoundDispatch(cpu, line, key) = LowerBoundScalar(line, key)
                           /\ IF SearchBinary(line, key) = NotFound THEN SearchLinear(line, key) = NotFound
                              ELSE line[SearchBinary(line, key)] = key
    BY DEF PermuteTransparent
  <2>1. key \in 0..EmptyKey /\ key \in Nat
    BY LaneFacts
  <2>2. \A i \in Lanes : line[i] \in 0..EmptyKey
    BY PermutedFacts
  <2>3. \A i \in Lanes : line[i] \in Nat
    BY <2>2, LaneFacts
  <2>4. LowerBoundScalar(line, key) = LowerBoundPermScalar(lanes, key, word)
    BY <2>1, LowerBoundsMeet
  <2>5. SearchDispatch(cpu, line, key) = SearchLinear(line, key)
    BY MaskIsLinear DEF SearchDispatch
  <2>6. ASSUME RanksAscend(word)
        PROVE  /\ LowerBoundDispatch(cpu, line, key) = LowerBoundScalar(line, key)
               /\ IF SearchBinary(line, key) = NotFound THEN SearchLinear(line, key) = NotFound
                  ELSE line[SearchBinary(line, key)] = key
    <3>1. \A i, j \in Lanes : i < j => line[i] <= line[j]
      BY <2>6, PermutedAscends
    <3>2. PICK m : /\ LowerBoundScalar(line, key) = m /\ LowerBoundCount(line, key) = m
                   /\ LowerBoundAvx2(line, key) = m
      BY <2>1, <2>2, <3>1, SortedLowerBound
    <3>3. LowerBoundDispatch(cpu, line, key) = LowerBoundScalar(line, key)
      BY <3>2 DEF LowerBoundDispatch
    <3>4. IF SearchBinary(line, key) = NotFound THEN \A i \in Lanes : line[i] # key
          ELSE line[SearchBinary(line, key)] = key
      BY <2>1, <2>3, <3>1, SearchBinaryFinds
    <3>5. (\A i \in Lanes : line[i] # key) => SearchLinear(line, key) = NotFound
      BY LinearMisses
    <3> QED
      BY <3>3, <3>4, <3>5
  <2> QED
    BY <2>4, <2>5, <2>6
<1> QED
  BY <1>1, KernelInvHolds, PTL

-----------------------------------------------------------------------------
(* Nodes made by hand.                                                     *)

\* What make_node and make_append_node return.
Made ==
  IF shape = "sorted" THEN {[keys |-> sorted, order |-> 0] : sorted \in SortedNodes}
  ELSE {AppendNode(sorted, slots) :
          sorted \in SortedNodes, slots \in Bijection(0..(NodeCapacity - 1), 0..(NodeCapacity - 1))}

\* Every node is one the generators make, and the probe was drawn from the nodes
\* there still are, as a hit just when one of them holds it.
WorkInv ==
  /\ shape \in {"sorted", "append"}
  /\ nodes \in Seq(Made)
  /\ probe # NoProbe =>
       probe.key \in Draws /\ probe.hit \in BOOLEAN /\ probe.hit = PresentAnywhere(probe.key)

LEMMA DrawFacts ==
  /\ Draws \subseteq 0..EmptyKey /\ EmptyKey \notin Draws /\ Draws \subseteq LaneValue
  /\ \A sorted \in SortedNodes :
       /\ \A i \in Lanes : sorted[i] \in Draws /\ sorted[i] \in Nat
       /\ \A i, j \in Lanes : i < j => sorted[i] < sorted[j]
<1>1. Draws \subseteq 0..EmptyKey /\ EmptyKey \notin Draws /\ Draws \subseteq LaneValue
  BY LaneFacts DEF Draws
<1>2. 0..EmptyKey \subseteq Nat
  BY LaneFacts
<1>3. ASSUME NEW sorted \in SortedNodes
      PROVE  /\ \A i \in Lanes : sorted[i] \in Draws /\ sorted[i] \in Nat
             /\ \A i, j \in Lanes : i < j => sorted[i] < sorted[j]
  <2>1. sorted \in [Lanes -> Draws] /\ \A i, j \in Lanes : i < j => sorted[i] < sorted[j]
    BY DEF SortedNodes
  <2>2. \A i \in Lanes : sorted[i] \in Draws
    BY <2>1
  <2>3. \A i \in Lanes : sorted[i] \in Nat
    BY <1>1, <1>2, <2>2
  <2> QED
    BY <2>1, <2>2, <2>3
<1> QED
  BY <1>1, <1>3

Distinct(line, n) == \A s, t \in 0..(n - 1) : line[s] = line[t] => s = t

\* A node made by hand holds each draw in the slot its rank is dealt, and its word
\* orders them.
LEMMA AppendNodeFacts ==
  ASSUME NEW sorted \in SortedNodes,
         NEW slots \in Bijection(0..(NodeCapacity - 1), 0..(NodeCapacity - 1)),
         NEW a, a = AppendNode(sorted, slots)
  PROVE  /\ a.keys \in [Lanes -> 0..EmptyKey] /\ a.keys[PadSlot] = EmptyKey
         /\ \A s \in 0..(NodeCapacity - 1) : a.keys[s] \in Draws
         /\ Distinct(a.keys, NodeCapacity)
         /\ Ordered(a.keys, a.order, slots, NodeCapacity)
<1>1. PICK n : n = NodeCapacity
  OBVIOUS
<1>2. n \in Nat /\ n >= 1 /\ Lanes = 0..n /\ PadSlot = n
  BY <1>1, KeysFacts, LaneFacts
<1>3. Permutes(slots, n)
  <2>1. /\ slots \in [0..(n - 1) -> 0..(n - 1)]
        /\ \A q, r \in 0..(n - 1) : slots[q] = slots[r] => q = r
        /\ \A s \in 0..(n - 1) : \E r \in 0..(n - 1) : slots[r] = s
    BY <1>1 DEF Bijection, Injection, Surjection, IsInjective
  <2> QED
    BY <2>1 DEF Permutes
<1>4. /\ slots \in [0..(n - 1) -> 0..(n - 1)] /\ DOMAIN slots = 0..(n - 1)
      /\ \A q, r \in 0..(n - 1) : slots[q] = slots[r] => q = r
      /\ \A s \in 0..(n - 1) : \E r \in 0..(n - 1) : slots[r] = s
  BY <1>3 DEF Permutes
<1>5. PICK line : line = a.keys
  OBVIOUS
<1>6. /\ line = [s \in Lanes |-> IF s = PadSlot THEN EmptyKey
                                 ELSE sorted[CHOOSE rank \in DOMAIN slots : slots[rank] = s]]
      /\ a.order = HandBuiltWord(slots)
  BY <1>5 DEF AppendNode
<1>7. \A r \in 0..(n - 1) : r \in Lanes /\ slots[r] \in Lanes /\ slots[r] # PadSlot
  <2>1. \A x \in 0..(n - 1) : x \in Lanes /\ x # PadSlot
    BY <1>2
  <2>2. \A r \in 0..(n - 1) : slots[r] \in 0..(n - 1)
    BY <1>4
  <2> QED
    BY <2>1, <2>2
<1>8. ASSUME NEW r \in 0..(n - 1) PROVE line[slots[r]] = sorted[r]
  <2>1. PICK q : q = CHOOSE rank \in DOMAIN slots : slots[rank] = slots[r]
    OBVIOUS
  <2>2. q \in DOMAIN slots /\ slots[q] = slots[r]
    BY <1>4, <2>1
  <2>3. q = r
    BY <1>4, <2>2
  <2> QED
    BY <1>6, <1>7, <2>1, <2>3
<1>9. line[PadSlot] = EmptyKey
  BY <1>2, <1>6
<1>10. \A s \in 0..(n - 1) : line[s] \in Draws
  <2> SUFFICES ASSUME NEW s \in 0..(n - 1) PROVE line[s] \in Draws
    OBVIOUS
  <2>1. PICK r \in 0..(n - 1) : slots[r] = s
    BY <1>4
  <2>2. sorted[r] \in Draws
    BY <1>7, DrawFacts
  <2> QED
    BY <1>8, <2>1, <2>2
<1>11. line \in [Lanes -> 0..EmptyKey]
  <2>1. \A s \in Lanes : s = PadSlot \/ s \in 0..(n - 1)
    BY <1>2
  <2>2. \A s \in Lanes : line[s] \in 0..EmptyKey
    BY <1>9, <1>10, <2>1, DrawFacts, LaneFacts
  <2> QED
    BY <1>6, <2>2
<1>12. ASSUME NEW q \in 0..(n - 1), NEW r \in 0..(n - 1), q < r
       PROVE  line[slots[q]] < line[slots[r]] /\ line[slots[q]] \in Nat /\ line[slots[r]] \in Nat
  <2>1. sorted[q] < sorted[r] /\ sorted[q] \in Nat /\ sorted[r] \in Nat
    BY <1>7, <1>12, DrawFacts
  <2> QED
    BY <1>8, <2>1
<1>13. Ascends(line, slots, n)
  <2>1. ASSUME NEW q \in 0..(n - 1), NEW r \in 0..(n - 1), q < r
        PROVE  line[slots[q]] <= line[slots[r]]
    BY <1>12, <2>1
  <2> QED
    BY <2>1 DEF Ascends
<1>14. Distinct(line, n)
  <2> SUFFICES ASSUME NEW s \in 0..(n - 1), NEW t \in 0..(n - 1), line[s] = line[t] PROVE s = t
    BY DEF Distinct
  <2>1. PICK q \in 0..(n - 1) : slots[q] = s
    BY <1>4
  <2>2. PICK r \in 0..(n - 1) : slots[r] = t
    BY <1>4
  <2>3. line[slots[q]] = line[slots[r]]
    BY <2>1, <2>2
  <2>4. ~(q < r)
    <3> SUFFICES ASSUME q < r PROVE FALSE
      OBVIOUS
    <3>1. line[slots[q]] < line[slots[r]] /\ line[slots[q]] \in Nat
      BY <1>12
    <3> QED
      BY <2>3, <3>1
  <2>5. ~(r < q)
    <3> SUFFICES ASSUME r < q PROVE FALSE
      OBVIOUS
    <3>1. line[slots[r]] < line[slots[q]] /\ line[slots[r]] \in Nat
      BY <1>12
    <3> QED
      BY <2>3, <3>1
  <2>6. q = r
    BY <1>2, <2>4, <2>5
  <2> QED
    BY <2>1, <2>2, <2>6
<1>15. IsWord(a.order, slots, n)
  BY <1>1, <1>4, <1>6, HandBuiltIs
<1>16. Ordered(line, a.order, slots, n)
  BY <1>3, <1>13, <1>15 DEF Ordered, Names
<1> QED
  BY <1>1, <1>5, <1>9, <1>10, <1>11, <1>14, <1>16

\* Distinct lanes have one order.
LEMMA OneOrder ==
  ASSUME NEW n \in Nat, NEW line, Distinct(line, n), \A s \in 0..(n - 1) : line[s] \in Nat,
         NEW f, Permutes(f, n), Ascends(line, f, n), NEW h, Permutes(h, n), Ascends(line, h, n)
  PROVE  f = h
<1>1. ASSUME NEW g, Permutes(g, n), Ascends(line, g, n), NEW r \in 0..(n - 1)
      PROVE  Cardinality({s \in 0..(n - 1) : line[s] < line[g[r]]}) = r
  <2>1. PICK S : S = {s \in 0..(n - 1) : line[s] < line[g[r]]}
    OBVIOUS
  <2>2. \A q \in 0..(n - 1) : g[q] \in 0..(n - 1) /\ line[g[q]] \in Nat
    BY <1>1 DEF Permutes
  <2>3. ASSUME NEW q \in 0..(n - 1) PROVE g[q] \in S <=> q < r
    <3>1. CASE q < r
      <4>1. line[g[q]] <= line[g[r]]
        BY <1>1, <3>1 DEF Ascends
      <4>2. g[q] # g[r]
        BY <1>1, <3>1 DEF Permutes
      <4>3. line[g[q]] # line[g[r]]
        BY <2>2, <4>2 DEF Distinct
      <4>4. line[g[q]] < line[g[r]]
        BY <2>2, <4>1, <4>3
      <4> QED
        BY <2>1, <2>2, <3>1, <4>4
    <3>2. CASE ~(q < r)
      <4>1. line[g[r]] <= line[g[q]]
        <5>1. r < q \/ r = q
          BY <3>2
        <5>2. line[g[r]] \in Nat
          BY <2>2
        <5> QED
          BY <1>1, <5>1, <5>2 DEF Ascends
      <4>2. ~(line[g[q]] < line[g[r]])
        BY <2>2, <4>1
      <4> QED
        BY <2>1, <3>2, <4>2
    <3> QED
      BY <3>1, <3>2
  <2>4. r \in 0..n /\ S \subseteq 0..(n - 1)
    BY <2>1
  <2>5. Cardinality(S) = r
    BY <1>1, <2>3, <2>4, SlotsUpTo
  <2> QED
    BY <2>1, <2>5
<1>2. ASSUME NEW r \in 0..(n - 1) PROVE f[r] = h[r]
  <2>1. f[r] \in 0..(n - 1)
    BY DEF Permutes
  <2>2. PICK q \in 0..(n - 1) : h[q] = f[r]
    BY <2>1 DEF Permutes
  <2>3. Cardinality({s \in 0..(n - 1) : line[s] < line[f[r]]}) = r
    BY <1>1
  <2>4. Cardinality({s \in 0..(n - 1) : line[s] < line[h[q]]}) = q
    BY <1>1
  <2>5. q = r
    BY <2>2, <2>3, <2>4
  <2> QED
    BY <2>2, <2>5
<1> QED
  BY <1>2 DEF Permutes

-----------------------------------------------------------------------------
(* The appends that arrive at a node.                                      *)

\* The rank of slot i among the slots before it, and the word appended to.
RankOf(line, i) == Cardinality({s \in 0..(i - 1) : line[s] < line[i]})

AppendsTo(g, line) ==
  g[0] = 0 /\ \A i \in 1..NodeCapacity : g[i] = OrderInsert(g[i - 1], RankOf(line, i - 1), i - 1)

LEMMA RankInRange ==
  ASSUME NEW line, NEW i \in Nat
  PROVE  RankOf(line, i) \in Nat
<1>1. PICK S : S = {s \in 0..(i - 1) : line[s] < line[i]}
  OBVIOUS
<1>2. IsFiniteSet(0..(i - 1))
  BY FS_Interval
<1>3. IsFiniteSet(S)
  BY <1>1, <1>2, FS_Subset
<1>4. Cardinality(S) \in Nat
  BY <1>3, FS_CardinalityType
<1> QED
  BY <1>1, <1>4 DEF RankOf

LEMMA InsertInNat ==
  ASSUME NEW o \in Nat, NEW rank \in Nat, NEW slot \in Nat
  PROVE  OrderInsert(o, rank, slot) \in Nat
<1>1. PICK u, v, w : u = Pow2[RankBits * rank] /\ v = Pow2[RankBits * rank + RankBits] /\ w = Pow2[WordBits]
  OBVIOUS
<1>2. u \in Nat \ {0} /\ v \in Nat \ {0} /\ w \in Nat \ {0}
  <2>1. RankBits \in Nat /\ NodeKeys \in Nat
    BY RankBitsAssumption, KeysFacts
  <2>2. RankBits * rank \in Nat /\ RankBits * rank + RankBits \in Nat /\ WordBits \in Nat
    BY <2>1 DEF WordBits
  <2> QED
    BY <1>1, <2>2, PowerFacts
<1>3. PICK q : q = o \div u
  OBVIOUS
<1>4. q \in Nat /\ o % u \in Nat
  <2>1. q \in Nat /\ o % u \in 0..(u - 1)
    BY <1>2, <1>3, Remainder
  <2> QED
    BY <1>2, <2>1
<1>5. PICK x : x = q * v
  OBVIOUS
<1>6. x \in Nat
  BY <1>2, <1>4, <1>5
<1>7. x % w \in Nat
  <2>1. x % w \in 0..(w - 1)
    BY <1>2, <1>6, Remainder
  <2> QED
    BY <1>2, <2>1
<1>8. PICK y, z : y = o % u /\ z = x % w
  OBVIOUS
<1>9. y + z + (slot + 1) * u \in Nat
  BY <1>2, <1>4, <1>7, <1>8
<1>10. OrderInsert(o, rank, slot) = y + z + (slot + 1) * u
  BY <1>1, <1>3, <1>5, <1>8 DEF OrderInsert
<1> QED
  BY <1>9, <1>10

\* The appends of the first i slots order them.
LEMMA AppendedOrders ==
  ASSUME NEW line, \A s \in 0..(NodeCapacity - 1) : line[s] \in Nat, NEW g, AppendsTo(g, line)
  PROVE  \E f : Ordered(line, g[NodeCapacity], f, NodeCapacity)
<1> DEFINE S == {i \in Nat : i <= NodeCapacity => \E f : Ordered(line, g[i], f, i)}
<1>1. PICK n : n = NodeCapacity /\ n \in Nat
  BY KeysFacts
<1>2. 0 \in S
  <2>1. PICK f : f = [r \in 0..(0 - 1) |-> r]
    OBVIOUS
  <2>2. Unit(0) - 1 = 0 /\ 0 \in 0..0 /\ 0..(0 - 1) = {} /\ 0 \in 0..NodeCapacity
    BY UnitFacts, KeysFacts
  <2>3. IsWord(0, f, 0)
    <3>1. f \in [0..(0 - 1) -> 0..(NodeCapacity - 1)]
      BY <2>1, <2>2
    <3> QED
      BY <2>2, <3>1 DEF IsWord
  <2>4. Permutes(f, 0) /\ Ascends(line, f, 0)
    BY <2>1 DEF Permutes, Ascends
  <2>5. Ordered(line, g[0], f, 0)
    BY <2>3, <2>4 DEF Ordered, Names, AppendsTo
  <2> QED
    BY <2>5
<1>3. ASSUME NEW i \in S PROVE i + 1 \in S
  <2> SUFFICES ASSUME i + 1 <= NodeCapacity PROVE \E f : Ordered(line, g[i + 1], f, i + 1)
    OBVIOUS
  <2>1. i \in Nat /\ i + 1 <= n
    BY <1>1
  <2>2. i <= n /\ i < n /\ i \in 0..(n - 1) /\ i + 1 \in 1..n /\ (i + 1) - 1 = i
    BY <1>1, <2>1
  <2>3. PICK f : Ordered(line, g[i], f, i)
    BY <1>1, <2>2
  <2> HIDE DEF S
  <2>4. IsWord(g[i], f, i) /\ Permutes(f, i) /\ Ascends(line, f, i)
    BY <2>3 DEF Ordered, Names
  <2>5. \A s \in 0..i : line[s] \in Nat
    <3>1. \A s \in 0..i : s \in 0..(n - 1)
      BY <1>1, <2>1
    <3> QED
      BY <1>1, <3>1
  <2>6. line[i] \in Nat
    BY <2>1, <2>5
  <2>7. PICK run, key : run = [r \in 0..(i - 1) |-> line[f[r]]] /\ key = line[i]
    OBVIOUS
  <2>8. \A r \in 0..(i - 1) : f[r] \in 0..(i - 1) /\ f[r] \in 0..i
    <3>1. \A r \in 0..(i - 1) : f[r] \in 0..(i - 1)
      BY <2>4 DEF Permutes
    <3>2. \A x \in 0..(i - 1) : x \in 0..i
      BY <2>1
    <3> QED
      BY <3>1, <3>2
  <2>9. i \in Nat /\ key \in Nat /\ \A r \in 0..(i - 1) : run[r] \in Nat
    BY <2>1, <2>5, <2>6, <2>7, <2>8
  <2>10. \A q, r \in 0..(i - 1) : q < r => run[q] <= run[r]
    BY <2>4, <2>7 DEF Ascends
  <2>11. PICK m \in 0..i : \A r \in 0..(i - 1) : run[r] < key <=> r < m
    BY <2>9, <2>10, FirstNotBelow
  <2>12. RankOf(line, i) = m
    <3>1. PICK T : T = {s \in 0..(i - 1) : line[s] < line[i]}
      OBVIOUS
    <3>2. T \subseteq 0..(i - 1) /\ \A r \in 0..(i - 1) : f[r] \in T <=> r < m
      BY <2>7, <2>8, <2>11, <3>1
    <3>3. Cardinality(T) = m
      BY <2>1, <2>4, <3>2, SlotsUpTo
    <3> QED
      BY <3>1, <3>3 DEF RankOf
  <2>13. g[i + 1] = OrderInsert(g[i], m, i)
    BY <1>1, <2>2, <2>12 DEF AppendsTo
  <2>14. ASSUME NEW r \in 0..(i - 1)
         PROVE  IF r < m THEN line[f[r]] <= line[i] ELSE line[f[r]] >= line[i]
    <3>1. run[r] = line[f[r]] /\ run[r] \in Nat /\ key = line[i] /\ key \in Nat
      BY <2>7, <2>9
    <3>2. run[r] < key <=> r < m
      BY <2>11
    <3>3. PICK x : x = run[r] /\ x \in Nat
      BY <3>1
    <3>4. IF r < m THEN x <= key ELSE x >= key
      BY <3>1, <3>2, <3>3
    <3> QED
      BY <3>1, <3>3, <3>4
  <2>15. IsWord(g[i + 1], Spliced(f, i, m, i), i + 1)
    <3>1. i < NodeCapacity /\ i \in 0..(NodeCapacity - 1)
      BY <1>1, <2>2
    <3> QED
      BY <2>4, <2>13, <3>1, InsertIs
  <2>16. Permutes(Spliced(f, i, m, i), i + 1)
    BY <2>1, <2>4, SplicedPermutes
  <2>17. Ascends(line, Spliced(f, i, m, i), i + 1)
    BY <2>1, <2>4, <2>5, <2>14, SplicedAscends
  <2> QED
    BY <2>15, <2>16, <2>17 DEF Ordered, Names
<1>4. S \in SUBSET Nat
  OBVIOUS
<1> HIDE DEF S
<1>5. S = Nat
  BY <1>2, <1>3, <1>4, NatSteps
<1>6. n \in S /\ n <= n
  BY <1>1, <1>5
<1> QED
  BY <1>1, <1>6 DEF S

\* The words of those appends, as the recursive function.
AppendsBy(g, line) ==
  g = [n \in 0..NodeCapacity |->
        IF n = 0 THEN 0
        ELSE OrderInsert(g[n - 1], Cardinality({s \in 0..(n - 2) : line[s] < line[n - 1]}), n - 1)]

LEMMA AppendsExist ==
  ASSUME NEW line
  PROVE  \E g : AppendsBy(g, line)
<1>1. PICK n : n = NodeCapacity /\ n \in Nat
  BY KeysFacts
<1>2. PICK step : step = [p \in (1..n) \X Nat |-> OrderInsert(p[2], RankOf(line, p[1] - 1), p[1] - 1)]
  OBVIOUS
<1>3. \A i \in 1..n : i - 1 \in Nat
  BY <1>1
<1>4. step \in [(1..n) \X Nat -> Nat]
  <2>1. ASSUME NEW p \in (1..n) \X Nat PROVE OrderInsert(p[2], RankOf(line, p[1] - 1), p[1] - 1) \in Nat
    <3>1. PICK i, x, rank : i = p[1] - 1 /\ x = p[2] /\ rank = RankOf(line, p[1] - 1)
      OBVIOUS
    <3>2. i \in Nat /\ x \in Nat
      BY <1>3, <3>1
    <3>3. rank \in Nat
      BY <3>1, <3>2, RankInRange
    <3>4. OrderInsert(x, rank, i) \in Nat
      BY <3>2, <3>3, InsertInNat
    <3> QED
      BY <3>1, <3>4
  <2> QED
    BY <1>2, <2>1
<1>5. PICK g : StepsFrom(g, n, step)
  BY <1>1, <1>4, StepsExist
<1>6. \A i \in 1..n : g[i] = OrderInsert(g[i - 1], RankOf(line, i - 1), i - 1)
  <2> SUFFICES ASSUME NEW i \in 1..n PROVE g[i] = OrderInsert(g[i - 1], RankOf(line, i - 1), i - 1)
    OBVIOUS
  <2>1. i - 1 \in 0..n
    BY <1>1
  <2>2. g[i - 1] \in Nat /\ g[i] = step[<<i, g[i - 1]>>]
    BY <1>5, <2>1 DEF StepsFrom
  <2> QED
    BY <1>2, <2>2
<1>7. \A i \in 1..n : (i - 1) - 1 = i - 2
  BY <1>1
<1>8. \A i \in 1..n : RankOf(line, i - 1) = Cardinality({s \in 0..(i - 2) : line[s] < line[i - 1]})
  BY <1>7 DEF RankOf
<1>9. g = [i \in 0..n |-> IF i = 0 THEN 0
                          ELSE OrderInsert(g[i - 1], Cardinality({s \in 0..(i - 2) : line[s] < line[i - 1]}), i - 1)]
  <2>1. \A i \in 0..n : i # 0 => i \in 1..n
    BY <1>1
  <2>2. g[0] = 0 /\ g \in [0..n -> Nat]
    BY <1>5 DEF StepsFrom
  <2>3. \A i \in 0..n : g[i] = IF i = 0 THEN 0
                               ELSE OrderInsert(g[i - 1], Cardinality({s \in 0..(i - 2) : line[s] < line[i - 1]}), i - 1)
    BY <1>6, <1>8, <2>1, <2>2
  <2> QED
    BY <2>2, <2>3
<1> QED
  BY <1>1, <1>9 DEF AppendsBy

AppendedWord(keys) ==
  LET built[n \in 0..NodeCapacity] ==
        IF n = 0 THEN 0
        ELSE OrderInsert(built[n - 1], Cardinality({s \in 0..(n - 2) : keys[s] < keys[n - 1]}), n - 1)
  IN  built[NodeCapacity]

\* The word of a node made by hand is the one its appends arrive at.
LEMMA HandBuiltAsAppended ==
  ASSUME NEW sorted \in SortedNodes,
         NEW slots \in Bijection(0..(NodeCapacity - 1), 0..(NodeCapacity - 1)),
         NEW a, a = AppendNode(sorted, slots), NEW keys, keys = a.keys
  PROVE  a.order = AppendedWord(keys) /\ keys[PadSlot] = EmptyKey
<1>1. /\ keys[PadSlot] = EmptyKey
      /\ \A s \in 0..(NodeCapacity - 1) : keys[s] \in Draws
      /\ Distinct(keys, NodeCapacity)
      /\ Ordered(keys, a.order, slots, NodeCapacity)
  BY AppendNodeFacts
<1>2. \A s \in 0..(NodeCapacity - 1) : keys[s] \in Nat
  BY <1>1, DrawFacts, LaneFacts
<1>3. PICK h : AppendsBy(h, keys)
  BY AppendsExist
<1>4. PICK g : g = CHOOSE built : built = [n \in 0..NodeCapacity |->
                     IF n = 0 THEN 0
                     ELSE OrderInsert(built[n - 1], Cardinality({s \in 0..(n - 2) : keys[s] < keys[n - 1]}), n - 1)]
  OBVIOUS
<1>5. AppendsBy(g, keys)
  BY <1>3, <1>4 DEF AppendsBy
<1>6. AppendsTo(g, keys)
  <2>1. NodeCapacity \in Nat
    BY KeysFacts
  <2>2. \A i \in 1..NodeCapacity : i \in 0..NodeCapacity /\ i # 0 /\ (i - 1) - 1 = i - 2
    BY <2>1
  <2>3. 0 \in 0..NodeCapacity
    BY <2>1
  <2> QED
    BY <1>5, <2>2, <2>3 DEF AppendsTo, AppendsBy, RankOf
<1>7. PICK f : Ordered(keys, g[NodeCapacity], f, NodeCapacity)
  BY <1>2, <1>6, AppendedOrders
<1>8. PICK n : n = NodeCapacity /\ n \in Nat
  BY KeysFacts
<1>9. /\ Permutes(f, n) /\ Ascends(keys, f, n) /\ IsWord(g[n], f, n)
      /\ Permutes(slots, n) /\ Ascends(keys, slots, n) /\ IsWord(a.order, slots, n)
  BY <1>1, <1>7, <1>8 DEF Ordered, Names
<1>10. f = slots
  BY <1>1, <1>2, <1>8, <1>9, OneOrder
<1>11. a.order = g[n]
  BY <1>9, <1>10, WordsEqual
<1>12. AppendedWord(keys) = g[n]
  BY <1>4, <1>8 DEF AppendedWord
<1> QED
  BY <1>1, <1>11, <1>12

-----------------------------------------------------------------------------
(* What a probe finds.                                                     *)

LEMMA MadeIs ==
  ASSUME NEW a \in Made
  PROVE  /\ shape = "sorted" => a.keys \in SortedNodes
         /\ shape # "sorted" =>
              \E sorted \in SortedNodes,
                 slots \in Bijection(0..(NodeCapacity - 1), 0..(NodeCapacity - 1)) :
                a = AppendNode(sorted, slots)
<1>1. CASE shape = "sorted"
  <2>1. PICK sorted \in SortedNodes : a = [keys |-> sorted, order |-> 0]
    BY <1>1 DEF Made
  <2>2. a.keys = sorted
    BY <2>1
  <2> QED
    BY <1>1, <2>2
<1>2. CASE shape # "sorted"
  BY <1>2 DEF Made
<1> QED
  BY <1>1, <1>2

\* The live slots of a node made by hand are all but the padding.
LEMMA LiveAre ==
  ASSUME NEW a \in Made, shape # "sorted"
  PROVE  /\ a.keys \in [Lanes -> 0..EmptyKey] /\ a.keys[PadSlot] = EmptyKey
         /\ \A s \in 0..(NodeCapacity - 1) : a.keys[s] \in Draws
         /\ Orders(a.keys, a.order) /\ OrderCount(a.order) = NodeCapacity
         /\ \A r \in 0..(NodeCapacity - 1) : OrderSlot(a.order, r) \in 0..(NodeCapacity - 1)
         /\ LiveSlots(a) = {OrderSlot(a.order, r) : r \in 0..(NodeCapacity - 1)}
<1>1. PICK sorted \in SortedNodes,
           slots \in Bijection(0..(NodeCapacity - 1), 0..(NodeCapacity - 1)) :
        a = AppendNode(sorted, slots)
  BY MadeIs
<1>2. /\ a.keys \in [Lanes -> 0..EmptyKey] /\ a.keys[PadSlot] = EmptyKey
      /\ \A s \in 0..(NodeCapacity - 1) : a.keys[s] \in Draws
      /\ Ordered(a.keys, a.order, slots, NodeCapacity)
  BY <1>1, AppendNodeFacts
<1>3. Orders(a.keys, a.order) /\ OrderCount(a.order) = NodeCapacity
  BY <1>2, OrderedIs
<1>4. IsWord(a.order, slots, NodeCapacity)
  BY <1>2 DEF Ordered, Names
<1>5. \A r \in 0..(NodeCapacity - 1) : OrderSlot(a.order, r) = slots[r]
  BY <1>4, SlotsOf
<1>6. \A r \in 0..(NodeCapacity - 1) : slots[r] \in 0..(NodeCapacity - 1)
  BY DEF Bijection, Injection
<1> QED
  BY <1>2, <1>3, <1>5, <1>6 DEF LiveSlots

LEMMA LiveDrawn ==
  ASSUME NEW a \in Made, NEW k \in LiveKeys(a)
  PROVE  k \in Draws
<1>1. PICK s \in LiveSlots(a) : k = a.keys[s]
  BY DEF LiveKeys
<1>2. CASE shape = "sorted"
  <2>1. a.keys \in SortedNodes /\ s \in Lanes
    BY <1>1, <1>2, MadeIs DEF LiveSlots
  <2> QED
    BY <1>1, <2>1, DrawFacts
<1>3. CASE shape # "sorted"
  <2>1. s \in 0..(NodeCapacity - 1)
    BY <1>1, <1>3, LiveAre
  <2> QED
    BY <1>1, <1>3, <2>1, LiveAre
<1> QED
  BY <1>2, <1>3

LEMMA MaskFinds ==
  ASSUME NEW line, NEW key
  PROVE  SearchMask(line, key) # NotFound <=> \E i \in Lanes : line[i] = key
<1>1. NodeKeys \in Nat /\ Lanes = 0..(NodeKeys - 1) /\ NotFound = NodeKeys
  BY KeysFacts DEF Lanes, NotFound
<1>2. PICK hits : hits = {i \in Lanes : line[i] = key} \union {NotFound}
  OBVIOUS
<1>3. hits \in SUBSET Nat /\ hits # {}
  BY <1>1, <1>2
<1>4. Min(hits) \in hits /\ \A y \in hits : Min(hits) <= y
  BY <1>3, LeastExists
<1>5. CASE \E i \in Lanes : line[i] = key
  <2>1. PICK i \in Lanes : line[i] = key
    BY <1>5
  <2>2. Min(hits) <= i /\ i < NotFound /\ Min(hits) \in Nat
    BY <1>1, <1>2, <1>3, <1>4, <2>1
  <2> QED
    BY <1>1, <1>2, <1>5, <2>2 DEF SearchMask
<1>6. CASE ~\E i \in Lanes : line[i] = key
  <2>1. Min(hits) = NotFound
    BY <1>2, <1>4, <1>6
  <2> QED
    BY <1>2, <1>6, <2>1 DEF SearchMask
<1> QED
  BY <1>5, <1>6

\* The kernels of any CPU find a value in a node just when it is one of its live keys.
LEMMA FoundWhenLive ==
  ASSUME NEW a \in Made, NEW k \in Draws, NEW cpu
  PROVE  Finds(cpu, a, k) <=> k \in LiveKeys(a)
<1>1. CASE shape = "sorted"
  <2>1. Finds(cpu, a, k) <=> \E i \in Lanes : a.keys[i] = k
    BY <1>1, MaskFinds DEF Finds, SearchDispatch
  <2>2. LiveSlots(a) = Lanes
    BY <1>1 DEF LiveSlots
  <2> QED
    BY <2>1, <2>2 DEF LiveKeys
<1>2. CASE shape # "sorted"
  <2>1. PICK keys, o, n : keys = a.keys /\ o = a.order /\ n = NodeCapacity
    OBVIOUS
  <2>2. /\ keys \in [Lanes -> 0..EmptyKey] /\ Orders(keys, o) /\ OrderCount(o) = n
        /\ LiveSlots(a) = {OrderSlot(o, r) : r \in 0..(n - 1)}
        /\ \A s \in 0..(n - 1) : keys[s] \in Draws
        /\ \A r \in 0..(n - 1) : OrderSlot(o, r) \in 0..(n - 1)
    BY <1>2, <2>1, LiveAre
  <2>3. k \in 0..EmptyKey /\ k \in Nat /\ n \in Nat
    BY <2>1, DrawFacts, LaneFacts, KeysFacts
  <2>4. PICK m \in 0..n : /\ LowerBoundPermScalar(keys, k, o) = m
                          /\ \A r \in 0..(n - 1) : keys[OrderSlot(o, r)] < k <=> r < m
    BY <2>2, <2>3, ProbesMeet
  <2>5. LowerBoundPermDispatch(cpu, keys, k, o) = m
    BY <2>2, <2>3, <2>4, DispatchAgrees
  <2>6. Finds(cpu, a, k) <=> m < n /\ keys[OrderSlot(o, m)] = k
    BY <1>2, <2>1, <2>2, <2>5 DEF Finds
  <2>7. k \in LiveKeys(a) <=> \E r \in 0..(n - 1) : keys[OrderSlot(o, r)] = k
    BY <2>1, <2>2 DEF LiveKeys
  <2>8. \A r \in 0..(n - 1) : keys[OrderSlot(o, r)] \in Nat
    BY <2>2, DrawFacts, LaneFacts
  <2>9. \A q, r \in 0..(n - 1) : q < r => keys[OrderSlot(o, q)] <= keys[OrderSlot(o, r)]
    <3>1. PICK f : /\ Ordered(keys, o, f, n)
                   /\ \A r \in 0..(n - 1) : OrderSlot(o, r) = f[r]
      BY <2>2, OrdersFacts
    <3> QED
      BY <3>1 DEF Ordered, Ascends
  <2>10. ASSUME NEW r \in 0..(n - 1), keys[OrderSlot(o, r)] = k
         PROVE  m < n /\ keys[OrderSlot(o, m)] = k
    <3>1. ~(r < m)
      BY <2>3, <2>4, <2>10
    <3>2. m \in 0..(n - 1) /\ m < n /\ (m < r \/ m = r) /\ ~(m < m)
      BY <2>3, <3>1
    <3>3. ~(keys[OrderSlot(o, m)] < k) /\ keys[OrderSlot(o, m)] \in Nat
      BY <2>4, <2>8, <3>2
    <3>4. keys[OrderSlot(o, m)] <= k
      BY <2>9, <2>10, <3>2, <3>3
    <3>5. keys[OrderSlot(o, m)] = k
      BY <2>3, <3>3, <3>4
    <3> QED
      BY <3>2, <3>5
  <2>11. m < n => m \in 0..(n - 1)
    BY <2>3
  <2> QED
    BY <2>6, <2>7, <2>10, <2>11
<1> QED
  BY <1>1, <1>2

-----------------------------------------------------------------------------
(* The workload.                                                           *)

LEMMA WorkInit == InitWorkload => WorkInv
BY DEF InitWorkload, WorkInv

LEMMA WorkStep == WorkInv /\ [NextWorkload]_workVars => WorkInv'
<1> SUFFICES ASSUME WorkInv, [NextWorkload]_workVars PROVE WorkInv'
  OBVIOUS
<1>1. shape \in {"sorted", "append"} /\ nodes \in Seq(Made)
  BY DEF WorkInv
<1>2. \A i \in DOMAIN nodes : nodes[i] \in Made
  BY <1>1
<1>3. ASSUME nodes' = nodes, shape' = shape
      PROVE  nodes' \in Seq(Made') /\ \A k : PresentAnywhere(k)' = PresentAnywhere(k)
  BY <1>1, <1>3 DEF Made, PresentAnywhere, LiveKeys, LiveSlots
<1>4. CASE MakeNode
  <2>1. shape' = shape /\ probe' = probe /\ probe = NoProbe
    BY <1>4 DEF MakeNode
  <2>2. PICK a \in Made : nodes' = Append(nodes, a)
    <3>1. PICK sorted \in SortedNodes :
            \/ shape = "sorted" /\ nodes' = Append(nodes, [keys |-> sorted, order |-> 0])
            \/ shape = "append" /\ \E slots \in Bijection(0..(NodeCapacity - 1), 0..(NodeCapacity - 1)) :
                                     nodes' = Append(nodes, AppendNode(sorted, slots))
      BY <1>4 DEF MakeNode
    <3>2. CASE shape = "sorted"
      <4>1. nodes' = Append(nodes, [keys |-> sorted, order |-> 0])
        BY <3>1, <3>2
      <4>2. [keys |-> sorted, order |-> 0] \in Made
        BY <3>2 DEF Made
      <4> QED
        BY <4>1, <4>2
    <3>3. CASE shape # "sorted"
      <4>1. PICK slots \in Bijection(0..(NodeCapacity - 1), 0..(NodeCapacity - 1)) :
              nodes' = Append(nodes, AppendNode(sorted, slots))
        BY <3>1, <3>3
      <4>2. AppendNode(sorted, slots) \in Made
        BY <3>3 DEF Made
      <4> QED
        BY <4>1, <4>2
    <3> QED
      BY <3>2, <3>3
  <2>3. nodes' \in Seq(Made)
    BY <1>1, <2>2
  <2>4. Made' = Made
    BY <2>1 DEF Made
  <2>5. ~(probe' # NoProbe)
    BY <2>1
  <2>6. shape' \in {"sorted", "append"} /\ nodes' \in Seq(Made')
    BY <1>1, <2>1, <2>3, <2>4
  <2> QED
    BY <2>5, <2>6 DEF WorkInv, NoProbe
<1>5. CASE DrawHit
  <2>1. nodes' = nodes /\ shape' = shape
    BY <1>5 DEF DrawHit
  <2>2. PICK i \in DOMAIN nodes : \E k \in LiveKeys(nodes[i]) : probe' = [key |-> k, hit |-> TRUE]
    BY <1>5 DEF DrawHit
  <2>3. PICK k \in LiveKeys(nodes[i]) : probe' = [key |-> k, hit |-> TRUE]
    BY <2>2
  <2>4. k \in Draws
    BY <1>2, LiveDrawn
  <2>5. PresentAnywhere(k)
    BY DEF PresentAnywhere
  <2>6. probe'.key = k /\ probe'.hit = TRUE
    BY <2>3
  <2>7. PresentAnywhere(k)'
    BY <1>3, <2>1, <2>5
  <2>8. PresentAnywhere(probe.key)'
    BY <2>6, <2>7 DEF PresentAnywhere
  <2>9. (probe.hit = PresentAnywhere(probe.key))'
    BY <2>6, <2>8
  <2>10. shape' \in {"sorted", "append"} /\ nodes' \in Seq(Made')
    BY <1>1, <1>3, <2>1
  <2> QED
    BY <2>4, <2>6, <2>9, <2>10 DEF WorkInv
<1>6. CASE DrawMiss
  <2>1. nodes' = nodes /\ shape' = shape
    BY <1>6 DEF DrawMiss
  <2>2. PICK k \in Draws : ~PresentAnywhere(k) /\ probe' = [key |-> k, hit |-> FALSE]
    BY <1>6 DEF DrawMiss
  <2>3. probe'.key = k /\ probe'.hit = FALSE
    BY <2>2
  <2>4. ~PresentAnywhere(k)'
    BY <1>3, <2>1, <2>2
  <2>5. ~PresentAnywhere(probe.key)'
    BY <2>3, <2>4 DEF PresentAnywhere
  <2>6. (probe.hit = PresentAnywhere(probe.key))'
    BY <2>3, <2>5 DEF PresentAnywhere
  <2>7. shape' \in {"sorted", "append"} /\ nodes' \in Seq(Made')
    BY <1>1, <1>3, <2>1
  <2> QED
    BY <2>2, <2>3, <2>6, <2>7 DEF WorkInv
<1>7. CASE UNCHANGED workVars
  <2>1. nodes' = nodes /\ shape' = shape /\ probe' = probe
    BY <1>7 DEF workVars
  <2>2. shape' \in {"sorted", "append"} /\ nodes' \in Seq(Made')
    BY <1>1, <1>3, <2>1
  <2>3. PICK k : k = probe.key
    OBVIOUS
  <2>4. probe'.key = k /\ probe'.hit = probe.hit
    BY <2>1, <2>3
  <2>5. ASSUME probe' # NoProbe
        PROVE  probe'.key \in Draws /\ probe'.hit \in BOOLEAN /\ (probe.hit = PresentAnywhere(probe.key))'
    <3>1. k \in Draws /\ probe.hit \in BOOLEAN /\ probe.hit = PresentAnywhere(k)
      BY <2>1, <2>3, <2>5 DEF WorkInv
    <3>2. PresentAnywhere(k)' = PresentAnywhere(k)
      BY <1>3, <2>1
    <3>3. probe'.hit = PresentAnywhere(k)'
      BY <2>4, <3>1, <3>2
    <3>4. (probe.hit = PresentAnywhere(probe.key))'
      BY <2>4, <3>3 DEF PresentAnywhere
    <3> QED
      BY <2>4, <3>1, <3>4
  <2>6. NoProbe' = NoProbe
    BY DEF NoProbe
  <2> QED
    BY <2>2, <2>5, <2>6 DEF WorkInv
<1> QED
  BY <1>4, <1>5, <1>6, <1>7 DEF NextWorkload

\* Every node is one the generators make, and a probe hits just when it is drawn to.
THEOREM WorkInvHolds == SpecWorkload => []WorkInv
BY WorkInit, WorkStep, PTL DEF SpecWorkload

\* A node made by hand is one that the structure's own appends, in the order of its
\* slots, arrive at.
THEOREM NodesAreReal == SpecWorkload => []BuiltAsAppended
<1>1. WorkInv => BuiltAsAppended
  <2> SUFFICES ASSUME WorkInv, shape = "append"
               PROVE  \A i \in DOMAIN nodes : /\ nodes[i].order = AppendedWord(nodes[i].keys)
                                              /\ nodes[i].keys[PadSlot] = EmptyKey
    BY DEF BuiltAsAppended, AppendedWord
  <2> SUFFICES ASSUME NEW i \in DOMAIN nodes
               PROVE  /\ nodes[i].order = AppendedWord(nodes[i].keys)
                      /\ nodes[i].keys[PadSlot] = EmptyKey
    OBVIOUS
  <2>1. PICK a, keys : a = nodes[i] /\ keys = a.keys
    OBVIOUS
  <2>2. a \in Made
    BY <2>1 DEF WorkInv
  <2>3. PICK sorted \in SortedNodes,
             slots \in Bijection(0..(NodeCapacity - 1), 0..(NodeCapacity - 1)) :
          a = AppendNode(sorted, slots)
    BY <2>2, MadeIs
  <2>4. a.order = AppendedWord(keys) /\ keys[PadSlot] = EmptyKey
    BY <2>1, <2>3, HandBuiltAsAppended
  <2> QED
    BY <2>1, <2>4
<1> QED
  BY <1>1, WorkInvHolds, PTL

\* A probe meant to hit is found in a node, one meant to miss in none, by the kernels
\* of any CPU; and no probe is the sentinel.
THEOREM ProbesAsAsked == SpecWorkload => []ProbesAreHonest
<1>1. WorkInv => ProbesAreHonest
  <2> SUFFICES ASSUME WorkInv, probe # NoProbe
               PROVE  /\ probe.key # EmptyKey
                      /\ \A cpu \in Cpu : probe.hit = \E i \in DOMAIN nodes : Finds(cpu, nodes[i], probe.key)
    BY DEF ProbesAreHonest
  <2>1. probe.key \in Draws /\ probe.hit \in BOOLEAN /\ probe.hit = PresentAnywhere(probe.key)
    BY DEF WorkInv
  <2>2. PICK k : k = probe.key
    OBVIOUS
  <2>3. \A i \in DOMAIN nodes : nodes[i] \in Made
    BY DEF WorkInv
  <2>4. ASSUME NEW cpu \in Cpu
        PROVE  probe.hit = \E i \in DOMAIN nodes : Finds(cpu, nodes[i], probe.key)
    <3>1. \A i \in DOMAIN nodes : Finds(cpu, nodes[i], k) <=> k \in LiveKeys(nodes[i])
      BY <2>1, <2>2, <2>3, FoundWhenLive
    <3>2. (\E i \in DOMAIN nodes : Finds(cpu, nodes[i], k)) <=> PresentAnywhere(k)
      BY <3>1 DEF PresentAnywhere
    <3> QED
      BY <2>1, <2>2, <3>2
  <2> QED
    BY <2>1, <2>4, DrawFacts
<1> QED
  BY <1>1, WorkInvHolds, PTL

=============================================================================
