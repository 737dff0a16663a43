---------------------------- MODULE LanesProofs -----------------------------
(***************************************************************************)
(* For every capacity and whatever order_bytes may be: a node of NodeLanes *)
(* stays sorted through appends and splits, and sorted_position is exact   *)
(* whatever its lanes hold.  Under a comparator that follows the bytes the *)
(* lanes are in order, and what a kernel finds in them is confirmed.       *)
(***************************************************************************)
EXTENDS NodeLanes, FiniteSetTheorems, SequenceTheorems, WellFoundedInduction, TLAPS

-----------------------------------------------------------------------------
(* The inductive invariants of one node.  NodeSound, behind PositionExact, *)
(* asks next to nothing of the lanes and nothing of the bytes: they only   *)
(* propose.  LanesSound, behind LanesCheckOut and CandidateConfirms, is    *)
(* about what they propose under a comparator that follows the bytes.      *)

\* The order word names every slot once, and the keys it names ascend.
Ranked ==
  /\ order \in Seq(1..Len(keys)) /\ Len(order) = Len(keys)
  /\ \A s \in 1..Len(keys) : \E r \in 1..Len(keys) : order[r] = s
  /\ \A q, r \in 1..Len(keys) : order[q] = order[r] => q = r
  /\ \A q, r \in 1..Len(keys) : q < r => KeyAt(q) <= KeyAt(r)

\* A lane is a surrogate at the prefix, or saturated.
LaneValues == {SurrogateAt(bytes[k], prefix) : k \in Key} \union {0, EmptyKey}

NodeSound ==
  /\ keys \in Seq(Key) /\ Len(keys) <= Capacity
  /\ lanes \in Seq(LaneValues) /\ Len(lanes) = Len(keys)
  /\ Ranked

\* a and b begin with the same n bytes.
Agree(a, b, n) == n <= Len(a) /\ n <= Len(b) /\ \A i \in 1..n : a[i] = b[i]

\* k has the prefix, which is that of the lowest key.
Shares(k) == prefix = 0 \/ Agree(bytes[KeyAt(1)], bytes[k], prefix)

\* A node but for a head that has split: the prefix is one of its lowest key, and
\* a key that has not got it is above all others.
LanesFollow ==
  /\ prefix > 0 => prefix <= Len(bytes[KeyAt(1)])
  /\ \A s \in 1..Count :
       lanes[s] = IF Shares(keys[s]) THEN SurrogateAt(bytes[keys[s]], prefix) ELSE EmptyKey

\* fill has built the node from half of a full one.
Filled == ~(head /\ high = Top)

LanesSound ==
  /\ NodeSound
  /\ bytes \in [Key -> Seq(Byte)] /\ prefix \in Nat
  /\ Filled => Count >= 2
  /\ Bytewise \/ Reversed => PrefixNotShort
  /\ Bytewise /\ (head => prefix = 0) => LanesFollow


-----------------------------------------------------------------------------
(* Numbers.                                                                *)

Less == {ss \in Nat \X Nat : ss[1] < ss[2]}

LEMMA LessIsWellFounded == IsWellFoundedOn(Less, Nat)
BY NatLessThanWellFounded DEF OpToRel, Less

LEMMA LeastExists ==
  ASSUME NEW S \in SUBSET Nat, S # {}
  PROVE  Min(S) \in S /\ \A y \in S : Min(S) <= y
<1>1. PICK x \in S : \A y \in S : ~(<<y, x>> \in Less)
  BY LessIsWellFounded, WFMin
<1>2. ASSUME NEW y \in S PROVE x <= y
  <2>1. x \in Nat /\ y \in Nat /\ ~(y < x)
    BY <1>1 DEF Less
  <2> QED
    BY <2>1
<1> QED
  BY <1>2 DEF Min

\* Induction, over a set in place of a predicate.
LEMMA NatSteps ==
  ASSUME NEW S \in SUBSET Nat, 0 \in S, \A i \in S : i + 1 \in S
  PROVE  S = Nat
<1> DEFINE B == Nat \ S
<1> SUFFICES ASSUME B # {} PROVE FALSE
  OBVIOUS
<1>1. PICK x : x = Min(B)
  OBVIOUS
<1>2. x \in B /\ \A y \in B : x <= y
  BY <1>1, LeastExists
<1>3. x \in Nat /\ x # 0 /\ x \notin S
  BY <1>2
<1>4. x - 1 \in Nat /\ ~(x <= x - 1) /\ x - 1 + 1 = x
  BY <1>3
<1>5. x - 1 \in S
  BY <1>2, <1>4
<1> QED
  BY <1>3, <1>4, <1>5

LEMMA Sizes == Capacity \in Nat /\ Capacity >= 2 /\ Key \subseteq Nat /\ Mid \in 1..Capacity
BY LanesAssumption DEF Mid

-----------------------------------------------------------------------------
(* Places in a node.                                                       *)

LEMMA NodeFacts ==
  ASSUME NodeSound
  PROVE  /\ Count \in 0..Capacity /\ Count = Len(keys)
         /\ DOMAIN order = 1..Count /\ DOMAIN keys = 1..Count /\ DOMAIN lanes = 1..Count
         /\ \A r \in 1..Count : order[r] \in 1..Count /\ KeyAt(r) \in Key /\ KeyAt(r) \in Nat
<1>1. /\ Count \in 0..Capacity /\ Count = Len(keys)
      /\ DOMAIN order = 1..Count /\ DOMAIN keys = 1..Count /\ DOMAIN lanes = 1..Count
  BY Sizes DEF NodeSound, Ranked, Count
<1>2. \A r \in 1..Count : order[r] \in 1..Count
  BY <1>1 DEF NodeSound, Ranked
<1>3. \A r \in 1..Count : KeyAt(r) \in Key
  BY <1>1, <1>2 DEF NodeSound, KeyAt
<1> QED
  BY <1>1, <1>2, <1>3, Sizes

\* The keys below k are those of the first p ranks.
Place(k, p) ==
  /\ p \in 0..Count
  /\ \A r \in 1..Count : KeyAt(r) < k <=> r <= p

LEMMA OnePlace ==
  ASSUME NEW k, NEW p, NEW q, Count \in Nat, Place(k, p), Place(k, q)
  PROVE  p = q
<1>1. p \in Nat /\ q \in Nat /\ p <= Count /\ q <= Count
  BY DEF Place
<1>2. ASSUME p < q PROVE FALSE
  <2>1. q \in 1..Count
    BY <1>1, <1>2
  <2> QED
    BY <1>1, <1>2, <2>1 DEF Place
<1>3. ASSUME q < p PROVE FALSE
  <2>1. p \in 1..Count
    BY <1>1, <1>3
  <2> QED
    BY <1>1, <1>3, <2>1 DEF Place
<1> QED
  BY <1>1, <1>2, <1>3

\* The comparator's word on both sides of p settles it.
LEMMA ConfirmedIsPlace ==
  ASSUME NodeSound, NEW k \in Key, NEW p \in 0..Count, Confirmed(p, k)
  PROVE  Place(k, p)
<1>1. /\ Count \in Nat /\ k \in Nat /\ p \in Nat
      /\ \A r \in 1..Count : KeyAt(r) \in Nat
      /\ \A q, r \in 1..Count : q < r => KeyAt(q) <= KeyAt(r)
  BY NodeFacts, Sizes DEF NodeSound, Ranked
<1>2. ASSUME NEW r \in 1..Count, r <= p PROVE KeyAt(r) < k
  <2>1. p \in 1..Count /\ KeyAt(p) < k
    BY <1>1, <1>2 DEF Confirmed
  <2> QED
    BY <1>1, <1>2, <2>1
<1>3. ASSUME NEW r \in 1..Count, r > p PROVE ~(KeyAt(r) < k)
  <2>1. p + 1 \in 1..Count /\ KeyAt(p + 1) >= k
    BY <1>1, <1>3 DEF Confirmed
  <2>2. p + 1 = r \/ p + 1 < r
    BY <1>1, <1>3
  <2> QED
    BY <1>1, <2>1, <2>2
<1> QED
  BY <1>1, <1>2, <1>3 DEF Place

\* Every key has its place.
LEMMA PlaceExists ==
  ASSUME NodeSound, NEW k \in Key
  PROVE  \E p : Place(k, p)
<1>1. /\ Count \in Nat /\ k \in Nat
      /\ \A r \in 1..Count : KeyAt(r) \in Nat
      /\ \A q, r \in 1..Count : q < r => KeyAt(q) <= KeyAt(r)
  BY NodeFacts, Sizes DEF NodeSound, Ranked
<1> DEFINE S == {m \in Nat : m <= Count =>
                   \E p \in 0..m : \A r \in 1..m : KeyAt(r) < k <=> r <= p}
<1>2. 0 \in S
  OBVIOUS
<1>3. ASSUME NEW m \in S PROVE m + 1 \in S
  <2> SUFFICES ASSUME m + 1 <= Count
               PROVE  \E p \in 0..(m + 1) : \A r \in 1..(m + 1) : KeyAt(r) < k <=> r <= p
    OBVIOUS
  <2>1. m \in Nat /\ m + 1 \in 1..Count
    BY <1>1
  <2>2. PICK p \in 0..m : \A r \in 1..m : KeyAt(r) < k <=> r <= p
    BY <1>1, <2>1
  <2>3. CASE KeyAt(m + 1) < k
    <3>1. ASSUME NEW r \in 1..(m + 1) PROVE KeyAt(r) < k
      <4>1. r \in 1..Count /\ (r = m + 1 \/ r < m + 1)
        BY <1>1, <2>1
      <4> QED
        BY <1>1, <2>1, <2>3, <4>1
    <3> QED
      BY <2>1, <3>1
  <2>4. CASE ~(KeyAt(m + 1) < k)
    <3>1. \A r \in 1..(m + 1) : KeyAt(r) < k <=> r <= p
      BY <2>1, <2>2, <2>4
    <3> QED
      BY <2>1, <3>1
  <2> QED
    BY <2>3, <2>4
<1> HIDE DEF S
<1>4. S = Nat
  BY <1>2, <1>3, NatSteps DEF S
<1> QED
  BY <1>1, <1>4 DEF S, Place

\* A set of the slots of the first p ranks has p members.
LEMMA SlotsUpTo ==
  ASSUME NodeSound, NEW S, S \subseteq 1..Count, NEW p \in 0..Count,
         \A r \in 1..Count : order[r] \in S <=> r <= p
  PROVE  Cardinality(S) = p
<1>1. PICK f : f = [r \in 1..p |-> order[r]]
  OBVIOUS
<1>2. p \in 0..Count /\ Count \in Nat /\ Count = Len(keys) /\ \A r \in 1..Count : order[r] \in 1..Count
  BY NodeFacts
<1>3. ASSUME NEW r \in 1..p PROVE f[r] \in S
  BY <1>1, <1>2
<1>4. ASSUME NEW s \in S PROVE \E r \in 1..p : f[r] = s
  <2>1. PICK r \in 1..Count : order[r] = s
    BY <1>2 DEF NodeSound, Ranked
  <2> QED
    BY <1>1, <1>2, <2>1
<1>5. \A q, r \in 1..p : f[q] = f[r] => q = r
  <2>1. \A q, r \in 1..Count : order[q] = order[r] => q = r
    BY <1>2 DEF NodeSound, Ranked
  <2>2. \A r \in 1..p : r \in 1..Count /\ f[r] = order[r]
    BY <1>1, <1>2
  <2> QED
    BY <2>1, <2>2
<1>6. f \in [1..p -> S]
  BY <1>1, <1>3
<1>7. f \in Bijection(1..p, S)
  BY <1>4, <1>5, <1>6 DEF Bijection, Surjection, Injection, IsInjective
<1>8. IsFiniteSet(1..p) /\ Cardinality(1..p) = p
  <2>1. 1 \in Int /\ p \in Int /\ p >= 0
    BY <1>2
  <2> QED
    BY <2>1, FS_Interval
<1>9. ExistsBijection(1..p, S)
  BY <1>7 DEF ExistsBijection
<1> QED
  BY <1>8, <1>9, FS_Bijection

\* It is the number of smaller keys, counted by slot.
LEMMA PlaceCounts ==
  ASSUME NodeSound, NEW k \in Key, NEW p, Place(k, p)
  PROVE  p = Cardinality({s \in DOMAIN keys : keys[s] < k})
<1>1. PICK below : below = {s \in DOMAIN keys : keys[s] < k}
  OBVIOUS
<1>2. p \in 0..Count /\ DOMAIN keys = 1..Count /\ \A r \in 1..Count : order[r] \in 1..Count
  BY NodeFacts DEF Place
<1>3. \A r \in 1..Count : order[r] \in below <=> r <= p
  BY <1>1, <1>2 DEF Place, KeyAt
<1> QED
  BY <1>1, <1>2, <1>3, SlotsUpTo

-----------------------------------------------------------------------------
(* The binary search.                                                      *)

\* f is the recursive function of BinarySearch.
ProbeIs(k, f) ==
  f = [range \in (0..Count) \X (0..Count) |->
        LET lo == range[1]
            hi == range[2]
            mid == lo + ((hi - lo) \div 2)
        IN  IF lo >= hi THEN lo
            ELSE IF KeyAt(mid + 1) < k THEN f[<<mid + 1, hi>>]
            ELSE f[<<lo, mid>>]]

Middle(lo, hi) == lo + ((hi - lo) \div 2)

LEMMA MiddleFacts ==
  ASSUME NEW n \in Nat, NEW lo \in 0..n, NEW hi \in 0..n, lo < hi
  PROVE  /\ Middle(lo, hi) \in Nat /\ lo <= Middle(lo, hi) /\ Middle(lo, hi) < hi
         /\ Middle(lo, hi) + 1 \in 1..n
BY DEF Middle

LEMMA ProbeExists ==
  ASSUME Count \in Nat, NEW k, NEW p, Place(k, p)
  PROVE  \E f : ProbeIs(k, f)
<1> DEFINE Answer(lo, hi) == IF lo >= hi \/ p <= lo THEN lo ELSE IF p >= hi THEN hi ELSE p
<1>1. PICK n, f : n = Count /\ f = [range \in (0..n) \X (0..n) |-> Answer(range[1], range[2])]
  OBVIOUS
<1>2. n \in Nat /\ p \in 0..n /\ \A r \in 1..n : KeyAt(r) < k <=> r <= p
  BY <1>1 DEF Place
<1>3. ASSUME NEW lo \in 0..n, NEW hi \in 0..n, ~(lo >= hi)
      PROVE  Answer(lo, hi) = IF KeyAt(Middle(lo, hi) + 1) < k THEN f[<<Middle(lo, hi) + 1, hi>>]
                              ELSE f[<<lo, Middle(lo, hi)>>]
  <2>1. PICK m : m = Middle(lo, hi)
    OBVIOUS
  <2>2. m \in Nat /\ lo <= m /\ m < hi /\ m + 1 \in 1..n /\ m \in 0..n /\ m + 1 \in 0..n
    BY <1>2, <1>3, <2>1, MiddleFacts
  <2>3. f[<<m + 1, hi>>] = Answer(m + 1, hi) /\ f[<<lo, m>>] = Answer(lo, m)
    BY <1>1, <2>2
  <2>4. KeyAt(m + 1) < k <=> m + 1 <= p
    BY <1>2, <2>2
  <2>5. m + 1 <= p => Answer(lo, hi) = Answer(m + 1, hi)
    BY <1>2, <2>2
  <2>6. ~(m + 1 <= p) => Answer(lo, hi) = Answer(lo, m)
    BY <1>2, <2>2
  <2> HIDE DEF Answer
  <2> QED
    BY <2>1, <2>3, <2>4, <2>5, <2>6
<1>4. ASSUME NEW lo \in 0..n, NEW hi \in 0..n, lo >= hi
      PROVE  Answer(lo, hi) = lo
  BY <1>4
<1> HIDE DEF Answer
<1>5. \A range \in (0..n) \X (0..n) :
        Answer(range[1], range[2]) =
          IF range[1] >= range[2] THEN range[1]
          ELSE IF KeyAt(Middle(range[1], range[2]) + 1) < k
               THEN f[<<Middle(range[1], range[2]) + 1, range[2]>>]
               ELSE f[<<range[1], Middle(range[1], range[2])>>]
  BY <1>3, <1>4
<1>6. f = [range \in (0..n) \X (0..n) |->
             IF range[1] >= range[2] THEN range[1]
             ELSE IF KeyAt(Middle(range[1], range[2]) + 1) < k
                  THEN f[<<Middle(range[1], range[2]) + 1, range[2]>>]
                  ELSE f[<<range[1], Middle(range[1], range[2])>>]]
  BY <1>1, <1>5, Zenon
<1>7. ProbeIs(k, f)
  BY <1>1, <1>6 DEF ProbeIs, Middle
<1> QED
  BY <1>7

LEMMA ProbeFinds ==
  ASSUME Count \in Nat, NEW k, NEW p, Place(k, p), NEW f, ProbeIs(k, f)
  PROVE  f[<<0, Count>>] = p
<1>1. PICK n : n = Count
  OBVIOUS
<1>2. n \in Nat /\ p \in 0..n /\ \A r \in 1..n : KeyAt(r) < k <=> r <= p
  BY <1>1 DEF Place
<1>3. ASSUME NEW lo \in 0..n, NEW hi \in 0..n
      PROVE  f[<<lo, hi>>] = IF lo >= hi THEN lo
                             ELSE IF KeyAt(Middle(lo, hi) + 1) < k THEN f[<<Middle(lo, hi) + 1, hi>>]
                             ELSE f[<<lo, Middle(lo, hi)>>]
  BY <1>1 DEF ProbeIs, Middle
<1> DEFINE S == {d \in Nat : \A lo, hi \in 0..n : hi - lo <= d /\ lo <= p /\ p <= hi => f[<<lo, hi>>] = p}
<1>4. 0 \in S
  <2> SUFFICES ASSUME NEW lo \in 0..n, NEW hi \in 0..n, hi - lo <= 0, lo <= p, p <= hi
               PROVE  f[<<lo, hi>>] = p
    OBVIOUS
  <2>1. lo >= hi /\ lo = p
    BY <1>2
  <2> QED
    BY <1>3, <2>1
<1>5. ASSUME NEW d \in S PROVE d + 1 \in S
  <2> SUFFICES ASSUME NEW lo \in 0..n, NEW hi \in 0..n, hi - lo <= d + 1, lo <= p, p <= hi
               PROVE  f[<<lo, hi>>] = p
    OBVIOUS
  <2>1. CASE lo >= hi
    <3>1. lo = p
      BY <1>2, <2>1
    <3> QED
      BY <1>3, <2>1, <3>1
  <2>2. CASE ~(lo >= hi)
    <3>1. PICK m : m = Middle(lo, hi)
      OBVIOUS
    <3>2. m \in Nat /\ lo <= m /\ m < hi /\ m + 1 \in 1..n /\ m \in 0..n /\ m + 1 \in 0..n
      BY <1>2, <2>2, <3>1, MiddleFacts
    <3>3. KeyAt(m + 1) < k <=> m + 1 <= p
      BY <1>2, <3>2
    <3>4. f[<<lo, hi>>] = IF m + 1 <= p THEN f[<<m + 1, hi>>] ELSE f[<<lo, m>>]
      BY <1>3, <2>2, <3>1, <3>3
    <3>5. m + 1 <= p => f[<<m + 1, hi>>] = p
      <4> SUFFICES ASSUME m + 1 <= p PROVE f[<<m + 1, hi>>] = p
        OBVIOUS
      <4>1. hi - (m + 1) <= d
        BY <1>2, <3>2
      <4> QED
        BY <3>2, <4>1
    <3>6. ~(m + 1 <= p) => f[<<lo, m>>] = p
      <4> SUFFICES ASSUME ~(m + 1 <= p) PROVE f[<<lo, m>>] = p
        OBVIOUS
      <4>1. m - lo <= d /\ p <= m
        BY <1>2, <3>2
      <4> QED
        BY <3>2, <4>1
    <3> QED
      BY <3>4, <3>5, <3>6
  <2> QED
    BY <2>1, <2>2
<1> HIDE DEF S
<1>6. S = Nat
  BY <1>4, <1>5, NatSteps DEF S
<1>7. n \in S /\ 0 \in 0..n /\ n \in 0..n /\ n - 0 <= n /\ 0 <= p /\ p <= n
  BY <1>2, <1>6
<1> QED
  BY <1>1, <1>7 DEF S

\* The binary search needs no lane.
LEMMA SearchFinds ==
  ASSUME Count \in Nat, NEW k, NEW p, Place(k, p)
  PROVE  BinarySearch(k) = p
<1>1. PICK h : ProbeIs(k, h)
  BY ProbeExists
<1>2. PICK f : f = CHOOSE probe : probe = [range \in (0..Count) \X (0..Count) |->
                      LET lo == range[1]
                          hi == range[2]
                          mid == lo + ((hi - lo) \div 2)
                      IN  IF lo >= hi THEN lo
                          ELSE IF KeyAt(mid + 1) < k THEN probe[<<mid + 1, hi>>]
                          ELSE probe[<<lo, mid>>]]
  OBVIOUS
<1>3. ProbeIs(k, f)
  BY <1>1, <1>2 DEF ProbeIs
<1>4. f[<<0, Count>>] = p
  BY <1>3, ProbeFinds
<1> QED
  BY <1>2, <1>4 DEF BinarySearch

-----------------------------------------------------------------------------
(* What is looked up is confirmed or searched for.                         *)

\* Any kernel proposes a place in the node, over any lanes.
LEMMA CandidatesInNode ==
  ASSUME NodeSound, NEW s, NEW c \in Candidates(s)
  PROVE  c \in 0..Count
<1>1. Count \in Nat /\ DOMAIN lanes = 1..Count
  BY NodeFacts
<1>2. CASE c = Min({r \in 0..Count : r = Count \/ LaneAt(r + 1) >= s})
  <2>1. PICK walk : walk = {r \in 0..Count : r = Count \/ LaneAt(r + 1) >= s}
    OBVIOUS
  <2>2. walk \in SUBSET Nat /\ walk # {} /\ walk \subseteq 0..Count
    BY <1>1, <2>1
  <2>3. Min(walk) \in walk
    BY <2>2, LeastExists
  <2> QED
    BY <1>2, <2>1, <2>2, <2>3
<1>3. CASE c = Cardinality({i \in DOMAIN lanes : lanes[i] < s})
  <2>1. PICK below : below = {i \in DOMAIN lanes : lanes[i] < s}
    OBVIOUS
  <2>2. IsFiniteSet(1..Count) /\ Cardinality(1..Count) = Count
    <3>1. 1 \in Int /\ Count \in Int /\ (1 > Count => Count = 0)
      BY <1>1
    <3>2. IsFiniteSet(1..Count) /\ Cardinality(1..Count) = IF 1 > Count THEN 0 ELSE Count - 1 + 1
      BY <3>1, FS_Interval
    <3> QED
      BY <1>1, <3>1, <3>2
  <2>3. below \in SUBSET (1..Count)
    BY <1>1, <2>1
  <2>4. IsFiniteSet(below) /\ Cardinality(below) <= Cardinality(1..Count)
    BY <2>2, <2>3, FS_Subset
  <2>5. Cardinality(below) \in Nat
    BY <2>4, FS_CardinalityType
  <2> QED
    BY <1>1, <1>3, <2>1, <2>2, <2>4, <2>5
<1> QED
  BY <1>2, <1>3 DEF Candidates

LEMMA TiesInNode ==
  ASSUME Count \in Nat, NEW p \in 0..Count, NEW s, NEW k
  PROVE  PastTies(p, s, k) \in 0..Count
<1>1. PICK ends : ends = {q \in p..Count : q = Count \/ LaneAt(q + 1) # s \/ KeyAt(q + 1) >= k}
  OBVIOUS
<1>2. ends \in SUBSET Nat /\ Count \in ends /\ ends \subseteq 0..Count
  BY <1>1
<1>3. Min(ends) \in ends
  BY <1>2, LeastExists
<1> QED
  BY <1>1, <1>2, <1>3 DEF PastTies

\* Whatever shares_prefix answers and the kernel proposes, the answer is the place.
LEMMA PositionFound ==
  ASSUME NodeSound, NEW k \in Key, NEW p, Place(k, p), NEW shares
  PROVE  SortedPositions(k, shares) = {p}
<1>1. Count \in Nat
  BY NodeFacts
<1>2. BinarySearch(k) = p
  BY <1>1, SearchFinds
<1>3. CASE ~shares
  BY <1>2, <1>3 DEF SortedPositions
<1>4. CASE shares
  <2>1. PICK s : s = SurrogateAt(bytes[k], prefix)
    OBVIOUS
  <2>2. SortedPositions(k, shares) =
          {IF Confirmed(PastTies(c, s, k), k) THEN PastTies(c, s, k) ELSE BinarySearch(k)
             : c \in Candidates(s)}
    BY <1>4, <2>1 DEF SortedPositions
  <2>3. ASSUME NEW c \in Candidates(s)
        PROVE  (IF Confirmed(PastTies(c, s, k), k) THEN PastTies(c, s, k) ELSE BinarySearch(k)) = p
    <3>1. PICK q : q = PastTies(c, s, k)
      OBVIOUS
    <3>2. q \in 0..Count
      BY <1>1, <3>1, CandidatesInNode, TiesInNode
    <3>3. Confirmed(q, k) => Place(k, q)
      BY <3>2, ConfirmedIsPlace
    <3>4. Confirmed(q, k) => q = p
      BY <1>1, <3>3, OnePlace
    <3> QED
      BY <1>2, <3>1, <3>4
  <2>4. \E c : c \in Candidates(s)
    BY DEF Candidates
  <2> QED
    BY <2>2, <2>3, <2>4
<1> QED
  BY <1>3, <1>4

\* What sorted_position returns, for the actions that use it.
LEMMA PositionOf ==
  ASSUME NodeSound, NEW k \in Key, NEW shares, NEW p \in SortedPositions(k, shares)
  PROVE  Place(k, p)
<1>1. PICK q : Place(k, q)
  BY PlaceExists
<1>2. SortedPositions(k, shares) = {q}
  BY <1>1, PositionFound
<1> QED
  BY <1>1, <1>2

LEMMA SoundIsExact == NodeSound => PositionExact
<1> SUFFICES ASSUME NodeSound, NEW k \in Key, NEW shares \in SharesPrefix(bytes[k])
             PROVE  SortedPositions(k, shares) = {Cardinality({s \in DOMAIN keys : keys[s] < k})}
  BY DEF PositionExact
<1>1. PICK p : Place(k, p)
  BY PlaceExists
<1> QED
  BY <1>1, PositionFound, PlaceCounts

-----------------------------------------------------------------------------
(* Sequences.                                                              *)

\* InsertAt(s, i, e) is s with e at place i and the rest moved up.
LEMMA InsertAtProperties ==
  ASSUME NEW S, NEW s \in Seq(S), NEW i \in 1..(Len(s) + 1), NEW e \in S
  PROVE  /\ InsertAt(s, i, e) \in Seq(S) /\ Len(InsertAt(s, i, e)) = Len(s) + 1
         /\ \A j \in 1..(i - 1) : InsertAt(s, i, e)[j] = s[j]
         /\ InsertAt(s, i, e)[i] = e
         /\ \A j \in i..Len(s) : InsertAt(s, i, e)[j + 1] = s[j]
<1> SUFFICES ASSUME NEW new, new = InsertAt(s, i, e)
             PROVE  /\ new \in Seq(S) /\ Len(new) = Len(s) + 1
                    /\ \A j \in 1..(i - 1) : new[j] = s[j]
                    /\ new[i] = e
                    /\ \A j \in i..Len(s) : new[j + 1] = s[j]
  OBVIOUS
<1> DEFINE left == SubSeq(s, 1, i - 1)
           mid == <<e>>
           right == SubSeq(s, i, Len(s))
<1>1. Len(s) \in Nat /\ \A j \in 1..Len(s) : s[j] \in S
  BY LenProperties
<1>2. /\ left \in Seq(S) /\ Len(left) = i - 1
      /\ \A j \in 1..(i - 1) : left[j] = s[j]
  BY <1>1, SubSeqProperties
<1>3. /\ right \in Seq(S) /\ Len(right) = Len(s) - i + 1
      /\ \A j \in 1..(Len(s) - i + 1) : right[j] = s[i + j - 1]
  BY <1>1, SubSeqProperties
<1>4. mid \in Seq(S) /\ Len(mid) = 1 /\ mid[1] = e
  OBVIOUS
<1>5. InsertAt(s, i, e) = (left \o mid) \o right
  BY DEF InsertAt
<1> HIDE DEF left, mid, right
<1> DEFINE start == left \o mid
<1>6. /\ start \in Seq(S) /\ Len(start) = Len(left) + Len(mid)
      /\ \A j \in 1..(Len(left) + Len(mid)) :
           start[j] = IF j <= Len(left) THEN left[j] ELSE mid[j - Len(left)]
  BY <1>2, <1>4, ConcatProperties, Zenon
<1> HIDE DEF start
<1>a. start \in Seq(S) /\ right \in Seq(S)
  BY <1>3, <1>6
<1>7. /\ start \o right \in Seq(S)
      /\ Len(start \o right) = Len(start) + Len(right)
      /\ \A j \in 1..(Len(start) + Len(right)) :
           (start \o right)[j] = IF j <= Len(start) THEN start[j] ELSE right[j - Len(start)]
  BY <1>a, ConcatProperties, Zenon
<1>8. Len(start) = i /\ \A j \in 1..i : start[j] = IF j < i THEN s[j] ELSE e
  <2>1. Len(start) = i
    BY <1>2, <1>4, <1>6
  <2>2. ASSUME NEW j \in 1..i PROVE start[j] = IF j < i THEN s[j] ELSE e
    <3>1. j \in 1..(Len(left) + Len(mid))
      BY <1>2, <1>4
    <3>2. CASE j < i
      BY <3>1, <3>2, <1>2, <1>6
    <3>3. CASE j = i
      <4>1. j - Len(left) = 1 /\ ~(j <= Len(left))
        BY <1>2, <3>3
      <4> QED
        BY <3>1, <3>3, <4>1, <1>4, <1>6
    <3> QED
      BY <3>2, <3>3
  <2> QED
    BY <2>1, <2>2
<1>9. InsertAt(s, i, e) = start \o right
  BY <1>5 DEF start
<1> DEFINE whole == start \o right
<1>10. /\ whole \in Seq(S) /\ Len(whole) = Len(start) + Len(right)
       /\ \A j \in 1..(Len(start) + Len(right)) :
            whole[j] = IF j <= Len(start) THEN start[j] ELSE right[j - Len(start)]
  BY <1>7
<1> HIDE DEF whole
<1>11. new = whole
  BY <1>9 DEF whole
<1>12. Len(whole) = Len(s) + 1
  BY <1>1, <1>3, <1>8, <1>10
<1>13. ASSUME NEW j \in 1..(Len(s) + 1)
       PROVE  whole[j] = IF j < i THEN s[j] ELSE IF j = i THEN e ELSE s[j - 1]
  <2>1. whole[j] = IF j <= i THEN start[j] ELSE right[j - i]
    BY <1>1, <1>3, <1>8, <1>10
  <2>2. CASE j <= i
    BY <2>1, <2>2, <1>8
  <2>3. CASE j > i
    <3>1. j - i \in 1..(Len(s) - i + 1) /\ i + (j - i) - 1 = j - 1
      BY <1>1, <2>3
    <3>2. right[j - i] = s[j - 1]
      BY <3>1, <1>3
    <3> QED
      BY <2>1, <2>3, <3>2
  <2> QED
    BY <2>2, <2>3
<1>14. \A j \in 1..(i - 1) : whole[j] = s[j]
  BY <1>1, <1>13
<1>15. whole[i] = e
  BY <1>1, <1>13
<1>16. \A j \in i..Len(s) : whole[j + 1] = s[j]
  <2>1. ASSUME NEW j \in i..Len(s) PROVE whole[j + 1] = s[j]
    <3>1. j + 1 \in 1..(Len(s) + 1) /\ ~(j + 1 < i) /\ j + 1 # i /\ (j + 1) - 1 = j
      BY <1>1
    <3> QED
      BY <3>1, <1>13
  <2> QED
    BY <2>1
<1> QED
  BY <1>10, <1>11, <1>12, <1>14, <1>15, <1>16

-----------------------------------------------------------------------------
(* The invariant is kept.                                                  *)

Ascends(run) == \A q, r \in 1..Len(run) : q < r => run[q] <= run[r]

\* merge yields a sorted run.
LEMMA MergedAscends ==
  ASSUME NodeSound, NEW k \in Key, NEW p, Place(k, p)
  PROVE  /\ Merged(k, p) \in Seq(Key) /\ Len(Merged(k, p)) = Count + 1
         /\ Ascends(Merged(k, p))
         /\ \A r \in 1..(Count + 1) :
              Merged(k, p)[r] = IF r <= p THEN KeyAt(r) ELSE IF r = p + 1 THEN k ELSE KeyAt(r - 1)
<1>1. PICK n, run, new : /\ n = Count /\ run = [r \in 1..n |-> KeyAt(r)]
                         /\ new = InsertAt(run, p + 1, k)
  OBVIOUS
<1>2. /\ n \in Nat /\ p \in 0..n /\ k \in Nat
      /\ \A r \in 1..n : KeyAt(r) \in Key /\ KeyAt(r) \in Nat
      /\ \A r \in 1..n : KeyAt(r) < k <=> r <= p
      /\ \A q, r \in 1..n : q < r => KeyAt(q) <= KeyAt(r)
  BY <1>1, NodeFacts, Sizes DEF Place, NodeSound, Ranked
<1>3. run \in Seq(Key) /\ Len(run) = n
  BY <1>1, <1>2
<1>4. PICK i : i = p + 1
  OBVIOUS
<1>a. i \in 1..(Len(run) + 1) /\ i - 1 = p
  BY <1>2, <1>3, <1>4
<1>b. /\ InsertAt(run, i, k) \in Seq(Key) /\ Len(InsertAt(run, i, k)) = Len(run) + 1
      /\ \A j \in 1..(i - 1) : InsertAt(run, i, k)[j] = run[j]
      /\ InsertAt(run, i, k)[i] = k
      /\ \A j \in i..Len(run) : InsertAt(run, i, k)[j + 1] = run[j]
  <2>1. PICK K, e : K = Key /\ e = k
    OBVIOUS
  <2>2. run \in Seq(K) /\ e \in K
    BY <1>3, <2>1
  <2>3. /\ InsertAt(run, i, e) \in Seq(K) /\ Len(InsertAt(run, i, e)) = Len(run) + 1
        /\ \A j \in 1..(i - 1) : InsertAt(run, i, e)[j] = run[j]
        /\ InsertAt(run, i, e)[i] = e
        /\ \A j \in i..Len(run) : InsertAt(run, i, e)[j + 1] = run[j]
    BY <1>a, <2>2, InsertAtProperties
  <2> QED
    BY <2>1, <2>3
<1>5. /\ new \in Seq(Key) /\ Len(new) = n + 1
      /\ \A j \in 1..p : new[j] = run[j]
      /\ new[p + 1] = k
      /\ \A j \in (p + 1)..n : new[j + 1] = run[j]
  BY <1>1, <1>3, <1>4, <1>a, <1>b
<1>6. ASSUME NEW r \in 1..(n + 1)
      PROVE  new[r] = IF r <= p THEN KeyAt(r) ELSE IF r = p + 1 THEN k ELSE KeyAt(r - 1)
  <2>1. CASE r <= p
    BY <1>1, <1>2, <1>5, <2>1
  <2>2. CASE r = p + 1
    BY <1>2, <1>5, <2>2
  <2>3. CASE r > p + 1
    <3>1. r - 1 \in (p + 1)..n /\ r - 1 + 1 = r /\ r - 1 \in 1..n /\ ~(r <= p) /\ r # p + 1
      BY <1>2, <2>3
    <3>2. new[r] = run[r - 1]
      BY <1>5, <3>1
    <3> QED
      BY <1>1, <3>1, <3>2
  <2> QED
    BY <1>2, <2>1, <2>2, <2>3
<1>7. ASSUME NEW q \in 1..(n + 1), NEW r \in 1..(n + 1), q < r PROVE new[q] <= new[r]
  <2>1. CASE r <= p
    <3>1. q \in 1..n /\ r \in 1..n /\ q <= p
      BY <1>2, <1>7, <2>1
    <3> QED
      BY <1>2, <1>6, <1>7, <2>1, <3>1
  <2>2. CASE r = p + 1
    <3>1. q \in 1..n /\ q <= p
      BY <1>2, <1>7, <2>2
    <3>2. new[q] = KeyAt(q) /\ new[r] = k /\ KeyAt(q) < k /\ KeyAt(q) \in Nat
      BY <1>2, <1>5, <1>6, <2>2, <3>1
    <3> QED
      BY <1>2, <3>2
  <2>3. CASE r > p + 1
    <3>1. r - 1 \in 1..n /\ ~(r - 1 <= p) /\ ~(r <= p) /\ r # p + 1
      BY <1>2, <2>3
    <3>2. new[r] = KeyAt(r - 1) /\ k <= KeyAt(r - 1) /\ KeyAt(r - 1) \in Nat
      <4>1. KeyAt(r - 1) \in Nat /\ ~(KeyAt(r - 1) < k)
        BY <1>2, <3>1
      <4> QED
        BY <1>2, <1>6, <3>1, <4>1
    <3>3. CASE q <= p
      <4>1. q \in 1..n /\ q < r - 1
        BY <1>2, <2>3, <3>3
      <4>2. KeyAt(q) <= KeyAt(r - 1)
        BY <1>2, <3>1, <4>1
      <4> QED
        BY <1>6, <3>2, <3>3, <4>2
    <3>4. CASE q = p + 1
      BY <1>5, <3>2, <3>4
    <3>5. CASE q > p + 1
      <4>1. q - 1 \in 1..n /\ q - 1 < r - 1 /\ ~(q <= p) /\ q # p + 1
        BY <1>2, <1>7, <3>5
      <4>2. KeyAt(q - 1) <= KeyAt(r - 1) /\ new[q] = KeyAt(q - 1)
        BY <1>2, <1>6, <3>1, <4>1
      <4> QED
        BY <3>2, <4>2
    <3> QED
      BY <1>2, <3>3, <3>4, <3>5
  <2> QED
    BY <1>2, <2>1, <2>2, <2>3
<1>8. new = Merged(k, p)
  BY <1>1 DEF Merged
<1> QED
  BY <1>1, <1>5, <1>6, <1>7, <1>8 DEF Ascends

LEMMA AppendKeeps ==
  ASSUME NodeSound, NEW k \in Key, AppendKey(k)
  PROVE  /\ NodeSound'
         /\ \E shares, p :
              /\ shares \in SharesPrefix(bytes[k]) /\ Place(k, p) /\ Count' = Count + 1
              /\ keys' = Append(keys, k) /\ lanes' = Append(lanes, LaneOf(k, p, shares))
              /\ \A r \in 1..(Count + 1) : KeyAt(r)' = Merged(k, p)[r]
<1>1. PICK shares, p :
        /\ shares \in SharesPrefix(bytes[k]) /\ p \in SortedPositions(k, shares)
        /\ keys' = Append(keys, k)
        /\ lanes' = Append(lanes, LaneOf(k, p, shares))
        /\ order' = InsertAt(order, p + 1, Count + 1)
  BY DEF AppendKey
<1>2. Place(k, p)
  BY <1>1, PositionOf
<1>3. PICK n, new : n = Count /\ new = Merged(k, p)
  OBVIOUS
<1>4. /\ n \in Nat /\ n + 1 <= Capacity /\ Len(keys) = n /\ Len(order) = n /\ Len(lanes) = n
      /\ p \in 0..n
      /\ keys \in Seq(Key) /\ lanes \in Seq(LaneValues) /\ order \in Seq(1..n)
      /\ \A s \in 1..n : \E r \in 1..n : order[r] = s
      /\ \A q, r \in 1..n : order[q] = order[r] => q = r
      /\ \A r \in 1..n : order[r] \in 1..n
  BY <1>2, <1>3, NodeFacts, Sizes DEF Place, NodeSound, Ranked, AppendKey, HasRoom
<1>5. /\ keys' \in Seq(Key) /\ Len(keys') = n + 1
      /\ \A s \in 1..n : keys'[s] = keys[s]
      /\ keys'[n + 1] = k
  BY <1>1, <1>4
<1>6. lanes' \in Seq(LaneValues') /\ Len(lanes') = n + 1
  <2>1. LaneOf(k, p, shares) \in LaneValues
    BY DEF LaneOf, LaneValues
  <2>2. LaneValues' = LaneValues
    BY DEF AppendKey, LaneValues
  <2> QED
    BY <1>1, <1>4, <2>1, <2>2
<1>7. /\ order' \in Seq(1..(n + 1)) /\ Len(order') = n + 1
      /\ \A j \in 1..p : order'[j] = order[j]
      /\ order'[p + 1] = n + 1
      /\ \A j \in (p + 1)..n : order'[j + 1] = order[j]
  <2>1. PICK i, e, S : i = p + 1 /\ e = n + 1 /\ S = 1..(n + 1)
    OBVIOUS
  <2>2. order \in Seq(S) /\ e \in S /\ i \in 1..(Len(order) + 1) /\ i - 1 = p
    BY <1>4, <2>1
  <2>3. /\ InsertAt(order, i, e) \in Seq(S) /\ Len(InsertAt(order, i, e)) = Len(order) + 1
        /\ \A j \in 1..(i - 1) : InsertAt(order, i, e)[j] = order[j]
        /\ InsertAt(order, i, e)[i] = e
        /\ \A j \in i..Len(order) : InsertAt(order, i, e)[j + 1] = order[j]
    BY <2>2, InsertAtProperties
  <2>4. order' = InsertAt(order, i, e)
    BY <1>1, <1>3, <2>1
  <2> QED
    BY <1>4, <2>1, <2>2, <2>3, <2>4
<1>8. ASSUME NEW r \in 1..(n + 1)
      PROVE  order'[r] = IF r <= p THEN order[r] ELSE IF r = p + 1 THEN n + 1 ELSE order[r - 1]
  <2>1. CASE r <= p
    BY <1>4, <1>7, <2>1
  <2>2. CASE r = p + 1
    BY <1>4, <1>7, <2>2
  <2>3. CASE r > p + 1
    <3>1. r - 1 \in (p + 1)..n /\ r - 1 + 1 = r /\ ~(r <= p) /\ r # p + 1
      BY <1>4, <2>3
    <3> QED
      BY <1>7, <3>1
  <2> QED
    BY <1>4, <2>1, <2>2, <2>3
<1>9. ASSUME NEW s \in 1..(n + 1) PROVE \E r \in 1..(n + 1) : order'[r] = s
  <2>1. CASE s = n + 1
    BY <1>4, <1>7, <2>1
  <2>2. CASE s \in 1..n
    <3>1. PICK r \in 1..n : order[r] = s
      BY <1>4, <2>2
    <3>2. CASE r <= p
      BY <1>4, <1>7, <3>1, <3>2
    <3>3. CASE r > p
      BY <1>4, <1>7, <3>1, <3>3
    <3> QED
      BY <1>4, <3>2, <3>3
  <2> QED
    BY <1>4, <2>1, <2>2
<1>10. ASSUME NEW q \in 1..(n + 1), NEW r \in 1..(n + 1), order'[q] = order'[r] PROVE q = r
  <2> DEFINE Was(i) == IF i <= p THEN i ELSE i - 1
  <2>1. \A i \in 1..(n + 1) : i # p + 1 => Was(i) \in 1..n /\ order'[i] = order[Was(i)] /\ order'[i] # n + 1
    <3>1. ASSUME NEW i \in 1..(n + 1), i # p + 1
          PROVE  Was(i) \in 1..n /\ order'[i] = order[Was(i)]
      BY <1>4, <1>8, <3>1
    <3>2. \A s \in 1..n : s # n + 1
      BY <1>4
    <3> HIDE DEF Was
    <3> QED
      BY <1>4, <3>1, <3>2
  <2>2. ASSUME NEW i \in 1..(n + 1), NEW j \in 1..(n + 1), i # p + 1, j # p + 1, Was(i) = Was(j)
        PROVE  i = j
    <3>1. i \in Nat /\ j \in Nat /\ p \in Nat
      BY <1>4
    <3>2. CASE i <= p
      <4>1. CASE j <= p
        BY <2>2, <3>2, <4>1
      <4>2. CASE ~(j <= p)
        BY <2>2, <3>1, <3>2, <4>2
      <4> QED
        BY <4>1, <4>2
    <3>3. CASE ~(i <= p)
      <4>1. CASE j <= p
        BY <2>2, <3>1, <3>3, <4>1
      <4>2. CASE ~(j <= p)
        BY <2>2, <3>1, <3>3, <4>2
      <4> QED
        BY <4>1, <4>2
    <3> QED
      BY <3>2, <3>3
  <2> HIDE DEF Was
  <2> QED
    BY <1>4, <1>7, <1>10, <2>1, <2>2
<1>11. ASSUME NEW r \in 1..(n + 1) PROVE KeyAt(r)' = new[r]
  <2>1. new[r] = IF r <= p THEN KeyAt(r) ELSE IF r = p + 1 THEN k ELSE KeyAt(r - 1)
    BY <1>2, <1>3, MergedAscends
  <2>2. CASE r <= p
    <3>1. r \in 1..n
      BY <1>4, <2>2
    <3> QED
      BY <1>4, <1>5, <1>8, <2>1, <2>2, <3>1 DEF KeyAt
  <2>3. CASE r = p + 1
    <3>1. ~(r <= p)
      BY <1>4, <2>3
    <3> QED
      BY <1>5, <1>8, <2>1, <2>3, <3>1 DEF KeyAt
  <2>4. CASE r > p + 1
    <3>1. r - 1 \in 1..n /\ ~(r <= p) /\ r # p + 1
      BY <1>4, <2>4
    <3> QED
      BY <1>4, <1>5, <1>8, <2>1, <3>1 DEF KeyAt
  <2> QED
    BY <1>4, <2>2, <2>3, <2>4
<1>12. \A q, r \in 1..(n + 1) : q < r => KeyAt(q)' <= KeyAt(r)'
  <2>1. \A q, r \in 1..(n + 1) : q < r => new[q] <= new[r]
    BY <1>2, <1>3, MergedAscends DEF Ascends
  <2> QED
    BY <1>11, <2>1
<1>13. Ranked'
  BY <1>5, <1>7, <1>9, <1>10, <1>12 DEF Ranked
<1>14. NodeSound'
  BY <1>4, <1>5, <1>6, <1>13 DEF NodeSound
<1>15. Count' = Count + 1
  BY <1>3, <1>7 DEF Count
<1> QED
  BY <1>1, <1>2, <1>3, <1>11, <1>14, <1>15

\* fill takes any sorted run that fits.
LEMMA FillKeeps ==
  ASSUME NEW run \in Seq(Key), Len(run) <= Capacity, Ascends(run), Fill(run), bytes' = bytes
  PROVE  NodeSound'
<1>1. PICK n : n = Len(run)
  OBVIOUS
<1>2. n \in Nat /\ n <= Capacity /\ \A s \in 1..n : run[s] \in Key
  BY <1>1
<1>3. keys' = run /\ order' = [r \in 1..n |-> r]
  BY <1>1 DEF Fill
<1>4. order' \in Seq(1..n) /\ Len(order') = n /\ \A r \in 1..n : order'[r] = r
  BY <1>2, <1>3
<1>5. lanes' \in Seq(LaneValues') /\ Len(lanes') = n
  <2>1. lanes' = [s \in 1..n |-> SurrogateAt(bytes[run[s]], prefix')]
    BY <1>1 DEF Fill
  <2>4. LaneValues' = {SurrogateAt(bytes[k], prefix') : k \in Key} \union {0, EmptyKey}
    BY DEF LaneValues
  <2>5. \A s \in 1..n : SurrogateAt(bytes[run[s]], prefix') \in LaneValues'
    BY <1>2, <2>4
  <2> QED
    BY <1>2, <2>1, <2>5
<1>6. \A r \in 1..n : KeyAt(r)' = run[r]
  BY <1>3, <1>4 DEF KeyAt
<1>7. Ranked'
  BY <1>1, <1>2, <1>3, <1>4, <1>6 DEF Ranked, Ascends
<1> QED
  BY <1>1, <1>2, <1>3, <1>5, <1>7 DEF NodeSound

LEMMA HalfAscends ==
  ASSUME NEW run \in Seq(Key), Ascends(run), NEW a \in 1..Len(run), NEW b \in a..Len(run)
  PROVE  /\ SubSeq(run, a, b) \in Seq(Key) /\ Len(SubSeq(run, a, b)) = b - a + 1
         /\ Ascends(SubSeq(run, a, b))
<1>1. PICK half, n : half = SubSeq(run, a, b) /\ n = Len(run)
  OBVIOUS
<1>2. /\ half \in Seq(Key) /\ Len(half) = b - a + 1
      /\ \A i \in 1..(b - a + 1) : half[i] = run[a + i - 1]
  BY <1>1, SubSeqProperties
<1>3. n \in Nat /\ a \in 1..n /\ b \in a..n
  BY <1>1
<1>4. ASSUME NEW q \in 1..(b - a + 1), NEW r \in 1..(b - a + 1), q < r PROVE half[q] <= half[r]
  <2>1. a + q - 1 \in 1..n /\ a + r - 1 \in 1..n /\ a + q - 1 < a + r - 1
    BY <1>3, <1>4
  <2> QED
    BY <1>1, <1>2, <2>1 DEF Ascends
<1> QED
  BY <1>1, <1>2, <1>4 DEF Ascends

LEMMA LeftKeeps ==
  ASSUME NodeSound, NEW k \in Key, SplitLeft(k)
  PROVE  NodeSound'
<1>1. PICK shares, p : p \in SortedPositions(k, shares) /\ Fill(SubSeq(Merged(k, p), 1, Mid))
  BY DEF SplitLeft
<1>2. PICK new : new = Merged(k, p)
  OBVIOUS
<1>a. Place(k, p)
  BY <1>1, PositionOf
<1>3. new \in Seq(Key) /\ Len(new) = Count + 1 /\ Ascends(new)
  BY <1>2, <1>a, MergedAscends
<1>b. Count \in 0..Capacity
  BY NodeFacts
<1>4. Count = Capacity
  BY <1>b, Sizes DEF SplitLeft, HasRoom
<1>5. 1 \in 1..Len(new) /\ Mid \in 1..Len(new) /\ Mid - 1 + 1 <= Capacity
  BY <1>3, <1>4, Sizes
<1>6. PICK half : half = SubSeq(new, 1, Mid)
  OBVIOUS
<1>7. half \in Seq(Key) /\ Len(half) <= Capacity /\ Ascends(half)
  BY <1>3, <1>5, <1>6, HalfAscends
<1>9. bytes' = bytes
  BY DEF SplitLeft
<1>8. Fill(half)
  BY <1>1, <1>2, <1>6
<1> QED
  BY <1>7, <1>8, <1>9, FillKeeps

LEMMA RightKeeps ==
  ASSUME NodeSound, NEW k \in Key, SplitRight(k)
  PROVE  NodeSound'
<1>1. PICK shares, p : p \in SortedPositions(k, shares) /\ Fill(SubSeq(Merged(k, p), Mid + 1, Capacity + 1))
  BY DEF SplitRight
<1>2. PICK new : new = Merged(k, p)
  OBVIOUS
<1>a. Place(k, p)
  BY <1>1, PositionOf
<1>3. new \in Seq(Key) /\ Len(new) = Count + 1 /\ Ascends(new)
  BY <1>2, <1>a, MergedAscends
<1>b. Count \in 0..Capacity
  BY NodeFacts
<1>4. Count = Capacity
  BY <1>b, Sizes DEF SplitRight, HasRoom
<1>5. PICK a, b : a = Mid + 1 /\ b = Capacity + 1
  OBVIOUS
<1>c. Mid \in Nat /\ Mid >= 1 /\ Mid <= Capacity /\ Capacity \in Nat
  BY Sizes
<1>d. a \in 1..Len(new) /\ b \in a..Len(new) /\ b - a + 1 <= Capacity
  BY <1>3, <1>4, <1>5, <1>c
<1>6. PICK half : half = SubSeq(new, a, b)
  OBVIOUS
<1>7. half \in Seq(Key) /\ Len(half) <= Capacity /\ Ascends(half)
  BY <1>3, <1>6, <1>d, HalfAscends
<1>9. bytes' = bytes
  BY DEF SplitRight
<1>8. Fill(half)
  BY <1>1, <1>2, <1>5, <1>6
<1> QED
  BY <1>7, <1>8, <1>9, FillKeeps

\* The inductive invariant holds: the node stays sorted, and its order word a
\* permutation of its slots, through any appends and splits.
THEOREM NodeSoundHolds == Spec => []NodeSound
<1>1. Init => NodeSound
  BY Sizes DEF Init, NodeSound, Ranked
<1>2. NodeSound /\ [Next]_vars => NodeSound'
  <2> SUFFICES ASSUME NodeSound, [Next]_vars PROVE NodeSound'
    OBVIOUS
  <2>1. ASSUME NEW k \in Key, AppendKey(k) PROVE NodeSound'
    BY <2>1, AppendKeeps
  <2>2. ASSUME NEW k \in Key, SplitLeft(k) PROVE NodeSound'
    BY <2>2, LeftKeeps
  <2>3. ASSUME NEW k \in Key, SplitRight(k) PROVE NodeSound'
    BY <2>3, RightKeeps
  <2>4. CASE UNCHANGED vars
    BY <2>4 DEF vars, NodeSound, Ranked, LaneValues, KeyAt
  <2> QED
    BY <2>1, <2>2, <2>3, <2>4 DEF Next
<1> QED
  BY <1>1, <1>2, PTL DEF Spec

\* PositionExact: for every capacity, set of keys and order of their bytes, under
\* any comparator, whichever kernel reads the lanes and whatever shares_prefix
\* answers, sorted_position returns the number of smaller keys.
THEOREM PositionIsExact == Spec => []PositionExact
<1>1. NodeSound => PositionExact
  BY SoundIsExact
<1> QED
  BY <1>1, NodeSoundHolds, PTL

-----------------------------------------------------------------------------
(* Surrogates and hints.                                                   *)

Digit(b, i) == IF i <= Len(b) THEN b[i] ELSE 0

\* f is the recursive function of Packed.
PackIs(f, b, n) ==
  f = [i \in 0..n |-> IF i = 0 THEN 0
                      ELSE f[i - 1] * Base + (IF i <= Len(b) THEN b[i] ELSE 0)]

LEMMA ByteFacts ==
  /\ Base \in Nat /\ Base >= 2 /\ LaneBytes \in Nat /\ LaneBytes >= 1
  /\ Byte \subseteq Nat /\ 0 \in Byte /\ \A d \in Byte : d <= Base - 1
BY LanesAssumption DEF Byte

LEMMA DigitFacts ==
  ASSUME NEW b \in Seq(Byte), NEW i \in Nat, i >= 1
  PROVE  Digit(b, i) \in Byte /\ Digit(b, i) \in Nat /\ Digit(b, i) <= Base - 1
<1>1. Digit(b, i) \in Byte
  BY ByteFacts DEF Digit
<1> QED
  BY <1>1, ByteFacts

LEMMA PackExists ==
  ASSUME NEW b, NEW n \in Nat
  PROVE  \E f : PackIs(f, b, n)
<1> DEFINE S == {m \in Nat : \E f : PackIs(f, b, m)}
<1>1. 0 \in S
  <2>1. PackIs([i \in 0..0 |-> 0], b, 0)
    BY DEF PackIs
  <2> QED
    BY <2>1
<1>2. ASSUME NEW m \in S PROVE m + 1 \in S
  <2>1. PICK f : PackIs(f, b, m)
    OBVIOUS
  <2>2. PICK x : x = f[m] * Base + (IF m + 1 <= Len(b) THEN b[m + 1] ELSE 0)
    OBVIOUS
  <2>3. PICK h : h = [i \in 0..(m + 1) |-> IF i = m + 1 THEN x ELSE f[i]]
    OBVIOUS
  <2>4. ASSUME NEW i \in 0..(m + 1)
        PROVE  h[i] = IF i = 0 THEN 0
                      ELSE h[i - 1] * Base + (IF i <= Len(b) THEN b[i] ELSE 0)
    <3>1. CASE i = m + 1
      <4>1. m \in 0..(m + 1) /\ m # m + 1 /\ i - 1 = m /\ i # 0
        BY <3>1
      <4> QED
        BY <2>2, <2>3, <3>1, <4>1
    <3>2. CASE i # m + 1
      <4>1. i \in 0..m /\ h[i] = f[i] /\ (i # 0 => i - 1 \in 0..(m + 1) /\ h[i - 1] = f[i - 1])
        BY <2>3, <3>2
      <4> QED
        BY <2>1, <4>1 DEF PackIs
    <3> QED
      BY <3>1, <3>2
  <2>5. PackIs(h, b, m + 1)
    BY <2>3, <2>4 DEF PackIs
  <2> QED
    BY <2>5
<1> HIDE DEF S
<1>3. S = Nat
  BY <1>1, <1>2, NatSteps DEF S
<1> QED
  BY <1>3 DEF S

\* The digits are taken in one at a time.
Packs(f, b, n) ==
  /\ f[0] = 0 /\ Packed(b, n) = f[n]
  /\ \A i \in 1..n : f[i] = f[i - 1] * Base + Digit(b, i)
  /\ \A i \in 0..n : f[i] \in Nat

LEMMA PackFacts ==
  ASSUME NEW b \in Seq(Byte), NEW n \in Nat
  PROVE  \E f : Packs(f, b, n)
<1>1. PICK h : PackIs(h, b, n)
  BY PackExists
<1>2. PICK f : f = CHOOSE value : value = [i \in 0..n |-> IF i = 0 THEN 0
                      ELSE value[i - 1] * Base + (IF i <= Len(b) THEN b[i] ELSE 0)]
  OBVIOUS
<1>3. PackIs(f, b, n)
  BY <1>1, <1>2 DEF PackIs
<1>4. Packed(b, n) = f[n]
  BY <1>2 DEF Packed
<1>5. f[0] = 0 /\ \A i \in 1..n : f[i] = f[i - 1] * Base + Digit(b, i)
  BY <1>3 DEF PackIs, Digit
<1> DEFINE S == {i \in Nat : i <= n => f[i] \in Nat}
<1>6. 0 \in S
  BY <1>5
<1>7. ASSUME NEW i \in S PROVE i + 1 \in S
  <2> SUFFICES ASSUME i + 1 <= n PROVE f[i + 1] \in Nat
    OBVIOUS
  <2>1. f[i] \in Nat /\ i + 1 \in 1..n /\ i + 1 - 1 = i /\ i + 1 >= 1
    OBVIOUS
  <2>2. f[i + 1] = f[i] * Base + Digit(b, i + 1) /\ Digit(b, i + 1) \in Nat
    BY <1>5, <2>1, DigitFacts
  <2>3. f[i] * Base \in Nat
    BY <2>1, ByteFacts
  <2> QED
    BY <2>2, <2>3
<1> HIDE DEF S
<1>8. S = Nat
  BY <1>6, <1>7, NatSteps DEF S
<1>9. \A i \in 0..n : f[i] \in Nat
  BY <1>8 DEF S
<1> QED
  BY <1>4, <1>5, <1>9 DEF Packs

\* After m bytes on which they agree b's are above a's: the next one is, or none
\* of the first n is below.
Under(a, b, m, n) ==
  /\ \A i \in 1..m : Digit(a, i) = Digit(b, i)
  /\ \/ Digit(a, m + 1) < Digit(b, m + 1)
     \/ \A i \in (m + 1)..n : Digit(a, i) <= Digit(b, i)

LEMMA Shifted ==
  ASSUME NEW x \in Nat, NEW y \in Nat, NEW c \in Nat, NEW d \in Nat, c <= Base - 1, d <= Base - 1
  PROVE  /\ x + 1 <= y => x * Base + c + 1 <= y * Base + d
         /\ x <= y /\ c <= d => x * Base + c <= y * Base + d
         /\ x = y /\ c < d => x * Base + c + 1 <= y * Base + d
<1>1. PICK w : w = Base
  OBVIOUS
<1>2. w \in Nat /\ w >= 2 /\ c <= w - 1
  BY <1>1, ByteFacts
<1>3. x * w \in Nat /\ y * w \in Nat
  BY <1>2
<1>4. x + 1 <= y => x * w + w <= y * w
  <2> SUFFICES ASSUME x + 1 <= y PROVE x * w + w <= y * w
    OBVIOUS
  <2>1. PICK z : z = y - x - 1
    OBVIOUS
  <2>2. z \in Nat /\ y = x + 1 + z
    BY <2>1
  <2>3. y * w = x * w + w + z * w /\ z * w \in Nat
    BY <1>2, <2>2
  <2> QED
    BY <1>2, <1>3, <2>3
<1>5. x <= y => x * w <= y * w
  <2>1. CASE x = y
    BY <1>3, <2>1
  <2>2. CASE x # y
    <3>1. x <= y => x + 1 <= y
      BY <2>2
    <3> QED
      BY <1>2, <1>3, <1>4, <3>1
  <2> QED
    BY <2>1, <2>2
<1>6. x + 1 <= y => x * w + c + 1 <= y * w + d
  BY <1>2, <1>3, <1>4
<1>7. x <= y /\ c <= d => x * w + c <= y * w + d
  BY <1>2, <1>3, <1>5
<1>8. x = y /\ c < d => x * w + c + 1 <= y * w + d
  BY <1>2, <1>3
<1> QED
  BY <1>1, <1>6, <1>7, <1>8

\* Big-endian: packed bytes compare as the bytes do.
LEMMA PackedOrder ==
  ASSUME NEW a \in Seq(Byte), NEW b \in Seq(Byte), NEW n \in Nat,
         NEW m \in Nat, Under(a, b, m, n)
  PROVE  Packed(a, n) \in Nat /\ Packed(b, n) \in Nat /\ Packed(a, n) <= Packed(b, n)
<1>1. PICK f, g : Packs(f, a, n) /\ Packs(g, b, n)
  BY PackFacts
<1>2. /\ f[0] = 0 /\ g[0] = 0 /\ Packed(a, n) = f[n] /\ Packed(b, n) = g[n]
      /\ \A i \in 1..n : f[i] = f[i - 1] * Base + Digit(a, i) /\ g[i] = g[i - 1] * Base + Digit(b, i)
      /\ \A i \in 0..n : f[i] \in Nat /\ g[i] \in Nat
  BY <1>1 DEF Packs
<1>3. /\ \A i \in 1..m : Digit(a, i) = Digit(b, i)
      /\ \/ Digit(a, m + 1) < Digit(b, m + 1)
         \/ \A i \in (m + 1)..n : Digit(a, i) <= Digit(b, i)
  BY DEF Under
<1> DEFINE Strict == Digit(a, m + 1) < Digit(b, m + 1)
           P(i) == /\ i <= m => f[i] = g[i]
                   /\ f[i] <= g[i]
                   /\ i > m /\ Strict => f[i] + 1 <= g[i]
           S == {i \in Nat : i <= n => P(i)}
<1>4. 0 \in S
  BY <1>2
<1>5. ASSUME NEW i \in S PROVE i + 1 \in S
  <2> SUFFICES ASSUME i + 1 <= n PROVE P(i + 1)
    OBVIOUS
  <2>1. i \in Nat /\ i + 1 \in 1..n /\ i + 1 - 1 = i /\ i + 1 >= 1 /\ i \in 0..n
    OBVIOUS
  <2>2. PICK x, y, c, d : x = f[i] /\ y = g[i] /\ c = Digit(a, i + 1) /\ d = Digit(b, i + 1)
    OBVIOUS
  <2>3. /\ f[i + 1] = x * Base + c /\ g[i + 1] = y * Base + d
        /\ x \in Nat /\ y \in Nat
    BY <1>2, <2>1, <2>2
  <2>4. /\ c \in Nat /\ d \in Nat /\ c <= Base - 1 /\ d <= Base - 1
    BY <2>1, <2>2, DigitFacts
  <2>5. /\ x + 1 <= y => f[i + 1] + 1 <= g[i + 1]
        /\ x <= y /\ c <= d => f[i + 1] <= g[i + 1]
        /\ x = y /\ c < d => f[i + 1] + 1 <= g[i + 1]
    BY <2>3, <2>4, Shifted
  <2>6. /\ i <= m => x = y
        /\ x <= y
        /\ i > m /\ Strict => x + 1 <= y
    BY <2>1, <2>2
  <2>7. f[i + 1] \in Nat /\ g[i + 1] \in Nat
    BY <1>2, <2>1
  <2>8. CASE i + 1 <= m
    <3>1. c = d /\ x = y /\ ~(i + 1 > m)
      BY <1>3, <2>1, <2>2, <2>6, <2>8
    <3> QED
      BY <2>3, <2>7, <2>8, <3>1
  <2>9. CASE i = m
    <3>1. x = y /\ (Strict => c < d) /\ (~Strict => c <= d) /\ ~(i + 1 <= m)
      BY <1>3, <2>1, <2>2, <2>6, <2>9
    <3> QED
      BY <2>3, <2>5, <2>6, <2>7, <3>1
  <2>10. CASE i > m
    <3>1. ~(i + 1 <= m) /\ (~Strict => c <= d)
      BY <1>3, <2>1, <2>2, <2>10
    <3> QED
      BY <2>5, <2>6, <2>7, <2>10, <3>1
  <2> QED
    BY <2>1, <2>8, <2>9, <2>10
<1> HIDE DEF S
<1>6. S = Nat
  BY <1>4, <1>5, NatSteps DEF S
<1>7. f[n] <= g[n] /\ n \in 0..n
  BY <1>6 DEF S
<1> QED
  BY <1>2, <1>7

-----------------------------------------------------------------------------
(* Common prefixes.                                                        *)

LEMMA StartOf ==
  ASSUME NEW s \in Seq(Byte), NEW n \in Nat, n <= Len(s)
  PROVE  /\ SubSeq(s, 1, n) \in Seq(Byte) /\ Len(SubSeq(s, 1, n)) = n
         /\ \A i \in 1..n : SubSeq(s, 1, n)[i] = s[i]
<1>1. Len(s) \in Nat /\ \A i \in 1..Len(s) : s[i] \in Byte
  BY LenProperties
<1>2. \A i \in 1..n : s[i] \in Byte
  BY <1>1
<1>3. /\ SubSeq(s, 1, n) \in Seq(Byte)
      /\ Len(SubSeq(s, 1, n)) = IF 1 <= n THEN n - 1 + 1 ELSE 0
      /\ \A i \in 1..(n - 1 + 1) : SubSeq(s, 1, n)[i] = s[1 + i - 1]
  <2>1. 1 \in Int /\ n \in Int
    OBVIOUS
  <2> QED
    BY <1>2, <2>1, SubSeqProperties
<1>4. (IF 1 <= n THEN n - 1 + 1 ELSE 0) = n /\ n - 1 + 1 = n /\ \A i \in 1..n : 1 + i - 1 = i
  OBVIOUS
<1> QED
  BY <1>3, <1>4

LEMMA PrefixFacts ==
  ASSUME NEW p \in Seq(Byte), NEW t \in Seq(Byte)
  PROVE  IsPrefix(p, t) <=> Len(p) <= Len(t) /\ \A i \in 1..Len(p) : p[i] = t[i]
<1>1. PICK n : n = Len(p)
  OBVIOUS
<1>2. n \in Nat /\ n <= Len(p)
  BY <1>1, LenProperties
<1>3. IsPrefix(p, t) <=> n <= Len(t) /\ SubSeq(p, 1, n) = SubSeq(t, 1, n)
  BY <1>1 DEF IsPrefix
<1>4. ASSUME n <= Len(t)
      PROVE  SubSeq(p, 1, n) = SubSeq(t, 1, n) <=> \A i \in 1..n : p[i] = t[i]
  <2>1. PICK x, y : x = SubSeq(p, 1, n) /\ y = SubSeq(t, 1, n)
    OBVIOUS
  <2>2. x \in Seq(Byte) /\ Len(x) = n /\ \A i \in 1..n : x[i] = p[i]
    BY <1>2, <2>1, StartOf
  <2>3. y \in Seq(Byte) /\ Len(y) = n /\ \A i \in 1..n : y[i] = t[i]
    BY <1>2, <1>4, <2>1, StartOf
  <2>4. x = y <=> \A i \in 1..n : x[i] = y[i]
    <3>1. (\A i \in 1..n : x[i] = y[i]) => x = y
      BY <2>2, <2>3, SeqEqual
    <3> QED
      BY <3>1
  <2> QED
    BY <2>1, <2>2, <2>3, <2>4
<1> QED
  BY <1>1, <1>3, <1>4

\* common_prefix_len counts the bytes on which two keys agree.
LEMMA CommonPrefix ==
  ASSUME NEW a \in Seq(Byte), NEW b \in Seq(Byte)
  PROVE  /\ CommonPrefixLen(a, b) \in Nat /\ Agree(a, b, CommonPrefixLen(a, b))
         /\ \A n \in Nat : Agree(a, b, n) => n <= CommonPrefixLen(a, b)
<1>1. PICK C : C = CommonPrefixes({a, b})
  OBVIOUS
<1>2. Len(a) \in Nat /\ Len(b) \in Nat
  BY LenProperties
<1>3. ASSUME NEW p \in C PROVE p \in Seq(Byte) /\ Len(p) \in Nat /\ Agree(a, b, Len(p))
  <2>1. IsPrefix(p, a) /\ IsPrefix(p, b) /\ p \in UNION {Prefixes(t) : t \in {a, b}}
    BY <1>1 DEF CommonPrefixes
  <2>2. PICK t \in {a, b} : p \in Prefixes(t)
    BY <2>1
  <2>3. PICK l \in 0..Len(t) : p = SubSeq(t, 1, l)
    BY <2>2 DEF Prefixes
  <2>4. t \in Seq(Byte) /\ l \in Nat /\ l <= Len(t)
    BY <1>2, <2>3
  <2>5. p \in Seq(Byte) /\ Len(p) = l
    BY <2>3, <2>4, StartOf
  <2>6. /\ Len(p) <= Len(a) /\ \A i \in 1..Len(p) : p[i] = a[i]
        /\ Len(p) <= Len(b) /\ \A i \in 1..Len(p) : p[i] = b[i]
    BY <2>1, <2>5, PrefixFacts
  <2> QED
    BY <2>4, <2>5, <2>6 DEF Agree
<1>4. ASSUME NEW n \in Nat, Agree(a, b, n) PROVE \E p \in C : Len(p) = n
  <2>1. PICK p : p = SubSeq(a, 1, n)
    OBVIOUS
  <2>2. n <= Len(a) /\ n <= Len(b) /\ \A i \in 1..n : a[i] = b[i]
    BY <1>4 DEF Agree
  <2>3. p \in Seq(Byte) /\ Len(p) = n /\ \A i \in 1..n : p[i] = a[i]
    BY <2>1, <2>2, StartOf
  <2>4. IsPrefix(p, a) /\ IsPrefix(p, b)
    BY <2>2, <2>3, PrefixFacts
  <2>5. p \in Prefixes(a)
    BY <1>2, <2>1, <2>2 DEF Prefixes
  <2>6. p \in C
    BY <1>1, <2>4, <2>5 DEF CommonPrefixes
  <2> QED
    BY <2>3, <2>6
<1>5. PICK m : m \in Nat /\ Agree(a, b, m) /\ \A n \in Nat : Agree(a, b, n) => n <= m
  <2>1. PICK top, gaps : top = Len(a) /\ gaps = {d \in Nat : d <= top /\ Agree(a, b, top - d)}
    OBVIOUS
  <2>2. Agree(a, b, 0)
    BY <1>2 DEF Agree
  <2>3. top \in gaps
    BY <1>2, <2>1, <2>2
  <2>4. Min(gaps) \in gaps /\ \A d \in gaps : Min(gaps) <= d
    BY <2>1, <2>3, LeastExists
  <2>5. PICK d : d = Min(gaps)
    OBVIOUS
  <2>6. d \in Nat /\ d <= top /\ Agree(a, b, top - d) /\ top - d \in Nat
    BY <1>2, <2>1, <2>4, <2>5
  <2>7. ASSUME NEW n \in Nat, Agree(a, b, n) PROVE n <= top - d
    <3>1. n <= top
      BY <2>1, <2>7 DEF Agree
    <3>2. PICK e : e = top - n
      OBVIOUS
    <3>3. e \in Nat /\ e <= top /\ top - e = n
      BY <1>2, <2>1, <3>1, <3>2
    <3>4. e \in gaps
      BY <2>1, <2>7, <3>3
    <3> QED
      BY <1>2, <2>1, <2>4, <2>5, <2>6, <3>2, <3>4
  <2> QED
    BY <2>6, <2>7
<1>6. PICK p \in C : Len(p) = m
  BY <1>4, <1>5
<1>7. \A q \in C : Len(q) <= Len(p)
  BY <1>3, <1>5, <1>6
<1>8. PICK longest : longest = CHOOSE x \in C : \A q \in C : Len(q) <= Len(x)
  OBVIOUS
<1>9. longest \in C /\ \A q \in C : Len(q) <= Len(longest)
  BY <1>6, <1>7, <1>8
<1>10. Len(longest) = m
  BY <1>3, <1>5, <1>6, <1>9
<1>11. CommonPrefixLen(a, b) = m
  BY <1>1, <1>8, <1>10 DEF CommonPrefixLen, LongestCommonPrefix
<1> QED
  BY <1>5, <1>11

\* compare_keys is decided at the first byte on which the keys differ.
LEMMA NotAboveIs ==
  ASSUME NEW a \in Seq(Byte), NEW b \in Seq(Byte), NotAbove(a, b)
  PROVE  \E n \in Nat : /\ Agree(a, b, n) /\ \A m \in Nat : Agree(a, b, m) => m <= n
                        /\ n = Len(a) \/ (n < Len(a) /\ n < Len(b) /\ a[n + 1] < b[n + 1])
<1>1. PICK n : n = CommonPrefixLen(a, b)
  OBVIOUS
<1>2. n \in Nat /\ Agree(a, b, n) /\ \A m \in Nat : Agree(a, b, m) => m <= n
  BY <1>1, CommonPrefix
<1>3. n = Len(a) \/ (n < Len(b) /\ a[n + 1] < b[n + 1])
  BY <1>1 DEF NotAbove
<1>4. n <= Len(a) /\ Len(a) \in Nat
  BY <1>2, LenProperties DEF Agree
<1> QED
  BY <1>2, <1>3, <1>4

LEMMA NotAboveUnder ==
  ASSUME NEW a \in Seq(Byte), NEW b \in Seq(Byte), NotAbove(a, b), NEW l \in Nat
  PROVE  \E n \in Nat : Under(a, b, n, l) /\ \A m \in Nat : Agree(a, b, m) => m <= n
<1>1. PICK n \in Nat : /\ Agree(a, b, n) /\ \A m \in Nat : Agree(a, b, m) => m <= n
                       /\ n = Len(a) \/ (n < Len(a) /\ n < Len(b) /\ a[n + 1] < b[n + 1])
  BY NotAboveIs
<1>2. Len(a) \in Nat /\ Len(b) \in Nat /\ n <= Len(a) /\ n <= Len(b)
  BY <1>1, LenProperties DEF Agree
<1>3. \A i \in 1..n : Digit(a, i) = Digit(b, i)
  BY <1>1, <1>2 DEF Agree, Digit
<1>4. ASSUME n = Len(a) PROVE \A i \in (n + 1)..l : Digit(a, i) <= Digit(b, i)
  <2> SUFFICES ASSUME NEW i \in (n + 1)..l PROVE Digit(a, i) <= Digit(b, i)
    OBVIOUS
  <2>1. i \in Nat /\ i > n /\ i >= 1
    BY <1>2
  <2>2. Digit(a, i) = 0
    BY <1>2, <1>4, <2>1 DEF Digit
  <2>3. Digit(b, i) \in Nat
    BY <2>1, DigitFacts
  <2> QED
    BY <2>2, <2>3
<1>5. ASSUME n < Len(a) /\ n < Len(b) /\ a[n + 1] < b[n + 1]
      PROVE  Digit(a, n + 1) < Digit(b, n + 1)
  BY <1>2, <1>5 DEF Digit
<1>6. Under(a, b, n, l)
  BY <1>1, <1>3, <1>4, <1>5 DEF Under
<1> QED
  BY <1>1, <1>6

\* What lies between two keys shares what these have in common.
LEMMA BetweenAgrees ==
  ASSUME NEW a \in Seq(Byte), NEW b \in Seq(Byte), NEW c \in Seq(Byte),
         NotAbove(a, b), NotAbove(b, c), NEW n \in Nat, Agree(a, c, n)
  PROVE  Agree(a, b, n) /\ Agree(b, c, n)
<1>1. /\ Len(a) \in Nat /\ Len(b) \in Nat /\ Len(c) \in Nat
      /\ \A i \in 1..Len(a) : a[i] \in Nat
      /\ \A i \in 1..Len(b) : b[i] \in Nat
      /\ \A i \in 1..Len(c) : c[i] \in Nat
  BY LenProperties, ByteFacts
<1>2. n <= Len(a) /\ n <= Len(c) /\ \A i \in 1..n : a[i] = c[i]
  BY DEF Agree
<1>3. PICK m \in Nat : /\ Agree(a, b, m)
                       /\ m = Len(a) \/ (m < Len(a) /\ m < Len(b) /\ a[m + 1] < b[m + 1])
  BY NotAboveIs
<1>4. m <= Len(a) /\ m <= Len(b) /\ \A i \in 1..m : a[i] = b[i]
  BY <1>3 DEF Agree
<1>5. n <= m
  <2> SUFFICES ASSUME m < n PROVE FALSE
    BY <1>2
  <2>1. m < Len(a) /\ m < Len(b) /\ m < Len(c) /\ m + 1 \in 1..n
    BY <1>1, <1>2, <1>3
  <2>2. a[m + 1] < b[m + 1] /\ a[m + 1] = c[m + 1]
    BY <1>1, <1>2, <1>3, <2>1
  <2>3. PICK q \in Nat : /\ Agree(b, c, q) /\ \A j \in Nat : Agree(b, c, j) => j <= q
                         /\ q = Len(b) \/ (q < Len(b) /\ q < Len(c) /\ b[q + 1] < c[q + 1])
    BY NotAboveIs
  <2>4. q <= Len(b) /\ q <= Len(c) /\ \A i \in 1..q : b[i] = c[i]
    BY <2>3 DEF Agree
  <2>5. Agree(b, c, m)
    <3>1. \A i \in 1..m : b[i] = c[i]
      BY <1>2, <1>4, <2>1
    <3> QED
      BY <1>1, <2>1, <3>1 DEF Agree
  <2>6. m <= q
    BY <2>3, <2>5
  <2>7. a[m + 1] \in Nat /\ b[m + 1] \in Nat
    BY <1>1, <2>1
  <2>8. ~(m < q)
    <3> SUFFICES ASSUME m < q PROVE FALSE
      OBVIOUS
    <3>1. b[m + 1] = c[m + 1]
      BY <2>4
    <3> QED
      BY <2>2, <2>7, <3>1
  <2>9. q = m
    BY <2>6, <2>8
  <2> QED
    BY <1>1, <2>1, <2>2, <2>3, <2>7, <2>9
<1>6. \A i \in 1..n : a[i] = b[i] /\ b[i] = c[i]
  BY <1>2, <1>4, <1>5
<1> QED
  BY <1>1, <1>2, <1>4, <1>5, <1>6 DEF Agree

-----------------------------------------------------------------------------
(* Hints.                                                                  *)

LEMMA HintsFollowBytes ==
  ASSUME bytes \in [Key -> Seq(Byte)]
  PROVE  HintsAgree
<1> SUFFICES ASSUME Bytewise, NEW j \in Key, NEW k \in Key, j < k
             PROVE  DescentHint(bytes[j]) <= DescentHint(bytes[k])
  BY DEF HintsAgree
<1>1. PICK a, b, n : a = bytes[j] /\ b = bytes[k] /\ n = 2 * LaneBytes
  OBVIOUS
<1>2. a \in Seq(Byte) /\ b \in Seq(Byte) /\ n \in Nat
  BY <1>1, ByteFacts
<1>3. NotAbove(a, b)
  BY <1>1 DEF Bytewise
<1>4. PICK m \in Nat : Under(a, b, m, n)
  BY <1>2, <1>3, NotAboveUnder
<1>5. Packed(a, n) <= Packed(b, n)
  BY <1>2, <1>4, PackedOrder
<1> QED
  BY <1>1, <1>5 DEF DescentHint

\* HintsAgree: descent_hint never contradicts a comparator that follows the bytes,
\* for keys and hints of any length, which Memtable assumes of trusted hints.
THEOREM HintsNeverMislead == Spec => []HintsAgree
<1> DEFINE Typed == bytes \in [Key -> Seq(Byte)]
<1>1. Init => Typed
  BY LanesAssumption DEF Init
<1>2. Typed /\ [Next]_vars => Typed'
  <2> SUFFICES ASSUME Typed, [Next]_vars PROVE bytes' = bytes
    OBVIOUS
  <2> QED
    BY DEF Next, vars, AppendKey, SplitLeft, SplitRight
<1>3. Typed => HintsAgree
  BY HintsFollowBytes
<1> QED
  BY <1>1, <1>2, <1>3, PTL DEF Spec

-----------------------------------------------------------------------------
(* What the lanes hold under a comparator that follows the bytes.          *)

LEMMA RestOf ==
  ASSUME NEW s \in Seq(Byte), NEW n \in Nat, n < Len(s)
  PROVE  /\ SubSeq(s, n + 1, Len(s)) \in Seq(Byte)
         /\ \A i \in Nat : i >= 1 => Digit(SubSeq(s, n + 1, Len(s)), i) = Digit(s, n + i)
<1>1. PICK m, r : m = Len(s) /\ r = SubSeq(s, n + 1, m)
  OBVIOUS
<1>2. m \in Nat /\ n < m /\ \A i \in 1..m : s[i] \in Byte
  BY <1>1, LenProperties
<1>3. /\ r \in Seq(Byte) /\ Len(r) = IF n + 1 <= m THEN m - (n + 1) + 1 ELSE 0
      /\ \A i \in 1..(m - (n + 1) + 1) : r[i] = s[n + 1 + i - 1]
  <2>1. n + 1 \in Int /\ m \in Int /\ \A i \in (n + 1)..m : s[i] \in Byte
    BY <1>2
  <2> QED
    BY <1>1, <2>1, SubSeqProperties
<1>4. Len(r) = m - n /\ \A i \in 1..(m - n) : r[i] = s[n + i]
  <2>1. n + 1 <= m /\ m - (n + 1) + 1 = m - n /\ \A i \in 1..(m - n) : n + 1 + i - 1 = n + i
    BY <1>2
  <2> QED
    BY <1>3, <2>1
<1>5. ASSUME NEW i \in Nat, i >= 1 PROVE Digit(r, i) = Digit(s, n + i)
  <2>1. CASE i <= m - n
    <3>1. i \in 1..(m - n) /\ n + i <= m
      BY <1>2, <1>5, <2>1
    <3> QED
      BY <1>1, <1>4, <3>1 DEF Digit
  <2>2. CASE ~(i <= m - n)
    <3>1. ~(n + i <= m)
      BY <1>2, <1>5, <2>2
    <3> QED
      BY <1>1, <1>4, <2>2, <3>1 DEF Digit
  <2> QED
    BY <2>1, <2>2
<1> QED
  BY <1>1, <1>3, <1>5

\* No surrogate is above the sentinel.
LEMMA SurrogateRange ==
  ASSUME NEW b \in Seq(Byte), NEW n \in Nat
  PROVE  SurrogateAt(b, n) \in Nat /\ EmptyKey \in Nat /\ SurrogateAt(b, n) <= EmptyKey
<1>1. Len(b) \in Nat
  BY LenProperties
<1>2. PICK ones, size : ones = [i \in 1..size |-> Base - 1] /\ size = LaneBytes
  OBVIOUS
<1>3. size \in Nat /\ Base - 1 \in Byte /\ ones \in Seq(Byte) /\ Len(ones) = size
      /\ \A i \in 1..size : ones[i] = Base - 1
  BY <1>2, ByteFacts DEF Byte
<1>4. EmptyKey = Packed(ones, size)
  BY <1>2 DEF EmptyKey
<1>5. ASSUME NEW c \in Seq(Byte)
      PROVE  Packed(c, size) \in Nat /\ Packed(ones, size) \in Nat /\ Packed(c, size) <= Packed(ones, size)
  <2>1. ASSUME NEW i \in 1..size PROVE Digit(c, i) <= Digit(ones, i)
    <3>1. Digit(ones, i) = Base - 1
      BY <1>3 DEF Digit
    <3>2. i \in Nat /\ i >= 1
      BY <1>3
    <3> QED
      BY <3>1, <3>2, DigitFacts
  <2>2. Under(c, ones, 0, size)
    BY <2>1 DEF Under
  <2> QED
    BY <1>3, <2>2, PackedOrder
<1>6. CASE n >= Len(b)
  <2>1. SurrogateAt(b, n) = 0
    BY <1>6 DEF SurrogateAt
  <2> QED
    BY <1>3, <1>4, <1>5, <2>1
<1>7. CASE ~(n >= Len(b))
  <2>1. PICK r : r = SubSeq(b, n + 1, Len(b))
    OBVIOUS
  <2>2. SurrogateAt(b, n) = Packed(r, size)
    BY <1>2, <1>7, <2>1 DEF SurrogateAt, Surrogate
  <2>3. n < Len(b)
    BY <1>1, <1>7
  <2>4. r \in Seq(Byte)
    BY <2>1, <2>3, RestOf
  <2> QED
    BY <1>4, <1>5, <2>2, <2>4
<1> QED
  BY <1>6, <1>7

\* Past bytes on which keys agree, surrogates are in the keys' order.
LEMMA SurrogateOrder ==
  ASSUME NEW a \in Seq(Byte), NEW b \in Seq(Byte), NotAbove(a, b), NEW n \in Nat, Agree(a, b, n)
  PROVE  SurrogateAt(a, n) <= SurrogateAt(b, n)
<1>1. Len(a) \in Nat /\ Len(b) \in Nat /\ n <= Len(a) /\ n <= Len(b)
  BY LenProperties DEF Agree
<1>2. CASE n >= Len(a)
  <2>1. SurrogateAt(a, n) = 0
    BY <1>2 DEF SurrogateAt
  <2> QED
    BY <2>1, SurrogateRange
<1>3. CASE ~(n >= Len(a))
  <2>1. PICK size : size = LaneBytes
    OBVIOUS
  <2>2. size \in Nat /\ n + size \in Nat
    BY <2>1, ByteFacts
  <2>3. PICK m \in Nat : Under(a, b, m, n + size) /\ \A l \in Nat : Agree(a, b, l) => l <= m
    BY <2>2, NotAboveUnder
  <2>4. n <= m
    BY <2>3
  <2>5. n < Len(b)
    <3>1. PICK l \in Nat : /\ Agree(a, b, l) /\ \A i \in Nat : Agree(a, b, i) => i <= l
                           /\ l = Len(a) \/ (l < Len(a) /\ l < Len(b) /\ a[l + 1] < b[l + 1])
      BY NotAboveIs
    <3>2. n <= l /\ l <= Len(b)
      BY <3>1 DEF Agree
    <3> QED
      BY <1>1, <1>3, <3>1, <3>2
  <2>6. PICK x, y : x = SubSeq(a, n + 1, Len(a)) /\ y = SubSeq(b, n + 1, Len(b))
    OBVIOUS
  <2>7. SurrogateAt(a, n) = Packed(x, size) /\ SurrogateAt(b, n) = Packed(y, size)
    <3>1. ~(n >= Len(b))
      BY <1>1, <2>5
    <3> QED
      BY <1>3, <2>1, <2>6, <3>1 DEF SurrogateAt, Surrogate
  <2>8. n < Len(a)
    BY <1>1, <1>3
  <2>9. /\ x \in Seq(Byte) /\ \A i \in Nat : i >= 1 => Digit(x, i) = Digit(a, n + i)
        /\ y \in Seq(Byte) /\ \A i \in Nat : i >= 1 => Digit(y, i) = Digit(b, n + i)
    BY <2>5, <2>6, <2>8, RestOf
  <2>10. PICK d : d = m - n
    OBVIOUS
  <2>11. d \in Nat /\ n + d = m /\ n + (d + 1) = m + 1
    BY <2>4, <2>10
  <2>12. \A i \in 1..d : Digit(x, i) = Digit(y, i)
    <3> SUFFICES ASSUME NEW i \in 1..d PROVE Digit(x, i) = Digit(y, i)
      OBVIOUS
    <3>1. i \in Nat /\ i >= 1 /\ n + i \in 1..m
      BY <2>11
    <3> QED
      BY <2>3, <2>9, <3>1 DEF Under
  <2>13. Digit(x, d + 1) = Digit(a, m + 1) /\ Digit(y, d + 1) = Digit(b, m + 1)
    <3>1. d + 1 \in Nat /\ d + 1 >= 1
      BY <2>11
    <3> QED
      BY <2>9, <2>11, <3>1
  <2>14. ASSUME \A i \in (m + 1)..(n + size) : Digit(a, i) <= Digit(b, i)
         PROVE  \A i \in (d + 1)..size : Digit(x, i) <= Digit(y, i)
    <3> SUFFICES ASSUME NEW i \in (d + 1)..size PROVE Digit(x, i) <= Digit(y, i)
      OBVIOUS
    <3>1. i \in Nat /\ i >= 1 /\ n + i \in (m + 1)..(n + size)
      BY <2>2, <2>11
    <3> QED
      BY <2>9, <2>14, <3>1
  <2>15. Under(x, y, d, size)
    BY <2>3, <2>12, <2>13, <2>14 DEF Under
  <2> QED
    BY <2>2, <2>7, <2>9, <2>11, <2>15, PackedOrder
<1> QED
  BY <1>2, <1>3

LEMMA AgreeTogether ==
  ASSUME NEW a, NEW b, NEW c, NEW n, Agree(a, b, n), Agree(a, c, n)
  PROVE  Agree(b, c, n)
BY DEF Agree

LEMMA AlikeNotAbove ==
  ASSUME bytes \in [Key -> Seq(Byte)], NEW k \in Key
  PROVE  NotAbove(bytes[k], bytes[k])
<1>1. PICK b, n : b = bytes[k] /\ n = Len(b)
  OBVIOUS
<1>2. b \in Seq(Byte) /\ n \in Nat
  BY <1>1, LenProperties
<1>3. Agree(b, b, n)
  BY <1>1, <1>2 DEF Agree
<1>4. CommonPrefixLen(b, b) \in Nat /\ n <= CommonPrefixLen(b, b) /\ CommonPrefixLen(b, b) <= n
  BY <1>1, <1>2, <1>3, CommonPrefix DEF Agree
<1>5. CommonPrefixLen(b, b) = Len(b)
  BY <1>1, <1>2, <1>4
<1> QED
  BY <1>1, <1>5 DEF NotAbove

LEMMA BytewiseOrder ==
  ASSUME bytes \in [Key -> Seq(Byte)], Bytewise, NEW j \in Key, NEW k \in Key, j <= k
  PROVE  NotAbove(bytes[j], bytes[k])
<1>1. j \in Nat /\ k \in Nat
  BY Sizes
<1>2. CASE j < k
  BY <1>2 DEF Bytewise
<1>3. CASE j = k
  BY <1>3, AlikeNotAbove
<1> QED
  BY <1>1, <1>2, <1>3

\* In LanesFollow's nodes.
Following == LanesSound /\ Bytewise /\ (head => prefix = 0)

LEMMA FollowFacts ==
  ASSUME Following
  PROVE  /\ NodeSound /\ bytes \in [Key -> Seq(Byte)] /\ prefix \in Nat /\ Bytewise /\ LanesFollow
         /\ Count \in Nat /\ (prefix > 0 => Count >= 1)
         /\ \A r \in 1..Count : KeyAt(r) \in Key /\ KeyAt(r) \in Nat /\ order[r] \in 1..Count
         /\ \A q, r \in 1..Count : q <= r => KeyAt(q) <= KeyAt(r)
<1>1. NodeSound /\ bytes \in [Key -> Seq(Byte)] /\ prefix \in Nat /\ Bytewise /\ LanesFollow
  BY DEF Following, LanesSound
<1>2. /\ Count \in Nat /\ Count = Len(keys)
      /\ \A r \in 1..Count : KeyAt(r) \in Key /\ KeyAt(r) \in Nat /\ order[r] \in 1..Count
  BY <1>1, NodeFacts
<1>3. prefix > 0 => Count >= 1
  <2> SUFFICES ASSUME prefix > 0 PROVE Count >= 1
    OBVIOUS
  <2>1. ~head
    BY <1>1 DEF Following
  <2>2. Count >= 2
    BY <2>1 DEF Following, LanesSound, Filled
  <2> QED
    BY <1>2, <2>2
<1>4. \A q, r \in 1..Count : q < r => KeyAt(q) <= KeyAt(r)
  BY <1>1, <1>2 DEF NodeSound, Ranked
<1>5. \A q, r \in 1..Count : q <= r => KeyAt(q) <= KeyAt(r)
  <2> SUFFICES ASSUME NEW q \in 1..Count, NEW r \in 1..Count, q <= r PROVE KeyAt(q) <= KeyAt(r)
    OBVIOUS
  <2>1. CASE q = r
    BY <1>2, <2>1
  <2>2. CASE q < r
    BY <1>4, <2>2
  <2> QED
    BY <1>2, <2>1, <2>2
<1> QED
  BY <1>1, <1>2, <1>3, <1>5

\* shares_prefix tells which keys have the prefix.
LEMMA SharesIs ==
  ASSUME Following, NEW k \in Key
  PROVE  SharesPrefix(bytes[k]) = {Shares(k)}
<1>1. PICK b, first : b = bytes[k] /\ first = bytes[KeyAt(1)]
  OBVIOUS
<1>2. b \in Seq(Byte) /\ prefix \in Nat /\ Count \in Nat
  BY <1>1, FollowFacts
<1>3. CASE prefix = 0
  BY <1>3 DEF SharesPrefix, Shares
<1>4. CASE prefix # 0
  <2>1. prefix > 0 /\ Count >= 1 /\ 1 \in 1..Count /\ Count # 0
    BY <1>2, <1>4, FollowFacts
  <2>2. first \in Seq(Byte) /\ prefix <= Len(first)
    BY <1>1, <2>1, FollowFacts DEF LanesFollow
  <2>3. Len(b) \in Nat /\ Len(first) \in Nat
    BY <1>2, <2>2, LenProperties
  <2>4. ~(Len(first) < prefix)
    BY <1>2, <2>2, <2>3
  <2>5. CASE Len(b) < prefix
    <3>1. SharesPrefix(bytes[k]) = {FALSE}
      BY <1>1, <1>4, <2>1, <2>5 DEF SharesPrefix
    <3>2. ~Shares(k)
      <4>1. ~(prefix <= Len(b))
        BY <1>2, <2>3, <2>5
      <4> QED
        BY <1>1, <1>4, <4>1 DEF Shares, Agree
    <3>3. Shares(k) = FALSE
      BY <3>2 DEF Shares, Agree
    <3> QED
      BY <3>1, <3>3
  <2>6. CASE ~(Len(b) < prefix)
    <3>1. SharesPrefix(bytes[k]) = {IsPrefix(SubSeq(b, 1, prefix), first)}
      BY <1>1, <1>4, <2>1, <2>4, <2>6 DEF SharesPrefix
    <3>2. PICK x : x = SubSeq(b, 1, prefix)
      OBVIOUS
    <3>3. prefix <= Len(b)
      BY <1>2, <2>3, <2>6
    <3>4. x \in Seq(Byte) /\ Len(x) = prefix /\ \A i \in 1..prefix : x[i] = b[i]
      BY <1>2, <3>2, <3>3, StartOf
    <3>5. IsPrefix(x, first) <=> \A i \in 1..prefix : b[i] = first[i]
      BY <2>2, <3>4, PrefixFacts
    <3>6. Shares(k) <=> \A i \in 1..prefix : b[i] = first[i]
      BY <1>1, <1>4, <2>2, <3>3 DEF Shares, Agree
    <3>7. Shares(k) = IsPrefix(x, first)
      BY <3>5, <3>6 DEF Shares, Agree, IsPrefix
    <3> QED
      BY <3>1, <3>2, <3>7
  <2> QED
    BY <2>5, <2>6
<1> QED
  BY <1>3, <1>4

\* Keys that have the prefix agree on it.
LEMMA SharersAgree ==
  ASSUME Following, NEW j \in Key, NEW k \in Key, Shares(j), Shares(k)
  PROVE  Agree(bytes[j], bytes[k], prefix)
<1>1. bytes[j] \in Seq(Byte) /\ bytes[k] \in Seq(Byte) /\ prefix \in Nat
  BY FollowFacts
<1>2. CASE prefix = 0
  <2>1. Len(bytes[j]) \in Nat /\ Len(bytes[k]) \in Nat
    BY <1>1, LenProperties
  <2> QED
    BY <1>2, <2>1 DEF Agree
<1>3. CASE prefix # 0
  BY <1>3, AgreeTogether DEF Shares
<1> QED
  BY <1>2, <1>3

\* They are the lowest of the node.
LEMMA SharersFirst ==
  ASSUME Following, NEW j \in Key, NEW k \in Key, j <= k, Shares(k),
         NEW r \in 1..Count, KeyAt(r) <= j
  PROVE  Shares(j)
<1>1. CASE prefix = 0
  BY <1>1 DEF Shares
<1>2. CASE prefix # 0
  <2>1. PICK f : f = KeyAt(1)
    OBVIOUS
  <2>2. /\ 1 \in 1..Count /\ 1 <= r /\ j \in Nat /\ k \in Nat
        /\ f \in Key /\ f \in Nat /\ KeyAt(r) \in Nat
    BY <2>1, FollowFacts, Sizes
  <2>3. f <= KeyAt(r)
    BY <2>1, <2>2, FollowFacts
  <2>4. f <= j
    BY <2>2, <2>3
  <2>5. NotAbove(bytes[f], bytes[j]) /\ NotAbove(bytes[j], bytes[k])
    BY <2>2, <2>4, FollowFacts, BytewiseOrder
  <2>6. Agree(bytes[f], bytes[k], prefix)
    BY <1>2, <2>1 DEF Shares
  <2>7. bytes[f] \in Seq(Byte) /\ bytes[j] \in Seq(Byte) /\ bytes[k] \in Seq(Byte) /\ prefix \in Nat
    BY <2>2, FollowFacts
  <2>8. Agree(bytes[f], bytes[j], prefix)
    BY <2>5, <2>6, <2>7, BetweenAgrees
  <2> QED
    BY <2>1, <2>8 DEF Shares
<1> QED
  BY <1>1, <1>2

SurrogateOf(k) == SurrogateAt(bytes[k], prefix)

LEMMA LaneIs ==
  ASSUME Following, NEW r \in 1..Count
  PROVE  /\ LaneAt(r) = IF Shares(KeyAt(r)) THEN SurrogateOf(KeyAt(r)) ELSE EmptyKey
         /\ LaneAt(r) \in Nat /\ EmptyKey \in Nat /\ LaneAt(r) <= EmptyKey
<1>1. order[r] \in 1..Count /\ KeyAt(r) \in Key
  BY FollowFacts
<1>2. LaneAt(r) = IF Shares(KeyAt(r)) THEN SurrogateOf(KeyAt(r)) ELSE EmptyKey
  BY <1>1, FollowFacts DEF LanesFollow, LaneAt, KeyAt, SurrogateOf
<1>3. bytes[KeyAt(r)] \in Seq(Byte) /\ prefix \in Nat
  BY <1>1, FollowFacts
<1>4. SurrogateOf(KeyAt(r)) \in Nat /\ EmptyKey \in Nat /\ SurrogateOf(KeyAt(r)) <= EmptyKey
  BY <1>3, SurrogateRange DEF SurrogateOf
<1> QED
  BY <1>2, <1>4

\* Where the comparator and the prefix let it, the surrogates follow the keys.
LEMMA SurrogatesFollow ==
  ASSUME Following, NEW j \in Key, NEW k \in Key, j <= k, Shares(j), Shares(k)
  PROVE  SurrogateOf(j) <= SurrogateOf(k)
<1>1. NotAbove(bytes[j], bytes[k])
  BY FollowFacts, BytewiseOrder
<1>2. Agree(bytes[j], bytes[k], prefix)
  BY SharersAgree
<1>3. bytes[j] \in Seq(Byte) /\ bytes[k] \in Seq(Byte) /\ prefix \in Nat
  BY FollowFacts
<1> QED
  BY <1>1, <1>2, <1>3, SurrogateOrder DEF SurrogateOf

LEMMA LanesAscend ==
  ASSUME Following, NEW q \in 1..Count, NEW r \in 1..Count, q <= r
  PROVE  LaneAt(q) <= LaneAt(r)
<1>1. KeyAt(q) \in Key /\ KeyAt(r) \in Key /\ KeyAt(q) <= KeyAt(r) /\ KeyAt(q) \in Nat
  BY FollowFacts
<1>2. CASE Shares(KeyAt(r))
  <2>1. KeyAt(q) <= KeyAt(q)
    BY <1>1
  <2>2. Shares(KeyAt(q))
    BY <1>1, <1>2, <2>1, SharersFirst
  <2>3. SurrogateOf(KeyAt(q)) <= SurrogateOf(KeyAt(r))
    BY <1>1, <1>2, <2>2, SurrogatesFollow
  <2> QED
    BY <1>2, <2>2, <2>3, LaneIs
<1>3. CASE ~Shares(KeyAt(r))
  <2>1. LaneAt(r) = EmptyKey
    BY <1>3, LaneIs
  <2> QED
    BY <2>1, LaneIs
<1> QED
  BY <1>2, <1>3

LEMMA FollowingChecksOut ==
  ASSUME Following, PrefixNotShort
  PROVE  CheckLanes
<1>1. SortedLanes
  <2> SUFFICES ASSUME NEW i \in 1..Count, NEW j \in 1..Count, i < j PROVE LaneAt(i) <= LaneAt(j)
    BY DEF SortedLanes
  <2>1. i <= j
    BY FollowFacts
  <2> QED
    BY <2>1, LanesAscend
<1>2. LanesOfKeys
  <2> SUFFICES ASSUME NEW s \in DOMAIN keys, NEW shares \in SharesPrefix(bytes[keys[s]])
               PROVE  IF shares THEN lanes[s] = SurrogateAt(bytes[keys[s]], prefix)
                      ELSE lanes[s] \in {0, EmptyKey}
    BY DEF LanesOfKeys
  <2>1. s \in 1..Count /\ keys[s] \in Key
    BY FollowFacts, NodeFacts DEF NodeSound
  <2>2. shares = Shares(keys[s])
    BY <2>1, SharesIs
  <2>3. lanes[s] = IF Shares(keys[s]) THEN SurrogateAt(bytes[keys[s]], prefix) ELSE EmptyKey
    BY <2>1, FollowFacts DEF LanesFollow
  <2> QED
    BY <2>2, <2>3
<1> QED
  BY <1>1, <1>2 DEF CheckLanes

\* Both kernels find the first lane that is not below.
LEMMA KernelsMeet ==
  ASSUME Following, NEW s \in Nat, NEW c \in Candidates(s)
  PROVE  /\ c \in 0..Count /\ (c = Count \/ LaneAt(c + 1) >= s)
         /\ \A r \in 1..Count : LaneAt(r) < s <=> r <= c
<1>1. Count \in Nat /\ NodeSound /\ \A r \in 1..Count : LaneAt(r) \in Nat
  BY FollowFacts, LaneIs
<1>2. PICK walk, w : walk = {r \in 0..Count : r = Count \/ LaneAt(r + 1) >= s} /\ w = Min(walk)
  OBVIOUS
<1>3. walk \in SUBSET Nat /\ Count \in walk
  BY <1>1, <1>2
<1>4. w \in walk /\ \A y \in walk : w <= y
  BY <1>2, <1>3, LeastExists
<1>5. w \in 0..Count /\ (w = Count \/ LaneAt(w + 1) >= s)
  BY <1>2, <1>4
<1>6. ASSUME NEW r \in 1..Count PROVE LaneAt(r) < s <=> r <= w
  <2>1. CASE r <= w
    <3>1. PICK t : t = r - 1
      OBVIOUS
    <3>2. t \in 0..Count /\ t + 1 = r /\ ~(w <= t) /\ t # Count
      BY <1>1, <1>5, <2>1, <3>1
    <3>3. ~(LaneAt(r) >= s)
      BY <1>2, <1>4, <3>2
    <3> QED
      BY <1>1, <2>1, <3>3
  <2>2. CASE ~(r <= w)
    <3>1. w + 1 \in 1..Count /\ w + 1 <= r /\ w # Count
      BY <1>1, <1>5, <2>2
    <3>2. LaneAt(w + 1) >= s /\ LaneAt(w + 1) <= LaneAt(r)
      BY <1>5, <3>1, LanesAscend
    <3>3. LaneAt(w + 1) \in Nat /\ LaneAt(r) \in Nat
      BY <1>1, <3>1
    <3> QED
      BY <2>2, <3>2, <3>3
  <2> QED
    BY <2>1, <2>2
<1>7. c = w
  <2>1. PICK below : below = {i \in DOMAIN lanes : lanes[i] < s}
    OBVIOUS
  <2>2. DOMAIN lanes = 1..Count /\ \A r \in 1..Count : order[r] \in 1..Count
    BY <1>1, NodeFacts
  <2>3. below \subseteq 1..Count /\ \A r \in 1..Count : order[r] \in below <=> r <= w
    BY <1>6, <2>1, <2>2 DEF LaneAt
  <2>4. Cardinality(below) = w
    BY <1>1, <1>5, <2>3, SlotsUpTo
  <2> QED
    BY <1>2, <2>1, <2>4 DEF Candidates
<1> QED
  BY <1>5, <1>6, <1>7

\* Past the ties it is the place.
LEMMA TiesEnd ==
  ASSUME Following, NEW k \in Key, Shares(k), NEW q, Place(k, q),
         NEW c \in Candidates(SurrogateOf(k))
  PROVE  PastTies(c, SurrogateOf(k), k) = q
<1>1. PICK s : s = SurrogateOf(k)
  OBVIOUS
<1>2. bytes[k] \in Seq(Byte) /\ prefix \in Nat /\ Count \in Nat /\ k \in Nat /\ NodeSound
  BY FollowFacts, Sizes
<1>3. s \in Nat
  BY <1>1, <1>2, SurrogateRange DEF SurrogateOf
<1>4. /\ c \in 0..Count /\ (c = Count \/ LaneAt(c + 1) >= s)
      /\ \A r \in 1..Count : LaneAt(r) < s <=> r <= c
  BY <1>1, <1>3, KernelsMeet
<1>5. q \in 0..Count /\ \A r \in 1..Count : KeyAt(r) < k <=> r <= q
  BY DEF Place
<1>6. ASSUME NEW r \in 1..Count, r <= q PROVE LaneAt(r) <= s
  <2>1. KeyAt(r) \in Key /\ KeyAt(r) \in Nat /\ KeyAt(r) < k
    BY <1>5, <1>6, FollowFacts
  <2>2. KeyAt(r) <= k /\ KeyAt(r) <= KeyAt(r)
    BY <1>2, <2>1
  <2>3. Shares(KeyAt(r))
    BY <2>1, <2>2, SharersFirst
  <2>4. SurrogateOf(KeyAt(r)) <= s
    BY <1>1, <2>1, <2>2, <2>3, SurrogatesFollow
  <2> QED
    BY <2>3, <2>4, LaneIs
<1>7. ASSUME NEW r \in 1..Count, ~(r <= q) PROVE LaneAt(r) >= s
  <2>1. KeyAt(r) \in Key /\ KeyAt(r) \in Nat /\ ~(KeyAt(r) < k)
    BY <1>5, <1>7, FollowFacts
  <2>2. k <= KeyAt(r)
    BY <1>2, <2>1
  <2>3. CASE Shares(KeyAt(r))
    <3>1. s <= SurrogateOf(KeyAt(r))
      BY <1>1, <2>1, <2>2, <2>3, SurrogatesFollow
    <3>2. LaneAt(r) = SurrogateOf(KeyAt(r)) /\ LaneAt(r) \in Nat
      BY <2>3, LaneIs
    <3> QED
      BY <1>3, <3>1, <3>2
  <2>4. CASE ~Shares(KeyAt(r))
    <3>1. LaneAt(r) = EmptyKey /\ EmptyKey \in Nat
      BY <2>4, LaneIs
    <3>2. s <= EmptyKey
      BY <1>1, <1>2, SurrogateRange DEF SurrogateOf
    <3> QED
      BY <1>3, <3>1, <3>2
  <2> QED
    BY <2>3, <2>4
<1>8. c <= q
  <2> SUFFICES ASSUME q < c PROVE FALSE
    BY <1>2, <1>4, <1>5
  <2>1. q + 1 \in 1..Count /\ ~(q + 1 <= q) /\ q + 1 <= c
    BY <1>2, <1>4, <1>5
  <2>2. LaneAt(q + 1) >= s /\ LaneAt(q + 1) < s /\ LaneAt(q + 1) \in Nat
    BY <1>4, <1>7, <2>1, LaneIs
  <2> QED
    BY <1>3, <2>2
<1>9. PICK ends, e : /\ ends = {t \in c..Count : t = Count \/ LaneAt(t + 1) # s \/ KeyAt(t + 1) >= k}
                     /\ e = Min(ends)
  OBVIOUS
<1>10. q \in ends
  <2>1. q \in c..Count
    BY <1>2, <1>4, <1>5, <1>8
  <2>2. ASSUME q # Count PROVE KeyAt(q + 1) >= k
    <3>1. q + 1 \in 1..Count /\ ~(q + 1 <= q)
      BY <1>2, <1>5, <2>2
    <3>2. ~(KeyAt(q + 1) < k) /\ KeyAt(q + 1) \in Nat
      BY <1>5, <3>1, FollowFacts
    <3> QED
      BY <1>2, <3>2
  <2> QED
    BY <1>9, <2>1, <2>2
<1>11. ASSUME NEW t \in ends PROVE q <= t
  <2>1. t \in c..Count /\ t \in Nat /\ (t = Count \/ LaneAt(t + 1) # s \/ KeyAt(t + 1) >= k)
    BY <1>4, <1>9
  <2> SUFFICES ASSUME t < q PROVE FALSE
    BY <1>5, <2>1
  <2>2. t + 1 \in 1..Count /\ t + 1 <= q /\ ~(t + 1 <= c) /\ t # Count
    BY <1>2, <1>4, <1>5, <2>1
  <2>3. KeyAt(t + 1) < k /\ KeyAt(t + 1) \in Nat
    BY <1>5, <2>2, FollowFacts
  <2>4. LaneAt(t + 1) <= s /\ ~(LaneAt(t + 1) < s) /\ LaneAt(t + 1) \in Nat
    BY <1>4, <1>6, <2>2, LaneIs
  <2>5. LaneAt(t + 1) = s /\ ~(KeyAt(t + 1) >= k)
    BY <1>2, <1>3, <2>3, <2>4
  <2> QED
    BY <2>1, <2>2, <2>5
<1>12. e \in ends /\ e <= q
  <2>1. ends \in SUBSET Nat
    BY <1>4, <1>9
  <2> QED
    BY <1>9, <1>10, <2>1, LeastExists
<1>13. e = q
  <2>1. e \in Nat /\ q \in Nat
    BY <1>4, <1>5, <1>9, <1>12
  <2> QED
    BY <1>11, <1>12, <2>1
<1> QED
  BY <1>1, <1>9, <1>13 DEF PastTies

LEMMA PlaceConfirmed ==
  ASSUME NodeSound, NEW k \in Key, NEW q, Place(k, q)
  PROVE  Confirmed(q, k)
<1>1. /\ Count \in Nat /\ k \in Nat /\ q \in 0..Count
      /\ \A r \in 1..Count : KeyAt(r) \in Nat /\ (KeyAt(r) < k <=> r <= q)
  BY NodeFacts, Sizes DEF Place
<1>2. q = 0 \/ KeyAt(q) < k
  <2> SUFFICES ASSUME q # 0 PROVE KeyAt(q) < k
    OBVIOUS
  <2>1. q \in 1..Count /\ q <= q
    BY <1>1
  <2> QED
    BY <1>1, <2>1
<1>3. q = Count \/ KeyAt(q + 1) >= k
  <2> SUFFICES ASSUME q # Count PROVE KeyAt(q + 1) >= k
    OBVIOUS
  <2>1. q + 1 \in 1..Count /\ ~(q + 1 <= q)
    BY <1>1
  <2> QED
    BY <1>1, <2>1
<1> QED
  BY <1>2, <1>3 DEF Confirmed

LEMMA FollowingConfirms == LanesSound => CandidateConfirms
<1> SUFFICES ASSUME LanesSound, Bytewise, head => prefix = 0, NEW k \in Key,
                    SharesPrefix(bytes[k]) = {TRUE},
                    NEW s, s = SurrogateAt(bytes[k], prefix), NEW c \in Candidates(s)
             PROVE  Confirmed(PastTies(c, s, k), k)
  BY DEF CandidateConfirms
<1>1. Following /\ NodeSound
  BY DEF Following, LanesSound
<1>2. Shares(k)
  BY <1>1, SharesIs
<1>3. PICK q : Place(k, q)
  BY <1>1, PlaceExists
<1>4. s = SurrogateOf(k)
  BY DEF SurrogateOf
<1>5. PastTies(c, s, k) = q
  BY <1>1, <1>2, <1>3, <1>4, TiesEnd
<1> QED
  BY <1>1, <1>3, <1>5, PlaceConfirmed

-----------------------------------------------------------------------------
(* It is kept.                                                             *)

LEMMA ReversedOrder ==
  ASSUME bytes \in [Key -> Seq(Byte)], Reversed, NEW j \in Key, NEW k \in Key, j <= k
  PROVE  NotAbove(bytes[k], bytes[j])
<1>1. j \in Nat /\ k \in Nat
  BY Sizes
<1>2. CASE j < k
  BY <1>2 DEF Reversed
<1>3. CASE j = k
  BY <1>3, AlikeNotAbove
<1> QED
  BY <1>1, <1>2, <1>3

\* The bytes of the keys from i to l, whichever way the comparator goes: what the
\* ends have in common, keys in between have too.
LEMMA InnerPrefix ==
  ASSUME bytes \in [Key -> Seq(Byte)], Bytewise \/ Reversed,
         NEW i \in Key, NEW j \in Key, NEW k \in Key, NEW l \in Key, i <= j, j <= k, k <= l
  PROVE  CommonPrefixLen(bytes[i], bytes[l]) <= CommonPrefixLen(bytes[j], bytes[k])
<1>1. PICK a, b, c, d : a = bytes[i] /\ b = bytes[j] /\ c = bytes[k] /\ d = bytes[l]
  OBVIOUS
<1>2. /\ a \in Seq(Byte) /\ b \in Seq(Byte) /\ c \in Seq(Byte) /\ d \in Seq(Byte)
      /\ i \in Nat /\ j \in Nat /\ k \in Nat /\ l \in Nat
  BY <1>1, Sizes
<1>3. PICK n : n = CommonPrefixLen(a, d)
  OBVIOUS
<1>4. n \in Nat /\ Agree(a, d, n)
  BY <1>2, <1>3, CommonPrefix
<1>5. Agree(b, c, n)
  <2>1. i <= l /\ i <= k /\ j <= l
    BY <1>2
  <2>2. CASE Bytewise
    <3>1. NotAbove(a, c) /\ NotAbove(c, d)
      BY <1>1, <2>1, <2>2, BytewiseOrder
    <3>2. Agree(a, c, n)
      BY <1>2, <1>4, <3>1, BetweenAgrees
    <3>3. NotAbove(a, b) /\ NotAbove(b, c)
      BY <1>1, <2>2, BytewiseOrder
    <3> QED
      BY <1>2, <1>4, <3>2, <3>3, BetweenAgrees
  <2>3. CASE Reversed
    <3>1. NotAbove(d, c) /\ NotAbove(c, a) /\ NotAbove(c, b) /\ NotAbove(b, a)
      BY <1>1, <2>1, <2>3, ReversedOrder
    <3>2. Agree(d, a, n)
      BY <1>4 DEF Agree
    <3>3. Agree(c, a, n)
      BY <1>2, <1>4, <3>1, <3>2, BetweenAgrees
    <3>4. Agree(c, b, n)
      BY <1>2, <1>4, <3>1, <3>3, BetweenAgrees
    <3> QED
      BY <3>4 DEF Agree
  <2> QED
    BY <2>2, <2>3
<1>6. n <= CommonPrefixLen(b, c)
  BY <1>2, <1>4, <1>5, CommonPrefix
<1> QED
  BY <1>1, <1>3, <1>6

\* fill, for any sorted run of two keys or more.
LEMMA FillFollows ==
  ASSUME NEW run \in Seq(Key), Len(run) <= Capacity, Len(run) >= 2, Ascends(run), Fill(run),
         bytes \in [Key -> Seq(Byte)], bytes' = bytes
  PROVE  LanesSound'
<1>1. NodeSound'
  BY FillKeeps
<1>2. PICK n, low, top : n = Len(run) /\ low = run[1] /\ top = run[n]
  OBVIOUS
<1>a. n \in Nat /\ n >= 2 /\ \A s \in 1..n : run[s] \in Key
  BY <1>2, LenProperties
<1>b. n \in 1..n /\ 1 \in 1..n
  BY <1>a
<1>3. /\ n \in Nat /\ n >= 2 /\ n \in 1..n /\ 1 \in 1..n
      /\ \A s \in 1..n : run[s] \in Key /\ run[s] \in Nat
      /\ low \in Key /\ top \in Key
  BY <1>2, <1>a, <1>b, Sizes
<1>4. /\ keys' = run /\ order' = [r \in 1..n |-> r]
      /\ prefix' = CommonPrefixLen(bytes[low], bytes[top])
      /\ lanes' = [s \in 1..n |-> SurrogateAt(bytes[run[s]], prefix')]
  BY <1>2, <1>3 DEF Fill, PrefixOf
<1>5. Len(order') = n /\ \A r \in 1..n : order'[r] = r
  BY <1>3, <1>4
<1>6. Count' = n /\ \A r \in 1..n : KeyAt(r)' = run[r]
  BY <1>4, <1>5 DEF Count, KeyAt
<1>7. prefix' \in Nat /\ Agree(bytes[low], bytes[top], prefix')
  BY <1>3, <1>4, CommonPrefix
<1>8. PrefixNotShort'
  <2>1. KeyAt(1)' = low /\ KeyAt(n)' = top
    BY <1>2, <1>3, <1>6
  <2>2. CommonPrefixLen(bytes[KeyAt(1)], bytes[KeyAt(Count)])' = CommonPrefixLen(bytes[low], bytes[top])
    BY <1>6, <2>1
  <2> QED
    BY <1>4, <1>7, <2>2 DEF PrefixNotShort
<1>9. ASSUME Bytewise PROVE LanesFollow'
  <2>1. KeyAt(1)' = low
    BY <1>2, <1>3, <1>6
  <2>2. prefix' <= Len(bytes[low])
    BY <1>7 DEF Agree
  <2>3. ASSUME NEW s \in 1..n
        PROVE  Agree(bytes[low], bytes[run[s]], prefix')
    <3>1. low <= run[s] /\ run[s] <= top
      <4>1. s = 1 \/ 1 < s
        BY <1>3
      <4>2. s = n \/ s < n
        BY <1>3
      <4>3. low <= run[s]
        BY <1>2, <1>3, <4>1 DEF Ascends
      <4>4. run[s] <= top
        BY <1>2, <1>3, <4>2 DEF Ascends
      <4> QED
        BY <4>3, <4>4
    <3>2. run[s] \in Key
      BY <1>3
    <3>3. NotAbove(bytes[low], bytes[run[s]]) /\ NotAbove(bytes[run[s]], bytes[top])
      BY <1>3, <1>9, <3>1, <3>2, BytewiseOrder
    <3>4. bytes[low] \in Seq(Byte) /\ bytes[run[s]] \in Seq(Byte) /\ bytes[top] \in Seq(Byte)
      BY <1>3, <3>2
    <3> QED
      BY <1>7, <3>3, <3>4, BetweenAgrees
  <2>4. ASSUME NEW s \in 1..n
        PROVE  Shares(keys[s])' /\ lanes'[s] = SurrogateAt(bytes[run[s]], prefix')
    <3>1. keys'[s] = run[s]
      BY <1>4
    <3>2. Shares(keys[s])'
      BY <2>1, <2>3, <3>1 DEF Shares
    <3> QED
      BY <1>4, <3>2
  <2>5. \A s \in 1..n : lanes'[s] = IF Shares(keys[s])' THEN SurrogateAt(bytes'[keys'[s]], prefix') ELSE EmptyKey
    BY <1>4, <2>4
  <2> QED
    BY <1>6, <2>1, <2>2, <2>5 DEF LanesFollow
<1>10. Bytewise' => Bytewise
  BY DEF Bytewise
<1>11. Count' >= 2
  BY <1>3, <1>6
<1> QED
  BY <1>1, <1>7, <1>8, <1>9, <1>10, <1>11 DEF LanesSound

\* An append widens the node's range, which shortens what its ends have in common.
LEMMA AppendWidens ==
  ASSUME LanesSound, NEW k \in Key, NEW p, Place(k, p), Count >= 2, Bytewise \/ Reversed
  PROVE  CommonPrefixLen(bytes[Merged(k, p)[1]], bytes[Merged(k, p)[Count + 1]])
           <= CommonPrefixLen(bytes[KeyAt(1)], bytes[KeyAt(Count)])
<1>1. PICK n, new, first, last : /\ n = Count /\ new = Merged(k, p)
                                 /\ first = KeyAt(1) /\ last = KeyAt(n)
  OBVIOUS
<1>2. NodeSound /\ bytes \in [Key -> Seq(Byte)]
  BY DEF LanesSound
<1>3. n \in Nat /\ 1 \in 1..n /\ n \in 1..n /\ 1 < n /\ 1 \in 1..(n + 1) /\ n + 1 \in 1..(n + 1)
  <2>1. n \in Nat
    BY <1>1, <1>2, NodeFacts, Sizes
  <2>2. n >= 2
    BY <1>1
  <2> QED
    BY <2>1, <2>2
<1>4. first \in Key /\ last \in Key /\ k \in Nat /\ first \in Nat /\ last \in Nat
  BY <1>1, <1>2, <1>3, NodeFacts, Sizes
<1>5. first <= last
  BY <1>1, <1>2, <1>3, NodeFacts DEF NodeSound, Ranked
<1>6. p \in 0..n /\ (first < k <=> 1 <= p) /\ (last < k <=> n <= p)
  BY <1>1, <1>3 DEF Place
<1>7. \A r \in 1..(n + 1) :
        new[r] = IF r <= p THEN KeyAt(r) ELSE IF r = p + 1 THEN k ELSE KeyAt(r - 1)
  BY <1>1, <1>2, MergedAscends
<1>8. new[1] \in Key /\ new[1] <= first
  <2>1. CASE 1 <= p
    BY <1>1, <1>3, <1>4, <1>7, <2>1
  <2>2. CASE ~(1 <= p)
    <3>1. 1 = p + 1
      BY <1>6, <2>2
    <3>2. new[1] = k
      BY <1>3, <1>7, <2>2, <3>1
    <3> QED
      BY <1>4, <1>6, <2>2, <3>2
  <2> QED
    BY <2>1, <2>2
<1>9. new[n + 1] \in Key /\ last <= new[n + 1]
  <2>1. CASE n <= p
    <3>1. n + 1 = p + 1 /\ ~(n + 1 <= p)
      BY <1>3, <1>6, <2>1
    <3>2. new[n + 1] = k
      BY <1>3, <1>7, <3>1
    <3> QED
      BY <1>4, <1>6, <2>1, <3>2
  <2>2. CASE ~(n <= p)
    <3>1. n + 1 # p + 1 /\ ~(n + 1 <= p) /\ n + 1 - 1 = n
      BY <1>3, <1>6, <2>2
    <3>2. new[n + 1] = last
      BY <1>1, <1>3, <1>7, <3>1
    <3> QED
      BY <1>4, <3>2
  <2> QED
    BY <2>1, <2>2
<1>10. CommonPrefixLen(bytes[new[1]], bytes[new[n + 1]]) <= CommonPrefixLen(bytes[first], bytes[last])
  BY <1>2, <1>4, <1>5, <1>8, <1>9, InnerPrefix
<1> QED
  BY <1>1, <1>10

LEMMA AppendFollows ==
  ASSUME LanesSound, NEW k \in Key, AppendKey(k)
  PROVE  LanesSound'
<1>1. NodeSound /\ bytes \in [Key -> Seq(Byte)] /\ prefix \in Nat
  BY DEF LanesSound
<1>2. NodeSound'
  BY <1>1, AppendKeeps
<1>3. PICK shares, p :
        /\ shares \in SharesPrefix(bytes[k]) /\ Place(k, p) /\ Count' = Count + 1
        /\ keys' = Append(keys, k) /\ lanes' = Append(lanes, LaneOf(k, p, shares))
        /\ \A r \in 1..(Count + 1) : KeyAt(r)' = Merged(k, p)[r]
  BY <1>1, AppendKeeps
<1>4. bytes' = bytes /\ prefix' = prefix /\ head' = head /\ high' = high /\ Belongs(k)
  BY DEF AppendKey
<1>5. PICK n : n = Count
  OBVIOUS
<1>6. n \in Nat /\ Len(keys) = n /\ Len(lanes) = n /\ keys \in Seq(Key) /\ lanes \in Seq(LaneValues)
  BY <1>1, <1>5, NodeFacts DEF NodeSound, Ranked, Count
<1>7. p \in 0..n /\ \A r \in 1..n : KeyAt(r) < k <=> r <= p
  BY <1>3, <1>5 DEF Place
<1>8. Filled' <=> Filled
  BY <1>4 DEF Filled
<1>9. Filled' => Count' >= 2
  BY <1>3, <1>5, <1>6, <1>8 DEF LanesSound
<1>10. (Bytewise' => Bytewise) /\ (Reversed' => Reversed)
  BY <1>4 DEF Bytewise, Reversed
<1>11. ASSUME Bytewise \/ Reversed PROVE PrefixNotShort'
  <2> SUFFICES ASSUME Filled
               PROVE  prefix' >= CommonPrefixLen(bytes[KeyAt(1)], bytes[KeyAt(Count)])'
    BY <1>8 DEF PrefixNotShort, Filled
  <2>1. Count >= 2 /\ Count > 1
    BY <1>5, <1>6 DEF LanesSound
  <2>2. prefix >= CommonPrefixLen(bytes[KeyAt(1)], bytes[KeyAt(Count)])
    BY <1>11, <2>1 DEF LanesSound, PrefixNotShort, Filled
  <2>3. PICK new, x, y : /\ new = Merged(k, p)
                         /\ x = CommonPrefixLen(bytes[KeyAt(1)], bytes[KeyAt(Count)])
                         /\ y = CommonPrefixLen(bytes[new[1]], bytes[new[n + 1]])
    OBVIOUS
  <2>4. y <= x
    BY <1>3, <1>5, <1>11, <2>1, <2>3, AppendWidens
  <2>5. 1 \in 1..(n + 1) /\ n + 1 \in 1..(n + 1) /\ 1 \in 1..n /\ n \in 1..n
    BY <1>5, <1>6, <2>1
  <2>6. KeyAt(1)' = new[1] /\ KeyAt(n + 1)' = new[n + 1]
    BY <1>3, <1>5, <2>3, <2>5
  <2>7. CommonPrefixLen(bytes[KeyAt(1)], bytes[KeyAt(Count)])' = y
    BY <1>3, <1>4, <1>5, <2>3, <2>6
  <2>8. x \in Nat
    <3>1. KeyAt(1) \in Key /\ KeyAt(n) \in Key
      BY <1>1, <1>5, <2>5, NodeFacts
    <3> QED
      BY <1>1, <1>5, <2>3, <3>1, CommonPrefix
  <2>9. y \in Nat
    <3>1. new \in Seq(Key) /\ Len(new) = n + 1
      BY <1>1, <1>3, <1>5, <2>3, MergedAscends
    <3>2. new[1] \in Key /\ new[n + 1] \in Key
      BY <2>5, <3>1
    <3> QED
      BY <1>1, <2>3, <3>2, CommonPrefix
  <2> QED
    BY <1>1, <1>4, <2>2, <2>3, <2>4, <2>7, <2>8, <2>9
<1>12. ASSUME Bytewise, head => prefix = 0 PROVE LanesFollow'
  <2>1. Following
    BY <1>12 DEF Following
  <2>2. shares = Shares(k)
    BY <1>3, <2>1, SharesIs
  <2>3. prefix > 0 => Count >= 1 /\ prefix <= Len(bytes[KeyAt(1)])
    BY <2>1, FollowFacts DEF LanesFollow
  <2>4. ASSUME prefix > 0 PROVE KeyAt(1)' = KeyAt(1) /\ (p = 0 => k = KeyAt(1))
    <3>1. 1 \in 1..n /\ 1 \in 1..(n + 1)
      BY <1>5, <1>6, <2>3, <2>4
    <3>2. KeyAt(1) \in Nat /\ k \in Nat
      BY <1>1, <1>5, <3>1, NodeFacts, Sizes
    <3>3. k >= KeyAt(1)
      BY <1>4, <1>12, <2>4 DEF Belongs
    <3>4. p = 0 => k = KeyAt(1)
      <4> SUFFICES ASSUME p = 0 PROVE k = KeyAt(1)
        OBVIOUS
      <4>1. ~(KeyAt(1) < k)
        BY <1>7, <3>1
      <4> QED
        BY <3>2, <3>3, <4>1
    <3>5. KeyAt(1)' = IF 1 <= p THEN KeyAt(1) ELSE IF 1 = p + 1 THEN k ELSE KeyAt(1 - 1)
      BY <1>1, <1>3, <1>5, <3>1, MergedAscends
    <3>6. CASE p = 0
      BY <3>4, <3>5, <3>6
    <3>7. CASE p # 0
      <4>1. 1 <= p
        BY <1>7, <3>7
      <4> QED
        BY <3>4, <3>5, <4>1
    <3> QED
      BY <3>6, <3>7
  <2>5. ASSUME NEW j \in Key PROVE (prefix' = 0 \/ Agree(bytes'[KeyAt(1)'], bytes'[j], prefix')) <=> Shares(j)
    <3>1. CASE prefix = 0
      BY <1>4, <3>1 DEF Shares
    <3>2. CASE prefix # 0
      <4>1. prefix > 0
        BY <1>1, <3>2
      <4> QED
        BY <1>4, <2>4, <4>1 DEF Shares
    <3> QED
      BY <3>1, <3>2
  <2>6. ~Shares(k) => LaneOf(k, p, shares) = EmptyKey
    <3> SUFFICES ASSUME ~Shares(k) PROVE LaneOf(k, p, shares) = EmptyKey
      OBVIOUS
    <3>1. prefix > 0
      BY <1>1 DEF Shares
    <3>2. p # 0
      <4> SUFFICES ASSUME p = 0 PROVE FALSE
        OBVIOUS
      <4>1. k = KeyAt(1)
        BY <2>4, <3>1
      <4>2. Agree(bytes[k], bytes[k], prefix)
        BY <2>3, <3>1, <4>1 DEF Agree
      <4> QED
        BY <4>1, <4>2 DEF Shares
    <3> QED
      BY <2>2, <3>2 DEF LaneOf
  <2>7. Shares(k) => LaneOf(k, p, shares) = SurrogateAt(bytes[k], prefix)
    BY <2>2 DEF LaneOf
  <2>8. \A s \in 1..n : lanes[s] = IF Shares(keys[s]) THEN SurrogateAt(bytes[keys[s]], prefix) ELSE EmptyKey
    BY <1>5, <2>1, FollowFacts DEF LanesFollow
  <2>9. ASSUME NEW s \in 1..(n + 1)
        PROVE  /\ keys'[s] \in Key
               /\ lanes'[s] = IF Shares(keys'[s]) THEN SurrogateAt(bytes[keys'[s]], prefix) ELSE EmptyKey
    <3>1. CASE s \in 1..n
      <4>1. keys'[s] = keys[s] /\ keys[s] \in Key /\ lanes'[s] = lanes[s]
        BY <1>3, <1>6, <3>1
      <4> QED
        BY <2>8, <3>1, <4>1
    <3>2. CASE s = n + 1
      <4>1. keys'[s] = k /\ lanes'[s] = LaneOf(k, p, shares)
        BY <1>3, <1>6, <3>2
      <4> QED
        BY <2>6, <2>7, <4>1
    <3> QED
      BY <1>6, <3>1, <3>2
  <2>10. \A s \in 1..(n + 1) :
           lanes'[s] = IF prefix' = 0 \/ Agree(bytes'[KeyAt(1)'], bytes'[keys'[s]], prefix')
                       THEN SurrogateAt(bytes'[keys'[s]], prefix') ELSE EmptyKey
    BY <1>4, <2>5, <2>9
  <2>11. prefix' > 0 => prefix' <= Len(bytes'[KeyAt(1)'])
    BY <1>4, <2>3, <2>4
  <2> QED
    BY <1>3, <1>5, <2>10, <2>11 DEF LanesFollow, Shares
<1> QED
  BY <1>1, <1>2, <1>4, <1>9, <1>10, <1>11, <1>12 DEF LanesSound

LEMMA SplitsFollow ==
  ASSUME LanesSound, NEW k \in Key, SplitLeft(k) \/ SplitRight(k)
  PROVE  LanesSound'
<1>1. NodeSound /\ bytes \in [Key -> Seq(Byte)] /\ bytes' = bytes
  BY DEF LanesSound, SplitLeft, SplitRight
<1>2. PICK shares, p, a, b :
        /\ p \in SortedPositions(k, shares) /\ Fill(SubSeq(Merged(k, p), a, b))
        /\ (a = 1 /\ b = Mid) \/ (a = Mid + 1 /\ b = Capacity + 1)
  BY DEF SplitLeft, SplitRight
<1>3. PICK new : new = Merged(k, p)
  OBVIOUS
<1>4. Place(k, p)
  BY <1>1, <1>2, PositionOf
<1>5. new \in Seq(Key) /\ Len(new) = Count + 1 /\ Ascends(new)
  BY <1>1, <1>3, <1>4, MergedAscends
<1>6. Count \in 0..Capacity /\ ~(Count < Capacity)
  BY <1>1, NodeFacts DEF SplitLeft, SplitRight, HasRoom
<1>7. Count = Capacity
  BY <1>6, Sizes
<1>8. a \in 1..Len(new) /\ b \in a..Len(new) /\ b - a + 1 <= Capacity /\ b - a + 1 >= 2
  <2>1. Mid \in Nat /\ Mid >= 2 /\ Mid + 1 <= Capacity /\ Capacity \in Nat /\ Capacity >= 3
    BY LanesAssumption DEF Mid
  <2>2. CASE a = 1 /\ b = Mid
    BY <1>5, <1>7, <2>1, <2>2
  <2>3. CASE a = Mid + 1 /\ b = Capacity + 1
    <3>1. Capacity + 1 - (Mid + 1) + 1 >= 2
      BY <2>1
    <3> QED
      BY <1>5, <1>7, <2>1, <2>3, <3>1
  <2> QED
    BY <1>2, <2>2, <2>3
<1>9. PICK half : half = SubSeq(new, a, b)
  OBVIOUS
<1>10. half \in Seq(Key) /\ Len(half) <= Capacity /\ Len(half) >= 2 /\ Ascends(half)
  BY <1>5, <1>8, <1>9, HalfAscends
<1>11. Fill(half)
  BY <1>2, <1>3, <1>9
<1> QED
  BY <1>1, <1>10, <1>11, FillFollows

\* The inductive invariant of the lanes holds, whichever way the comparator goes.
THEOREM LanesSoundHolds == Spec => []LanesSound
<1>1. Init => LanesSound
  <2> SUFFICES ASSUME Init PROVE LanesSound
    OBVIOUS
  <2>1. NodeSound
    BY Sizes DEF Init, NodeSound, Ranked
  <2>2. bytes \in [Key -> Seq(Byte)] /\ prefix = 0 /\ ~Filled /\ Count = 0
    BY LanesAssumption DEF Init, Filled, Count
  <2>3. PrefixNotShort /\ LanesFollow
    BY <2>2 DEF PrefixNotShort, LanesFollow
  <2> QED
    BY <2>1, <2>2, <2>3 DEF LanesSound
<1>2. LanesSound /\ [Next]_vars => LanesSound'
  <2> SUFFICES ASSUME LanesSound, [Next]_vars PROVE LanesSound'
    OBVIOUS
  <2>1. ASSUME NEW k \in Key, AppendKey(k) PROVE LanesSound'
    BY <2>1, AppendFollows
  <2>2. ASSUME NEW k \in Key, SplitLeft(k) \/ SplitRight(k) PROVE LanesSound'
    BY <2>2, SplitsFollow
  <2>3. CASE UNCHANGED vars
    <3>1. /\ bytes' = bytes /\ keys' = keys /\ order' = order /\ lanes' = lanes
          /\ prefix' = prefix /\ head' = head /\ high' = high
      BY <2>3 DEF vars
    <3>2. Count' = Count /\ (Bytewise' <=> Bytewise) /\ (Reversed' <=> Reversed) /\ (Filled' <=> Filled)
      BY <3>1 DEF Count, Bytewise, Reversed, Filled
    <3>3. NodeSound' <=> NodeSound
      BY <3>1 DEF NodeSound, Ranked, LaneValues, KeyAt
    <3>4. PrefixNotShort' <=> PrefixNotShort
      BY <3>1, <3>2 DEF PrefixNotShort, KeyAt
    <3>5. \A k : Shares(k)' <=> Shares(k)
      BY <3>1 DEF Shares, KeyAt
    <3>6. LanesFollow' <=> LanesFollow
      BY <3>1, <3>2, <3>5 DEF LanesFollow, KeyAt
    <3> QED
      BY <3>1, <3>2, <3>3, <3>4, <3>6 DEF LanesSound
  <2> QED
    BY <2>1, <2>2, <2>3 DEF Next
<1> QED
  BY <1>1, <1>2, PTL DEF Spec

\* LanesCheckOut: under a comparator that follows the bytes check_invariants finds
\* every lane in order and on the right alphabet, but in a head that has split;
\* the prefix is never too short, nor is it under a reverse comparator.
THEOREM LanesAreSound == Spec => []LanesCheckOut
<1>1. LanesSound => LanesCheckOut
  <2> SUFFICES ASSUME LanesSound PROVE LanesCheckOut
    OBVIOUS
  <2>1. Bytewise \/ Reversed => PrefixNotShort
    BY DEF LanesSound
  <2>2. Bytewise /\ (head => prefix = 0) => CheckLanes
    BY <2>1, FollowingChecksOut DEF Following
  <2> QED
    BY <2>1, <2>2 DEF LanesCheckOut
<1> QED
  BY <1>1, LanesSoundHolds, PTL

\* CandidateConfirms: in such a node the comparator confirms what any kernel finds
\* in the lanes, for every key that has the prefix: the binary search never runs.
THEOREM CandidatesConfirm == Spec => []CandidateConfirms
<1>1. LanesSound => CandidateConfirms
  BY FollowingConfirms
<1> QED
  BY <1>1, LanesSoundHolds, PTL

=============================================================================
