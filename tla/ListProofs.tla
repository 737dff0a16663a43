----------------------------- MODULE ListProofs -----------------------------
(***************************************************************************)
(* For every number of writers, every set of keys and every capacity and   *)
(* height: the level-0 list of Memtable stays sorted while writers append  *)
(* and split, the first key of a published node never changes, and an      *)
(* insert takes effect at one instant (ListInvariant has the inductive     *)
(* invariant).                                                             *)
(***************************************************************************)
EXTENDS MemtableProofs, ListInvariant

-----------------------------------------------------------------------------
(* Ascending runs of keys.                                                 *)

\* The first n keys of a run ascend; the keys there are among them; how many of
\* them are below k; and a position that has the keys below k before it.
Ascends(run, n) == \A i, j \in 1..n : i < j => run[i] < run[j]
Values(run, n) == {run[j] : j \in 1..n}
CountBelow(run, n, k) == Cardinality({r \in 1..n : run[r] < k})
Cuts(run, n, pos, k) ==
  /\ pos \in 0..n
  /\ \A r \in 1..n : IF r <= pos THEN run[r] < k ELSE k < run[r]

\* new is run, of n keys, with k after the first pos of them.
InsertedAt(new, run, n, pos, k) ==
  /\ \A j \in 1..pos : new[j] = run[j]
  /\ new[pos + 1] = k
  /\ \A j \in (pos + 1)..n : new[j + 1] = run[j]

\* The keys that an order word s names, in its order, when ks are the keys by slot.
Named(ks, s) == [r \in DOMAIN s |-> ks[s[r]]]

\* In an ascending run that k is not in, the keys below k are those up to the
\* position that counting them gives.
LEMMA CountingFindsPlace ==
  ASSUME NEW n \in Nat, NEW run, NEW k \in Nat,
         \A i \in 1..n : run[i] \in Nat /\ run[i] # k,
         Ascends(run, n), NEW pos, pos = CountBelow(run, n, k)
  PROVE  Cuts(run, n, pos, k)
<1> USE DEF Ascends
<1> DEFINE below == {r \in 1..n : run[r] < k}
<1>1. \A m \in Nat : IsFiniteSet(1..m) /\ Cardinality(1..m) = m
  <2>1. ASSUME NEW m \in Nat PROVE IsFiniteSet(1..m) /\ Cardinality(1..m) = m
    <3>1. 1 \in Int /\ m \in Int
      OBVIOUS
    <3>2. /\ IsFiniteSet(1..m)
          /\ Cardinality(1..m) = IF 1 > m THEN 0 ELSE m - 1 + 1
      BY <3>1, FS_Interval, Zenon
    <3> QED
      BY <3>2
  <2> QED
    BY <2>1
<1>2. below \in SUBSET (1..n) /\ IsFiniteSet(1..n)
  BY <1>1
<1>3. IsFiniteSet(below) /\ Cardinality(below) <= Cardinality(1..n)
  <2> HIDE DEF below
  <2> QED
    BY <1>2, FS_Subset
<1>4. pos = Cardinality(below)
  BY DEF CountBelow
<1>5. Cardinality(below) \in Nat
  <2> HIDE DEF below
  <2> QED
    BY <1>3, FS_CardinalityType
<1>6. pos \in 0..n
  BY <1>1, <1>3, <1>4, <1>5
<1>7. ASSUME NEW r \in 1..n, run[r] < k PROVE r <= pos
  <2>1. ASSUME NEW i \in 1..r PROVE i \in 1..n /\ run[i] < k
    <3>1. i \in 1..n /\ (i = r \/ i < r)
      OBVIOUS
    <3>2. run[i] \in Nat /\ run[r] \in Nat /\ (i < r => run[i] < run[r])
      BY <3>1
    <3> QED
      BY <1>7, <3>1, <3>2
  <2>2. 1..r \in SUBSET below
    BY <2>1
  <2>3. Cardinality(1..r) <= Cardinality(below)
    <3> HIDE DEF below
    <3> QED
      BY <1>3, <2>2, FS_Subset
  <2> QED
    BY <1>1, <1>4, <2>3
<1>8. ASSUME NEW r \in 1..n, ~(run[r] < k) PROVE k < run[r] /\ ~(r <= pos)
  <2>1. ASSUME NEW i \in below PROVE i \in 1..(r - 1)
    <3>1. i \in 1..n /\ run[i] < k /\ run[i] \in Nat /\ run[r] \in Nat
      OBVIOUS
    <3>2. r < i => run[r] < run[i]
      BY <3>1
    <3> QED
      BY <1>8, <3>1, <3>2
  <2>2. below \in SUBSET (1..(r - 1)) /\ r - 1 \in Nat
    BY <2>1
  <2>3. Cardinality(below) <= Cardinality(1..(r - 1))
    <3> HIDE DEF below
    <3> QED
      BY <1>1, <2>2, FS_Subset
  <2>4. Cardinality(1..(r - 1)) = r - 1
    BY <1>1, <2>2
  <2>5. k < run[r]
    BY <1>8
  <2> HIDE DEF below
  <2> QED
    BY <1>4, <1>5, <2>3, <2>4, <2>5
<1> QED
  BY <1>6, <1>7, <1>8 DEF Cuts

\* A key put at its place keeps a run ascending, and adds that key alone.
LEMMA InsertedRun ==
  ASSUME NEW n \in Nat, NEW run, NEW k \in Nat, NEW pos,
         \A i \in 1..n : run[i] \in Nat, Ascends(run, n), Cuts(run, n, pos, k),
         NEW new, InsertedAt(new, run, n, pos, k)
  PROVE  /\ Ascends(new, n + 1)
         /\ Values(new, n + 1) = Values(run, n) \union {k}
         /\ new[1] = IF pos = 0 THEN k ELSE run[1]
<1> USE DEF InsertedAt, Ascends, Cuts, Values
<1>1. ASSUME NEW j \in 1..(n + 1)
      PROVE  \/ j <= pos /\ j \in 1..n /\ new[j] = run[j]
             \/ j = pos + 1 /\ new[j] = k
             \/ j > pos + 1 /\ j - 1 \in 1..n /\ new[j] = run[j - 1]
  <2>1. CASE j <= pos
    BY <2>1
  <2>2. CASE j = pos + 1
    BY <2>2
  <2>3. CASE j > pos + 1
    <3>1. j - 1 \in (pos + 1)..n /\ (j - 1) + 1 = j
      BY <2>3
    <3> QED
      BY <2>3, <3>1
  <2> QED
    BY <2>1, <2>2, <2>3
<1>2. ASSUME NEW i \in 1..(n + 1), NEW j \in 1..(n + 1), i < j PROVE new[i] < new[j]
  <2>1. CASE j <= pos
    <3>1. i <= pos /\ i \in 1..n /\ j \in 1..n /\ new[i] = run[i] /\ new[j] = run[j]
      BY <1>1, <1>2, <2>1
    <3> QED
      BY <1>2, <3>1
  <2>2. CASE j = pos + 1
    <3>1. i <= pos /\ i \in 1..n /\ new[i] = run[i] /\ new[j] = k
      BY <1>1, <1>2, <2>2
    <3> QED
      BY <3>1
  <2>3. CASE j > pos + 1
    <3>1. j - 1 \in 1..n /\ ~(j - 1 <= pos) /\ new[j] = run[j - 1]
      BY <1>1, <2>3
    <3>2. k < run[j - 1] /\ run[j - 1] \in Nat
      BY <3>1
    <3>3. CASE i = pos + 1
      BY <3>1, <3>2, <3>3
    <3>4. CASE i > pos + 1
      <4>1. i - 1 \in 1..n /\ new[i] = run[i - 1] /\ i - 1 < j - 1
        BY <1>1, <1>2, <3>4
      <4> QED
        BY <3>1, <4>1
    <3>5. CASE i <= pos
      <4>1. i \in 1..n /\ new[i] = run[i] /\ i < j - 1
        BY <1>1, <2>3, <3>5
      <4> QED
        BY <3>1, <4>1
    <3> QED
      BY <3>3, <3>4, <3>5
  <2> QED
    BY <2>1, <2>2, <2>3
<1>3. ASSUME NEW j \in 1..(n + 1) PROVE new[j] = k \/ \E m \in 1..n : new[j] = run[m]
  BY <1>1
<1>4. ASSUME NEW m \in 1..n PROVE \E j \in 1..(n + 1) : new[j] = run[m]
  <2>1. CASE m <= pos
    <3>1. m \in 1..pos /\ m \in 1..(n + 1)
      BY <2>1
    <3> QED
      BY <3>1
  <2>2. CASE m > pos
    <3>1. m \in (pos + 1)..n /\ m + 1 \in 1..(n + 1)
      BY <2>2
    <3> QED
      BY <3>1
  <2> QED
    BY <2>1, <2>2
<1>5. pos + 1 \in 1..(n + 1)
  OBVIOUS
<1>6. {new[j] : j \in 1..(n + 1)} = {run[j] : j \in 1..n} \union {k}
  BY <1>3, <1>4, <1>5
<1>7. new[1] = IF pos = 0 THEN k ELSE run[1]
  BY <1>1
<1> QED
  BY <1>2, <1>6, <1>7

\* InsertAt, in these words.
LEMMA InsertAtInserts ==
  ASSUME NEW S, NEW s \in Seq(S), NEW i \in 1..(Len(s) + 1), NEW e \in S
  PROVE  /\ InsertAt(s, i, e) \in Seq(S) /\ Len(InsertAt(s, i, e)) = Len(s) + 1
         /\ InsertedAt(InsertAt(s, i, e), s, Len(s), i - 1, e)
<1>1. /\ InsertAt(s, i, e) \in Seq(S) /\ Len(InsertAt(s, i, e)) = Len(s) + 1
      /\ \A j \in 1..(i - 1) : InsertAt(s, i, e)[j] = s[j]
      /\ InsertAt(s, i, e)[i] = e
      /\ \A j \in i..Len(s) : InsertAt(s, i, e)[j + 1] = s[j]
  BY InsertAtProperties
<1>2. (i - 1) + 1 = i
  OBVIOUS
<1> QED
  BY <1>1, <1>2 DEF InsertedAt

-----------------------------------------------------------------------------
(* What a payload holds.                                                   *)

\* What Ownership says of one payload.
LEMMA PayloadFacts ==
  ASSUME Ownership, NEW p \in Payload
  PROVE  /\ order[p] \in Seq(Slot) /\ Len(order[p]) \in Nat /\ DOMAIN order[p] = 1..Len(order[p])
         /\ \A r \in 1..Len(order[p]) : keys[p][order[p][r]] \in Key
         /\ order[p] = <<>> <=> Len(order[p]) = 0
         /\ held[p] = {keys[p][order[p][r]] : r \in 1..Len(order[p])}
         /\ held[p] \subseteq Key /\ Key \subseteq Nat
         /\ order[p] = <<>> <=> held[p] = {}
         /\ first[p] = IF order[p] = <<>> THEN Null ELSE keys[p][order[p][1]]
<1>1. order[p] \in Seq(Slot) /\ Len(order[p]) \in Nat /\ DOMAIN order[p] = 1..Len(order[p])
  BY LenProperties DEF Ownership, TypeOK, Payload
<1>2. \A r \in 1..Len(order[p]) : keys[p][order[p][r]] \in Key
  BY <1>1 DEF Ownership, SlotsOK, KeyAt
<1>3. order[p] = <<>> <=> Len(order[p]) = 0
  BY <1>1
<1>4. held[p] = {keys[p][order[p][r]] : r \in 1..Len(order[p])}
  BY <1>1 DEF held, KeysOf, KeyAt
<1>5. order[p] = <<>> <=> held[p] = {}
  <2>1. Len(order[p]) = 0 <=> 1..Len(order[p]) = {}
    <3>1. Len(order[p]) # 0 => 1 \in 1..Len(order[p])
      BY <1>1
    <3> QED
      BY <3>1
  <2>2. held[p] = {} <=> 1..Len(order[p]) = {}
    BY <1>4
  <2> QED
    BY <1>3, <2>1, <2>2
<1>6. first[p] = IF order[p] = <<>> THEN Null ELSE keys[p][order[p][1]]
  BY DEF first, KeyAt
<1> QED
  BY <1>1, <1>2, <1>3, <1>4, <1>5, <1>6, SizeFacts

\* The first key of a payload that has one is its least.
LEMMA FirstIsLeast ==
  ASSUME Ownership, RunsAscend, NEW p \in Payload, order[p] # <<>>
  PROVE  first[p] \in held[p] /\ first[p] \in Key /\ \A k \in held[p] : first[p] <= k
<1> DEFINE n == Len(order[p])
           run == [r \in 1..n |-> keys[p][order[p][r]]]
<1>1. /\ n \in Nat /\ n # 0 /\ held[p] = {run[r] : r \in 1..n} /\ first[p] = run[1]
      /\ \A r \in 1..n : run[r] \in Key /\ run[r] \in Nat
  BY PayloadFacts
<1>2. \A r \in 1..n : 1 < r => run[1] < run[r]
  BY <1>1, PayloadFacts DEF RunsAscend, KeyAt
<1> HIDE DEF n, run
<1> QED
  BY <1>1, <1>2

\* A step that leaves the order words and the slots they name leaves what
\* payloads hold.
LEMMA HeldStays ==
  ASSUME Ownership, RunsAscend, order' = order,
         \A p \in Payload : \A r \in DOMAIN order[p] :
           keys'[p][order[p][r]] = keys[p][order[p][r]]
  PROVE  Payload' = Payload /\ held' = held /\ first' = first /\ RunsAscend'
<1>1. Payload' = Payload
  BY DEF Payload
<1>2. \A p \in Payload : held'[p] = held[p]
  BY <1>1 DEF held, KeysOf, KeyAt
<1>3. \A p \in Payload : first'[p] = first[p]
  <2>1. ASSUME NEW p \in Payload, order[p] # <<>> PROVE first'[p] = first[p]
    <3>1. 1 \in DOMAIN order[p]
      BY <2>1, PayloadFacts
    <3> QED
      BY <1>1, <3>1 DEF first, KeyAt
  <2> QED
    BY <1>1, <2>1 DEF first
<1>4. held' = held /\ first' = first
  BY <1>1, <1>2, <1>3 DEF held, first
<1>5. RunsAscend'
  BY <1>1 DEF RunsAscend, KeyAt
<1> QED
  BY <1>1, <1>4, <1>5

-----------------------------------------------------------------------------
(* ListOrder is inductive: the steps that change no payload's keys.        *)

\* A step that leaves the order words, the links of level 0 and what nodes hold,
\* and puts no key at risk.
LEMMA QuietStep ==
  ASSUME ListSound, NEW w \in Writer, NEW l, NEW x,
         pc' = [pc EXCEPT ![w] = l], loc' = [loc EXCEPT ![w] = x],
         UNCHANGED <<order, next, data>>, started \subseteq started',
         \A p \in Payload : \A r \in DOMAIN order[p] :
           keys'[p][order[p][r]] = keys[p][order[p][r]],
         l \in Pending => \/ pc[w] \in Pending /\ x.key = loc[w].key
                          \/ x.key \in started' \ started,
         l \in Building <=> pc[w] \in Building,
         l \in Building => x = loc[w],
         l \in Splitting => pc[w] \in Splitting /\ x.sib = loc[w].sib,
         l # "idle" => \A v \in Writer \ {w} : pc[v] \in Building => x.cur # loc[v].sib,
         \A n \in Node, k \in Level :
           /\ tower'[n][k] # HeadNode
           /\ \A v \in Writer : pc[v] \in Building => tower'[n][k] # loc[v].sib,
         \A n \in Node \ {HeadNode} : hint'[n] = Hint[first[data[n]]],
         l \in Pending =>
           /\ x.cur # HeadNode => first[data[x.cur]] < x.key
           /\ l \in Working /\ next[x.d] # Null => x.key < first[data[next[x.d]]]
           /\ l = "hint" => x.cur = HeadNode
  PROVE  ListOrder'
<1>1. /\ pc'[w] = l /\ loc'[w] = x
      /\ \A v \in Writer \ {w} : pc'[v] = pc[v] /\ loc'[v] = loc[v]
  BY DEF ListSound, Ownership, TypeOK
<1>2. Payload' = Payload /\ held' = held /\ first' = first /\ RunsAscend' /\ Node' = Node
  BY HeldStays DEF ListSound, ListOrder, Node
<1>3. \A v \in Writer : pc'[v] \in Building <=> pc[v] \in Building
  BY <1>1
<1>4. \A v \in Writer : pc[v] \in Building => loc'[v] = loc[v]
  BY <1>1
<1>5. KeysFresh'
  <2>1. \A p \in Payload : held[p] \subseteq started'
    BY DEF ListSound, ListOrder, KeysFresh
  <2>2. ASSUME NEW v \in Writer, pc'[v] \in Pending
        PROVE  \/ pc[v] \in Pending /\ loc'[v].key = loc[v].key
               \/ v = w /\ loc'[v].key \in started' \ started
    BY <1>1, <2>2
  <2>3. ASSUME NEW v \in Writer, pc'[v] \in Pending PROVE loc'[v].key \in started'
    BY <2>2, <2>3 DEF ListSound, ListOrder, KeysFresh
  <2>4. ASSUME NEW v \in Writer, NEW u \in Writer, pc'[v] \in Pending, pc'[u] \in Pending,
               loc'[u].key = loc'[v].key
        PROVE  u = v
    BY <2>2, <2>4 DEF ListSound, ListOrder, KeysFresh
  <2>5. ASSUME NEW v \in Writer, pc'[v] \in Pending, NEW p \in Payload, loc'[v].key \in held[p]
        PROVE  pc'[v] \in Building /\ p \in {loc'[v].left, loc'[v].right}
    <3>1. pc[v] \in Pending /\ loc'[v].key = loc[v].key
      BY <2>2, <2>5 DEF ListSound, ListOrder, KeysFresh
    <3>2. pc[v] \in Building /\ p \in {loc[v].left, loc[v].right}
      BY <2>5, <3>1 DEF ListSound, ListOrder, KeysFresh
    <3> QED
      BY <1>3, <1>4, <3>2
  <2> QED
    BY <1>2, <2>1, <2>3, <2>4, <2>5 DEF KeysFresh, Pending, Building, Working
<1>6. SiblingsHidden'
  <2> SUFFICES ASSUME NEW v \in Writer, pc[v] \in Building
               PROVE  /\ data[loc[v].sib] = loc[v].right
                      /\ \A p \in Payload : next[p] = loc[v].sib => p = loc[v].left
                      /\ \A n \in Node, k \in Level : tower'[n][k] # loc[v].sib
                      /\ \A u \in Writer :
                           /\ pc'[u] # "idle" => loc'[u].cur # loc[v].sib
                           /\ pc'[u] \in Splitting /\ loc'[u].sib = loc[v].sib => u = v
    BY <1>2, <1>3, <1>4 DEF SiblingsHidden, Building, Splitting, Level, Linking
  <2>1. /\ data[loc[v].sib] = loc[v].right
        /\ \A p \in Payload : next[p] = loc[v].sib => p = loc[v].left
        /\ \A u \in Writer :
             /\ pc[u] # "idle" => loc[u].cur # loc[v].sib
             /\ pc[u] \in Splitting /\ loc[u].sib = loc[v].sib => u = v
    BY DEF ListSound, ListOrder, SiblingsHidden
  <2>2. ASSUME NEW u \in Writer, pc'[u] # "idle" PROVE loc'[u].cur # loc[v].sib
    <3>1. CASE u # w
      BY <1>1, <2>1, <2>2, <3>1
    <3>2. CASE u = w /\ v # w
      BY <1>1, <2>2, <3>2
    <3>3. CASE u = w /\ v = w
      BY <1>4, <2>1, <3>3 DEF Building
    <3> QED
      BY <3>1, <3>2, <3>3
  <2>3. ASSUME NEW u \in Writer, pc'[u] \in Splitting, loc'[u].sib = loc[v].sib PROVE u = v
    BY <1>1, <2>1, <2>3
  <2> QED
    BY <2>1, <2>2, <2>3
<1>7. LinksForward'
  <2>1. \A v \in Writer : pc'[v] \in Splitting => loc'[v].sib # HeadNode
    BY <1>1 DEF ListSound, ListOrder, LinksForward
  <2> QED
    BY <1>2, <2>1 DEF ListSound, ListOrder, LinksForward, Splitting, Building, Linking, Level
<1>8. HintsFollow'
  BY <1>2 DEF HintsFollow
<1>9. WritersPlaced'
  <2>1. ASSUME NEW v \in Writer, pc'[v] \in Pending
        PROVE  /\ loc'[v].cur # HeadNode => first[data[loc'[v].cur]] < loc'[v].key
               /\ pc'[v] \in Working /\ next[loc'[v].d] # Null =>
                    loc'[v].key < first[data[next[loc'[v].d]]]
               /\ pc'[v] = "hint" => loc'[v].cur = HeadNode
    <3>1. CASE v = w
      BY <1>1, <2>1, <3>1
    <3>2. CASE v # w
      <4>1. pc'[v] = pc[v] /\ loc'[v] = loc[v]
        BY <1>1, <3>2
      <4> QED
        BY <2>1, <4>1, Zenon DEF ListSound, ListOrder, WritersPlaced
    <3> QED
      BY <3>1, <3>2
  <2> QED
    BY <1>2, <2>1 DEF WritersPlaced, Pending, Working
<1>10. HalvesOK'
  <2>1. \A v \in Writer : pc'[v] \in Building => pc[v] \in Building /\ loc'[v] = loc[v]
    BY <1>3, <1>4
  <2>2. HalvesOK /\ held' = held
    BY <1>2 DEF ListSound, ListOrder
  <2>3. order' = order /\ next' = next
    OBVIOUS
  <2> QED
    BY <2>1, <2>2, <2>3 DEF HalvesOK
<1>11. NodesDisjoint'
  <2>1. Linked' = Linked
    BY <1>2, <1>3, <1>4 DEF Linked, Building
  <2> QED
    BY <1>2, <2>1 DEF ListSound, ListOrder, NodesDisjoint
<1> QED
  BY <1>2, <1>5, <1>6, <1>7, <1>8, <1>9, <1>10, <1>11 DEF ListOrder

\* A step that leaves tower links and hints leaves them in order.
LEMMA IndexStays ==
  ASSUME ListSound, UNCHANGED <<tower, hint>>
  PROVE  /\ \A n \in Node, k \in Level :
              /\ tower'[n][k] # HeadNode
              /\ \A v \in Writer : pc[v] \in Building => tower'[n][k] # loc[v].sib
         /\ \A n \in Node \ {HeadNode} : hint'[n] = Hint[first[data[n]]]
BY DEF ListSound, ListOrder, LinksForward, SiblingsHidden, HintsFollow

\* The answer of a hint never contradicts the keys: a node other than the head
\* starts at or below k exactly if its first key does.
LEMMA StartsMeansFirst ==
  ASSUME ListSound, NEW n \in Node \ {HeadNode}, NEW k \in Key
  PROVE  /\ StartsAtOrBelow(n, k) <=> first[data[n]] <= k
         /\ first[data[n]] \in Key /\ FirstKey(n) = first[data[n]]
<1>1. data[n] \in Payload /\ order[data[n]] # <<>> /\ hint[n] = Hint[first[data[n]]]
  BY DEF ListSound, ListOrder, LinksForward, HintsFollow, Ownership, PointersOK
<1>2. first[data[n]] = FirstKey(n) /\ first[data[n]] \in Key
  <2>1. first[data[n]] \in Key
    BY <1>1, FirstIsLeast DEF ListSound, ListOrder
  <2>2. first[data[n]] = KeyAt(data[n], order[data[n]], 1)
    BY <1>1 DEF first
  <2> QED
    BY <2>1, <2>2 DEF FirstKey
<1>3. CASE HintOrdering /\ hint[n] # Hint[k]
  <2>1. Hint[k] \in Nat /\ hint[n] \in Nat /\ k \in Nat /\ first[data[n]] \in Nat
    BY <1>1, <1>2, SizeFacts, HintAssumption
  <2>2. first[data[n]] < k => hint[n] <= Hint[k]
    BY <1>1, <1>2, <1>3, HintAssumption
  <2>3. k < first[data[n]] => Hint[k] <= hint[n]
    BY <1>1, <1>2, <1>3, HintAssumption
  <2>4. k # first[data[n]]
    BY <1>1, <1>3
  <2>5. StartsAtOrBelow(n, k) <=> hint[n] < Hint[k]
    BY <1>3 DEF StartsAtOrBelow
  <2> QED
    BY <1>2, <1>3, <2>1, <2>2, <2>3, <2>4, <2>5
<1>4. CASE ~(HintOrdering /\ hint[n] # Hint[k])
  BY <1>1, <1>2, <1>4 DEF StartsAtOrBelow
<1> QED
  BY <1>2, <1>3, <1>4

\* A call begins with a key nobody has.
LEMMA InsertList ==
  ASSUME ListSound, NEW w \in Writer, NEW k \in Key, Insert(w, k)
  PROVE  ListOrder'
<1> DEFINE x == Descending(k)
<1>1. /\ x.cur = HeadNode /\ x.key = k
  BY DescendingIsLocal
<1>2. /\ pc' = [pc EXCEPT ![w] = "descend"] /\ loc' = [loc EXCEPT ![w] = x]
      /\ UNCHANGED <<keys, order, next, data, tower, hint>>
      /\ started' = started \union {k} /\ k \notin started /\ pc[w] \notin Building
  BY DEF Insert, Goto, payloadVars, nodeVars, NoCall, Building
<1> HIDE DEF x
<1>3. \A v \in Writer : pc[v] \in Building => loc[v].sib # HeadNode
  BY DEF ListSound, ListOrder, LinksForward, Splitting, Building
<1> QED
  BY <1>1, <1>2, <1>3, IndexStays, QuietStep DEF Building, Linking, Splitting, Pending, Working

\* A descent moves to a node that begins at or below its key: below, as nobody
\* has the key.
LEMMA HopForwardList ==
  ASSUME ListSound, NEW w \in Writer, HopForward(w)
  PROVE  ListOrder'
<1> DEFINE nx == LinkOf(loc[w].cur, loc[w].lv)
           x == [loc[w] EXCEPT !.cur = nx]
<1>1. /\ loc[w] \in Local /\ pc[w] = "descend" /\ nx # Null
      /\ loc[w].cur \in Node /\ loc[w].key \in Key /\ loc[w].lv \in 0..(MaxHeight - 1)
      /\ StartsAtOrBelow(nx, loc[w].key)
  BY DEF ListSound, Ownership, TypeOK, LocalOK, HopForward, MayHop, Local
<1>2. nx \in Node \ {HeadNode}
  BY <1>1, SizeFacts DEF ListSound, ListOrder, LinksForward, Ownership, PointersOK, LinkOf, Level
<1>3. ASSUME NEW v \in Writer, pc[v] \in Building PROVE nx # loc[v].sib
  <2>1. data[loc[w].cur] # loc[v].left /\ data[loc[w].cur] \in Payload
    BY <1>1, <1>3 DEF ListSound, Ownership, PayloadsOK, PointersOK
  <2>2. next[data[loc[w].cur]] # loc[v].sib
    BY <1>3, <2>1 DEF ListSound, ListOrder, SiblingsHidden
  <2>3. loc[w].lv \in Level => tower[loc[w].cur][loc[w].lv] # loc[v].sib
    BY <1>1, <1>3 DEF ListSound, ListOrder, SiblingsHidden
  <2> QED
    BY <1>1, <2>2, <2>3, SizeFacts DEF LinkOf, Level
<1>4. x \in Local /\ x.cur = nx /\ x.key = loc[w].key
  <2>1. nx \in Nat
    BY <1>2 DEF Node
  <2> HIDE DEF nx
  <2> QED
    BY <1>1, <2>1, UpdateCur
<1>5. /\ pc' = [pc EXCEPT ![w] = "descend"] /\ loc' = [loc EXCEPT ![w] = x]
      /\ UNCHANGED <<keys, order, next, data, tower, hint, started>>
  BY <1>1 DEF HopForward, payloadVars, nodeVars, ListSound, Ownership, TypeOK
<1> HIDE DEF x, nx
<1>6. first[data[nx]] < loc[w].key
  <2>1. first[data[nx]] <= loc[w].key /\ first[data[nx]] \in Key
    BY <1>1, <1>2, StartsMeansFirst
  <2>2. first[data[nx]] \in held[data[nx]] /\ data[nx] \in Payload
    BY <1>2, FirstIsLeast DEF ListSound, ListOrder, LinksForward, Ownership, PointersOK
  <2>3. loc[w].key \notin held[data[nx]]
    BY <1>1, <2>2 DEF ListSound, ListOrder, KeysFresh, Pending, Building
  <2>4. loc[w].key \in Nat /\ first[data[nx]] \in Nat
    BY <1>1, <2>1, SizeFacts
  <2> QED
    BY <2>1, <2>2, <2>3, <2>4
<1> QED
  BY <1>1, <1>3, <1>4, <1>5, <1>6, IndexStays, QuietStep
     DEF Building, Linking, Splitting, Pending, Working

\* A pointer a call holds names no sibling in the making.
LEMMA CurNotHidden ==
  ASSUME ListSound, NEW w \in Writer, pc[w] # "idle"
  PROVE  \A v \in Writer : pc[v] \in Building => loc[w].cur # loc[v].sib
BY DEF ListSound, ListOrder, SiblingsHidden

\* A descent drops a level or ends, or a free lock is taken: the call stays where
\* it is placed.
LEMMA StayList ==
  ASSUME ListSound, NEW w \in Writer, HopDown(w) \/ Arrive(w) \/ Acquire(w)
  PROVE  ListOrder'
<1>1. /\ loc[w] \in Local /\ pc[w] \in {"descend", "lock"}
      /\ HopDown(w) => loc[w].lv - 1 \in 0..(MaxHeight - 1)
  <2>1. loc[w] \in Local /\ pc[w] \in {"descend", "lock"} /\ (HopDown(w) => loc[w].lv > 0)
    BY DEF ListSound, Ownership, TypeOK, HopDown, Arrive, Acquire
  <2>2. loc[w].lv \in 0..(MaxHeight - 1)
    BY <2>1 DEF Local
  <2> QED
    BY <2>1, <2>2, SizeFacts
<1>2. PICK l \in {"descend", "lock", "check"}, x \in Local :
        /\ pc' = [pc EXCEPT ![w] = l] /\ loc' = [loc EXCEPT ![w] = x]
        /\ x.cur = loc[w].cur /\ x.key = loc[w].key
  <2>1. CASE HopDown(w)
    <3> DEFINE x == [loc[w] EXCEPT !.lv = loc[w].lv - 1]
    <3>1. x \in Local /\ x.cur = loc[w].cur /\ x.key = loc[w].key
      BY <1>1, <2>1, UpdateLv
    <3>2. pc' = [pc EXCEPT ![w] = "descend"] /\ loc' = [loc EXCEPT ![w] = x]
      BY <2>1 DEF HopDown, ListSound, Ownership, TypeOK
    <3> HIDE DEF x
    <3> QED
      BY <3>1, <3>2
  <2>2. CASE Arrive(w)
    <3>1. pc' = [pc EXCEPT ![w] = "lock"] /\ loc' = [loc EXCEPT ![w] = loc[w]]
      BY <2>2 DEF Arrive, Goto, ListSound, Ownership, TypeOK
    <3> QED
      BY <1>1, <3>1
  <2>3. CASE Acquire(w)
    <3>1. pc' = [pc EXCEPT ![w] = "check"] /\ loc' = [loc EXCEPT ![w] = loc[w]]
      BY <2>3 DEF Acquire, Goto, ListSound, Ownership, TypeOK
    <3> QED
      BY <1>1, <3>1
  <2> QED
    BY <2>1, <2>2, <2>3
<1>3. UNCHANGED <<keys, order, next, data, tower, hint, started>>
  BY DEF HopDown, Arrive, Acquire, payloadVars, nodeVars
<1>4. loc[w].cur # HeadNode => first[data[loc[w].cur]] < loc[w].key
  BY <1>1 DEF ListSound, ListOrder, WritersPlaced, Pending
<1>5. \A v \in Writer : pc[v] \in Building => loc[w].cur # loc[v].sib
  BY <1>1, CurNotHidden
<1>6. pc[w] \in Pending /\ pc[w] \notin Building /\ l \in Pending
      /\ l \notin Working /\ l \notin Building /\ l \notin Splitting /\ l # "hint"
  BY <1>1, <1>2 DEF Pending, Building, Working, Splitting, Linking
<1> QED
  BY <1>2, <1>3, <1>4, <1>5, <1>6, IndexStays, QuietStep

\* A descent starts again at the head.
LEMMA BackoutList ==
  ASSUME ListSound, NEW w \in Writer, Backout(w)
  PROVE  ListOrder'
<1> DEFINE x == Descending(loc[w].key)
<1>1. pc[w] = "check" /\ loc[w].key \in Key
  BY DEF ListSound, Ownership, LocalOK, Backout
<1>2. x.cur = HeadNode /\ x.key = loc[w].key
  BY <1>1, DescendingIsLocal
<1>3. /\ pc' = [pc EXCEPT ![w] = "descend"] /\ loc' = [loc EXCEPT ![w] = x]
      /\ UNCHANGED <<keys, order, next, data, tower, hint, started>>
  BY DEF Backout, Release, Goto, payloadVars
<1> HIDE DEF x
<1>4. \A v \in Writer : pc[v] \in Building => loc[v].sib # HeadNode
  BY DEF ListSound, ListOrder, LinksForward, Splitting, Building
<1> QED
  BY <1>1, <1>2, <1>3, <1>4, IndexStays, QuietStep
     DEF Building, Linking, Splitting, Pending, Working

\* Under the lock the next node is seen to begin above the key.
LEMMA AdmitList ==
  ASSUME ListSound, NEW w \in Writer, Admit(w)
  PROVE  ListOrder'
<1> DEFINE d == data[loc[w].cur]
           x == [loc[w] EXCEPT !.d = d]
<1>1. /\ loc[w] \in Local /\ pc[w] = "check" /\ loc[w].cur \in Node /\ loc[w].key \in Key
      /\ d \in Payload /\ BelongsHere(d, loc[w].key)
  BY DEF ListSound, Ownership, TypeOK, PointersOK, LocalOK, Admit
<1>2. x.d = d /\ x.cur = loc[w].cur /\ x.key = loc[w].key
  <2>1. d \in Nat
    BY <1>1 DEF Payload
  <2> HIDE DEF d
  <2> QED
    BY <1>1, <2>1, UpdateD
<1>3. PICK l \in {"slot", "split"} : pc' = [pc EXCEPT ![w] = l]
  BY DEF Admit, Goto
<1>4. /\ loc' = [loc EXCEPT ![w] = x]
      /\ UNCHANGED <<keys, order, next, data, tower, hint, started>>
  BY DEF Admit, payloadVars, nodeVars
<1>5. next[d] # Null => loc[w].key < first[data[next[d]]]
  <2> SUFFICES ASSUME next[d] # Null PROVE loc[w].key < first[data[next[d]]]
    OBVIOUS
  <2>1. next[d] \in Node \ {HeadNode}
    BY <1>1 DEF ListSound, ListOrder, LinksForward, Ownership, PointersOK
  <2>2. order[data[next[d]]] # <<>>
    BY <2>1 DEF ListSound, ListOrder, LinksForward
  <2>3. FirstKey(next[d]) > loc[w].key
    BY <1>1, <2>2 DEF BelongsHere
  <2>4. FirstKey(next[d]) = first[data[next[d]]] /\ first[data[next[d]]] \in Key
    BY <1>1, <2>1, StartsMeansFirst
  <2> QED
    BY <1>1, <2>3, <2>4, SizeFacts
<1>6. loc[w].cur # HeadNode => first[data[loc[w].cur]] < loc[w].key
  BY <1>1 DEF ListSound, ListOrder, WritersPlaced, Pending
<1>7. \A v \in Writer : pc[v] \in Building => loc[w].cur # loc[v].sib
  BY <1>1, CurNotHidden
<1>8. pc[w] \in Pending /\ pc[w] \notin Building /\ l \notin Building /\ l \notin Splitting
      /\ l # "hint"
  BY <1>1 DEF Pending, Building, Splitting, Linking
<1> HIDE DEF x, d
<1> QED
  BY <1>2, <1>3, <1>4, <1>5, <1>6, <1>7, <1>8, IndexStays, QuietStep

\* The same in terms of the run of keys that the order word names.
LEMMA RunFacts ==
  ASSUME Ownership, RunsAscend, NEW p \in Payload, NEW n, n = Len(order[p]),
         NEW run, run = Named(keys[p], order[p])
  PROVE  /\ n \in Nat /\ \A r \in 1..n : run[r] \in Key /\ run[r] \in Nat
         /\ Ascends(run, n) /\ held[p] = Values(run, n)
         /\ order[p] = <<>> <=> n = 0
         /\ first[p] = IF n = 0 THEN Null ELSE run[1]
<1>1. /\ n \in Nat /\ DOMAIN order[p] = 1..n
      /\ \A r \in 1..n : keys[p][order[p][r]] \in Key
      /\ order[p] = <<>> <=> n = 0
      /\ held[p] = {keys[p][order[p][r]] : r \in 1..n}
      /\ first[p] = IF order[p] = <<>> THEN Null ELSE keys[p][order[p][1]]
  BY PayloadFacts
<1>2. \A r \in 1..n : run[r] = keys[p][order[p][r]]
  BY <1>1 DEF Named
<1>3. \A r \in 1..n : run[r] \in Key /\ run[r] \in Nat
  BY <1>1, <1>2, SizeFacts
<1>4. Ascends(run, n)
  BY <1>1, <1>2 DEF RunsAscend, KeyAt, Ascends
<1>5. held[p] = Values(run, n)
  BY <1>1, <1>2 DEF Values
<1>6. first[p] = IF n = 0 THEN Null ELSE run[1]
  BY <1>1, <1>2
<1> QED
  BY <1>1, <1>3, <1>4, <1>5, <1>6

\* sorted_position of a key that is not there: the ranks up to it sort below.
LEMMA PositionFindsPlace ==
  ASSUME Ownership, RunsAscend, NEW p \in Payload, NEW k \in Key, k \notin held[p]
  PROVE  Cuts(Named(keys[p], order[p]), Len(order[p]), SortedPosition(p, order[p], k), k)
<1>1. PICK n, run, pos : n = Len(order[p]) /\ run = Named(keys[p], order[p])
                         /\ pos = SortedPosition(p, order[p], k)
  OBVIOUS
<1>2. /\ n \in Nat /\ \A r \in 1..n : run[r] \in Nat
      /\ Ascends(run, n) /\ held[p] = Values(run, n)
  BY <1>1, RunFacts
<1>3. k \in Nat /\ \A r \in 1..n : run[r] \in Nat /\ run[r] # k
  BY <1>2, SizeFacts DEF Values
<1>4. pos = CountBelow(run, n, k)
  <2>1. DOMAIN order[p] = 1..n
    BY <1>1, PayloadFacts
  <2>2. {r \in DOMAIN order[p] : KeyAt(p, order[p], r) < k} = {r \in 1..n : run[r] < k}
    BY <1>1, <2>1 DEF KeyAt, Named
  <2> QED
    BY <1>1, <2>2 DEF SortedPosition, CountBelow
<1>5. Cuts(run, n, pos, k)
  BY <1>2, <1>3, <1>4, CountingFindsPlace
<1> QED
  BY <1>1, <1>5

\* A key that comes first in its node is the head's: no other node is the place
\* of a key below its first.
LEMMA FirstOnlyAtHead ==
  ASSUME ListSound, NEW w \in Writer, pc[w] \in Appending
  PROVE  /\ loc[w].key \in Key /\ loc[w].d \in Payload /\ loc[w].key \notin held[loc[w].d]
         /\ loc[w].cur # HeadNode => Rank(w) # 1
<1>1. /\ loc[w].cur \in Node /\ loc[w].key \in Key /\ loc[w].d = data[loc[w].cur]
      /\ loc[w].d \in Payload /\ pc[w] \in Pending /\ pc[w] \notin Building
  BY DEF ListSound, Ownership, PointersOK, LocalOK, LockOK, Appending, Working, Pending, Building
<1>2. loc[w].key \notin held[loc[w].d]
  BY <1>1 DEF ListSound, ListOrder, KeysFresh
<1>3. ASSUME loc[w].cur # HeadNode PROVE Rank(w) # 1
  <2>1. PICK d, n, run, pos :
          /\ d = loc[w].d /\ n = Len(order[d]) /\ run = Named(keys[d], order[d])
          /\ pos = SortedPosition(d, order[d], loc[w].key)
    OBVIOUS
  <2>2. order[d] # <<>> /\ first[d] < loc[w].key
    BY <1>1, <1>3, <2>1 DEF ListSound, ListOrder, LinksForward, WritersPlaced
  <2>3. n \in Nat /\ n # 0 /\ first[d] = run[1] /\ run[1] \in Nat
    BY <1>1, <2>1, <2>2, RunFacts DEF ListSound, ListOrder
  <2>4. Cuts(run, n, pos, loc[w].key)
    BY <1>1, <1>2, <2>1, PositionFindsPlace DEF ListSound, ListOrder
  <2>5. loc[w].key \in Nat
    BY <1>1, SizeFacts
  <2>6. pos \in Nat /\ pos # 0
    BY <2>2, <2>3, <2>4, <2>5 DEF Cuts
  <2> QED
    BY <2>1, <2>6 DEF Rank
<1> QED
  BY <1>1, <1>2, <1>3

\* The free slot is one that no order word names.
LEMMA AppendSlotList ==
  ASSUME ListSound, NEW w \in Writer, AppendSlot(w)
  PROVE  ListOrder'
<1>1. pc[w] = "slot" /\ loc' = [loc EXCEPT ![w] = loc[w]]
      /\ UNCHANGED <<order, next, data, tower, hint, started>>
  BY DEF AppendSlot, nodeVars, ListSound, Ownership, TypeOK
<1>2. PICK l \in {"hint", "order"} : pc' = [pc EXCEPT ![w] = l] /\ (l = "hint" => Rank(w) = 1)
  BY DEF AppendSlot, Goto, IsFirst
<1>3. \A p \in Payload : \A r \in DOMAIN order[p] :
        keys'[p][order[p][r]] = keys[p][order[p][r]]
  BY AppendSlotFreezes DEF ListSound
<1>4. l = "hint" => loc[w].cur = HeadNode
  BY <1>1, <1>2, FirstOnlyAtHead DEF Appending
<1>5. /\ loc[w].cur # HeadNode => first[data[loc[w].cur]] < loc[w].key
      /\ next[loc[w].d] # Null => loc[w].key < first[data[next[loc[w].d]]]
  BY <1>1 DEF ListSound, ListOrder, WritersPlaced, Pending, Working
<1>6. \A v \in Writer : pc[v] \in Building => loc[w].cur # loc[v].sib
  BY <1>1, CurNotHidden
<1>7. pc[w] \in Pending /\ pc[w] \notin Building /\ l \notin Building /\ l \notin Splitting
  BY <1>1 DEF Pending, Working, Building, Splitting, Linking
<1> QED
  BY <1>1, <1>2, <1>3, <1>4, <1>5, <1>6, <1>7, IndexStays, QuietStep

\* The hint that is overwritten before the order word is the head's.
LEMMA AppendHintList ==
  ASSUME ListSound, NEW w \in Writer, AppendHint(w)
  PROVE  ListOrder'
<1>1. /\ pc[w] = "hint" /\ loc' = [loc EXCEPT ![w] = loc[w]]
      /\ pc' = [pc EXCEPT ![w] = "order"]
      /\ UNCHANGED <<keys, order, next, data, tower, started>>
      /\ hint' = [hint EXCEPT ![loc[w].cur] = Hint[loc[w].key]]
  BY DEF AppendHint, Goto, payloadVars, ListSound, Ownership, TypeOK
<1>2. loc[w].cur = HeadNode
  BY <1>1 DEF ListSound, ListOrder, WritersPlaced, Pending, Working
<1>3. \A n \in Node \ {HeadNode} : hint'[n] = Hint[first[data[n]]]
  BY <1>1, <1>2 DEF ListSound, ListOrder, HintsFollow, Ownership, TypeOK, PointersOK, Node
<1>4. \A n \in Node, k \in Level :
           /\ tower'[n][k] # HeadNode
           /\ \A v \in Writer : pc[v] \in Building => tower'[n][k] # loc[v].sib
  BY <1>1 DEF ListSound, ListOrder, LinksForward, SiblingsHidden
<1>5. next[loc[w].d] # Null => loc[w].key < first[data[next[loc[w].d]]]
  BY <1>1 DEF ListSound, ListOrder, WritersPlaced, Pending, Working
<1>6. \A v \in Writer : pc[v] \in Building => loc[w].cur # loc[v].sib
  BY <1>1, CurNotHidden
<1>7. pc[w] \in Pending /\ pc[w] \notin Building
  BY <1>1 DEF Pending, Working, Building
<1> QED
  BY <1>1, <1>2, <1>3, <1>4, <1>5, <1>6, <1>7, QuietStep
     DEF Building, Linking, Splitting, Pending, Working

\* The left half of a node other than the head keeps its first key.
LEMMA LeftKeepsFirst ==
  ASSUME ListSound, NEW w \in Writer, pc[w] \in Building
  PROVE  /\ loc[w].left \in Payload /\ loc[w].right \in Payload /\ loc[w].d \in Payload
         /\ loc[w].cur \in Node /\ loc[w].key \in Key /\ data[loc[w].cur] = loc[w].d
         /\ first[loc[w].left] = keys[loc[w].left][1]
         /\ loc[w].cur # HeadNode => first[loc[w].left] = first[loc[w].d]
         /\ order[loc[w].d] # <<>> => first[loc[w].left] <= first[loc[w].d]
<1> DEFINE left == loc[w].left
           right == loc[w].right
           d == loc[w].d
<1>1. /\ left \in Payload /\ right \in Payload /\ loc[w].cur \in Node /\ loc[w].key \in Key
      /\ data[loc[w].cur] = d /\ d \in Payload /\ pc[w] \in Pending
  BY DEF ListSound, Ownership, PointersOK, LocalOK, LockOK, Building, Working, Splitting, Pending
<1>2. /\ order[left] # <<>> /\ order[left][1] = 1 /\ order[right] # <<>>
      /\ held[left] \union held[right] = held[d] \union {loc[w].key}
      /\ \A j \in held[left], k \in held[right] : j < k
  BY DEF ListSound, ListOrder, HalvesOK
<1>3. first[left] = keys[left][1]
  BY <1>1, <1>2, PayloadFacts DEF ListSound
<1>4. first[left] \in held[left] /\ first[left] \in Nat /\ \A k \in held[left] : first[left] <= k
  BY <1>1, <1>2, FirstIsLeast, SizeFacts DEF ListSound, ListOrder
<1>5. held[right] \subseteq Nat /\ held[left] \subseteq Nat /\ loc[w].key \in Nat
  BY <1>1, PayloadFacts, SizeFacts DEF ListSound
<1>6. \A k \in held[d] : first[left] <= k
  BY <1>2, <1>4, <1>5
<1>7. order[d] # <<>> => first[d] \in held[d] /\ first[d] \in Nat
                         /\ \A k \in held[d] : first[d] <= k
  BY <1>1, FirstIsLeast, SizeFacts DEF ListSound, ListOrder
<1>8. loc[w].cur # HeadNode => order[d] # <<>> /\ first[d] < loc[w].key
  BY <1>1 DEF ListSound, ListOrder, LinksForward, WritersPlaced
<1>9. loc[w].cur # HeadNode => first[left] = first[d]
  <2> SUFFICES ASSUME loc[w].cur # HeadNode PROVE first[left] = first[d]
    OBVIOUS
  <2>1. first[left] <= first[d] /\ first[d] < loc[w].key /\ first[d] \in Nat
    BY <1>6, <1>7, <1>8
  <2>2. first[left] \in held[d]
    BY <1>2, <1>4, <1>5, <2>1
  <2> QED
    BY <1>4, <1>7, <1>8, <2>1, <2>2
<1> QED
  BY <1>1, <1>3, <1>6, <1>7, <1>9

\* The hint of a node that splits stays that of its first key.
LEMMA SplitHintList ==
  ASSUME ListSound, NEW w \in Writer, SplitHint(w)
  PROVE  ListOrder'
<1>1. /\ pc[w] = "splitHint" /\ loc' = [loc EXCEPT ![w] = loc[w]]
      /\ pc' = [pc EXCEPT ![w] = "splitData"]
      /\ UNCHANGED <<keys, order, next, data, tower, started>>
      /\ hint' = [hint EXCEPT ![loc[w].cur] = Hint[keys[loc[w].left][1]]]
  BY DEF SplitHint, Goto, payloadVars, ListSound, Ownership, TypeOK
<1>2. /\ loc[w].cur \in Node /\ data[loc[w].cur] = loc[w].d
      /\ loc[w].cur # HeadNode => keys[loc[w].left][1] = first[data[loc[w].cur]]
  BY <1>1, LeftKeepsFirst DEF Building
<1>3. \A n \in Node \ {HeadNode} : hint'[n] = Hint[first[data[n]]]
  <2>1. DOMAIN hint = Node
    BY DEF ListSound, Ownership, TypeOK, PointersOK, Node
  <2>2. \A n \in Node :
          hint'[n] = IF n = loc[w].cur THEN Hint[keys[loc[w].left][1]] ELSE hint[n]
    BY <1>1, <2>1
  <2>3. \A n \in Node \ {HeadNode} : hint[n] = Hint[first[data[n]]]
    BY DEF ListSound, ListOrder, HintsFollow
  <2> QED
    BY <1>2, <2>2, <2>3
<1>4. \A n \in Node, k \in Level :
           /\ tower'[n][k] # HeadNode
           /\ \A v \in Writer : pc[v] \in Building => tower'[n][k] # loc[v].sib
  BY <1>1 DEF ListSound, ListOrder, LinksForward, SiblingsHidden
<1>5. /\ next[loc[w].d] # Null => loc[w].key < first[data[next[loc[w].d]]]
      /\ loc[w].cur # HeadNode => first[data[loc[w].cur]] < loc[w].key
  BY <1>1 DEF ListSound, ListOrder, WritersPlaced, Pending, Working
<1>6. \A v \in Writer : pc[v] \in Building => loc[w].cur # loc[v].sib
  BY <1>1, CurNotHidden
<1>7. pc[w] \in Pending /\ pc[w] \in Building /\ pc[w] \in Splitting
  BY <1>1 DEF Pending, Working, Building, Splitting
<1> QED
  BY <1>1, <1>3, <1>4, <1>5, <1>6, <1>7, QuietStep
     DEF Building, Linking, Splitting, Pending, Working

\* The call is over, or past the point where its key is in the list.
LEMMA LeaveList ==
  ASSUME ListSound, NEW w \in Writer, NEW l, NEW x,
         pc[w] \notin Building, pc[w] # "idle",
         pc' = [pc EXCEPT ![w] = l], loc' = [loc EXCEPT ![w] = x],
         UNCHANGED <<payloadVars, data, hint, started>>,
         l \in Linking \union {"threw", "unlock", "idle"},
         l # "idle" => x.cur = loc[w].cur,
         l \in Linking => pc[w] \in Linking /\ x.sib = loc[w].sib,
         \A n \in Node, k \in Level :
           /\ tower'[n][k] # HeadNode
           /\ \A v \in Writer : pc[v] \in Building => tower'[n][k] # loc[v].sib
  PROVE  ListOrder'
<1>1. \A v \in Writer : pc[v] \in Building => loc[w].cur # loc[v].sib
  BY CurNotHidden
<1>2. l \notin Pending /\ l \notin Building
  BY DEF Pending, Working, Building, Linking
<1>3. l \in Splitting => pc[w] \in Splitting /\ x.sib = loc[w].sib
  BY DEF Splitting, Linking
<1>4. UNCHANGED <<keys, order, next>>
  BY DEF payloadVars
<1>5. \A n \in Node \ {HeadNode} : hint'[n] = Hint[first[data[n]]]
  BY DEF ListSound, ListOrder, HintsFollow
<1> QED
  BY <1>1, <1>2, <1>3, <1>4, <1>5, QuietStep

\* An exception, the end of a call, and the search for a predecessor.
LEMMA DoneList ==
  ASSUME ListSound, NEW w \in Writer,
         \/ AllocationThrows(w) \/ Unlock(w)
         \/ FindHop(w) \/ FindDown(w) \/ FindArrive(w)
         \/ LinkBehind(w) \/ LinkCasFails(w)
  PROVE  ListOrder'
<1>1. /\ UNCHANGED <<payloadVars, data, hint, tower, started>>
      /\ pc[w] \in {"split", "unlock", "find", "link", "cas"}
  BY DEF AllocationThrows, Unlock, FindHop, FindDown, FindArrive, LinkBehind, LinkCasFails, nodeVars
<1>2. pc[w] \notin Building /\ pc[w] # "idle"
  BY <1>1 DEF Building
<1>3. \A n \in Node, k \in Level :
        /\ tower'[n][k] # HeadNode
        /\ \A v \in Writer : pc[v] \in Building => tower'[n][k] # loc[v].sib
  BY <1>1, IndexStays
<1>4. loc[w] \in Local /\ pc \in [Writer -> Label] /\ loc \in [Writer -> Local]
  BY DEF ListSound, Ownership, TypeOK
<1>5. \E l \in Linking \union {"threw", "unlock", "idle"}, x \in Local :
        /\ pc' = [pc EXCEPT ![w] = l] /\ loc' = [loc EXCEPT ![w] = x]
        /\ l # "idle" => x.cur = loc[w].cur
        /\ l \in Linking => pc[w] \in Linking /\ x.sib = loc[w].sib
  <2>1. CASE AllocationThrows(w)
    <3>1. pc' = [pc EXCEPT ![w] = "threw"] /\ loc' = [loc EXCEPT ![w] = loc[w]]
      BY <1>4, <2>1 DEF AllocationThrows, Goto
    <3>2. "threw" \in Linking \union {"threw", "unlock", "idle"} /\ "threw" \notin Linking
      BY DEF Linking
    <3> QED
      BY <1>4, <3>1, <3>2
  <2>2. CASE Unlock(w)
    <3>1. pc' = [pc EXCEPT ![w] = "idle"] /\ loc' = [loc EXCEPT ![w] = Idle] /\ Idle \in Local
      BY <2>2, SizeFacts DEF Unlock, Goto, Idle, Local, Null
    <3>2. "idle" \in Linking \union {"threw", "unlock", "idle"} /\ "idle" \notin Linking
      BY DEF Linking
    <3> QED
      BY <3>1, <3>2
  <2>3. CASE FindHop(w)
    <3> DEFINE x == [loc[w] EXCEPT !.pred = tower[loc[w].pred][loc[w].lv]]
    <3>1. tower[loc[w].pred][loc[w].lv] \in Node
      BY <2>3 DEF FindHop, MayFind, ListSound, Ownership, LocalOK, PointersOK, Linking
    <3>2. x \in Local /\ x.cur = loc[w].cur /\ x.sib = loc[w].sib
      BY <1>4, <3>1, UpdatePred DEF Node
    <3>3. pc' = [pc EXCEPT ![w] = "find"] /\ loc' = [loc EXCEPT ![w] = x] /\ pc[w] = "find"
      BY <1>4, <2>3 DEF FindHop
    <3> HIDE DEF x
    <3> QED
      BY <3>2, <3>3 DEF Linking
  <2>4. CASE FindDown(w)
    <3> DEFINE x == [loc[w] EXCEPT !.lv = loc[w].lv - 1]
    <3>1. loc[w].lv - 1 \in 0..(MaxHeight - 1)
      BY <2>4, SizeFacts DEF FindDown, ListSound, Ownership, LocalOK, Level
    <3>2. x \in Local /\ x.cur = loc[w].cur /\ x.sib = loc[w].sib
      BY <1>4, <3>1, UpdateLv
    <3>3. pc' = [pc EXCEPT ![w] = "find"] /\ loc' = [loc EXCEPT ![w] = x] /\ pc[w] = "find"
      BY <1>4, <2>4 DEF FindDown
    <3> HIDE DEF x
    <3> QED
      BY <3>2, <3>3 DEF Linking
  <2>5. CASE FindArrive(w)
    <3>1. /\ pc' = [pc EXCEPT ![w] = "link"] /\ loc' = [loc EXCEPT ![w] = loc[w]]
          /\ pc[w] = "find"
      BY <1>4, <2>5 DEF FindArrive, Goto
    <3> QED
      BY <1>4, <3>1 DEF Linking
  <2>6. CASE LinkBehind(w) \/ LinkCasFails(w)
    <3>1. pc[w] \in {"link", "cas"} /\ Retry(w)
      BY <2>6 DEF LinkBehind, LinkCasFails
    <3>2. PICK l \in {"find", "unlock"}, x \in Local :
             /\ pc' = [pc EXCEPT ![w] = l] /\ loc' = [loc EXCEPT ![w] = x]
             /\ x.cur = loc[w].cur /\ x.sib = loc[w].sib
      BY <3>1, AttemptDone DEF ListSound
    <3> QED
      BY <3>1, <3>2 DEF Linking
  <2> QED
    BY <2>1, <2>2, <2>3, <2>4, <2>5, <2>6
<1> QED
  BY <1>1, <1>2, <1>3, <1>5, LeaveList

\* One link overwritten, the others as they were.
LEMMA TowerValue ==
  ASSUME TypeOK, PointersOK, NEW n \in Node, NEW k \in Level, NEW m \in Nat,
         tower' = [tower EXCEPT ![n][k] = m]
  PROVE  \A a \in Node, b \in Level :
           tower'[a][b] = IF a = n /\ b = k THEN m ELSE tower[a][b]
<1>1. /\ tower \in Seq([Level -> Nat]) /\ Node = 1..Len(tower)
  BY DEF TypeOK, PointersOK, Node
<1>2. \A a \in Node : tower[a] \in [Level -> Nat]
  BY <1>1, ElementOfSeq
<1>3. DOMAIN tower = Node
  BY <1>1
<1> QED
  BY <1>2, <1>3

\* A link is written to name a node already linked there, or the sibling, whose
\* writer has put it in the list.
LEMMA LinkList ==
  ASSUME ListSound, NEW w \in Writer, LinkLoad(w) \/ LinkCas(w)
  PROVE  ListOrder'
<1>1. /\ UNCHANGED <<payloadVars, data, hint, started>> /\ pc[w] \in {"link", "cas"}
      /\ loc[w].pred \in Node /\ loc[w].goal \in Level /\ loc[w].sib \in Node
      /\ loc[w] \in Local
  BY DEF LinkLoad, LinkCas, ListSound, Ownership, TypeOK, LocalOK, Linking, Splitting
<1>2. pc[w] \notin Building /\ pc[w] # "idle" /\ pc[w] \in Linking /\ pc[w] \in Splitting
  BY <1>1 DEF Building, Linking, Splitting
<1> DEFINE nx == tower[loc[w].pred][loc[w].goal]
<1>3. nx \in Node \union {Null} /\ nx \in Nat /\ loc[w].sib \in Nat
  BY <1>1 DEF ListSound, Ownership, PointersOK, Node, Null
<1>4. PICK a \in Node, b \in Level, m \in Nat :
        /\ m \in {nx, loc[w].sib}
        /\ tower' = [tower EXCEPT ![a][b] = m]
  <2>1. CASE LinkLoad(w)
    BY <1>1, <1>3, <2>1 DEF LinkLoad
  <2>2. CASE LinkCas(w)
    BY <1>1, <1>3, <2>2 DEF LinkCas
  <2> QED
    BY <2>1, <2>2
<1>5. m # HeadNode /\ \A v \in Writer : pc[v] \in Building => m # loc[v].sib
  BY <1>1, <1>2, <1>4 DEF ListSound, ListOrder, LinksForward, SiblingsHidden
<1>6. \A n \in Node, k \in Level :
        /\ tower'[n][k] # HeadNode
        /\ \A v \in Writer : pc[v] \in Building => tower'[n][k] # loc[v].sib
  BY <1>4, <1>5, TowerValue DEF ListSound, ListOrder, LinksForward, SiblingsHidden, Ownership
<1>7. \E l \in Linking \union {"unlock"}, x \in Local :
        /\ pc' = [pc EXCEPT ![w] = l] /\ loc' = [loc EXCEPT ![w] = x]
        /\ x.cur = loc[w].cur /\ x.sib = loc[w].sib
  <2>1. CASE LinkLoad(w)
    <3> DEFINE x == [loc[w] EXCEPT !.nx = nx]
    <3>1. x \in Local /\ x.cur = loc[w].cur /\ x.sib = loc[w].sib
      BY <1>1, <1>3, UpdateNx
    <3>2. pc' = [pc EXCEPT ![w] = "cas"] /\ loc' = [loc EXCEPT ![w] = x]
      BY <2>1 DEF LinkLoad, Goto
    <3> HIDE DEF x
    <3> QED
      BY <3>1, <3>2 DEF Linking
  <2>2. CASE LinkCas(w)
    <3>1. NextLevel(w)
      BY <2>2 DEF LinkCas
    <3>2. PICK l \in {"find", "unlock"}, x \in Local :
             /\ pc' = [pc EXCEPT ![w] = l] /\ loc' = [loc EXCEPT ![w] = x]
             /\ x.cur = loc[w].cur /\ x.sib = loc[w].sib
      BY <1>1, <3>1, AttemptDone DEF ListSound
    <3> QED
      BY <3>2 DEF Linking
  <2> QED
    BY <2>1, <2>2
<1> HIDE DEF nx
<1> QED
  BY <1>1, <1>2, <1>6, <1>7, LeaveList

-----------------------------------------------------------------------------
(* ListOrder is inductive: the order word of an append.                    *)

\* A free slot put at the place of its key: ks are the keys by slot, s the order
\* word before and o the one after.
LEMMA AppendedRun ==
  ASSUME NEW n \in Nat, NEW s \in Seq(Slot), n = Len(s), n + 1 \in Slot,
         NEW ks, NEW k \in Nat, ks[n + 1] = k, NEW run, run = Named(ks, s),
         \A r \in 1..n : run[r] \in Nat, Ascends(run, n), NEW pos, Cuts(run, n, pos, k),
         NEW o, o = InsertAt(s, pos + 1, n + 1), NEW new, new = Named(ks, o)
  PROVE  /\ o \in Seq(Slot) /\ Len(o) = n + 1 /\ DOMAIN o = 1..(n + 1) /\ o # <<>>
         /\ Ascends(new, n + 1)
         /\ Values(new, n + 1) = Values(run, n) \union {k}
         /\ new[1] = IF pos = 0 THEN k ELSE run[1]
<1>1. pos \in 0..n
  BY DEF Cuts
<1>2. /\ o \in Seq(Slot) /\ Len(o) = n + 1 /\ DOMAIN o = 1..(n + 1) /\ o # <<>>
      /\ InsertedAt(o, s, n, pos, n + 1)
  <2>1. PICK i : i = pos + 1
    OBVIOUS
  <2>2. i \in 1..(Len(s) + 1) /\ i - 1 = pos /\ o = InsertAt(s, i, n + 1)
    BY <1>1, <2>1
  <2>3. o \in Seq(Slot) /\ Len(o) = n + 1
    BY <2>2, InsertAtInserts
  <2>4. InsertedAt(o, s, n, pos, n + 1)
    BY <2>2, InsertAtInserts
  <2>5. DOMAIN o = 1..(n + 1) /\ o # <<>>
    BY <2>3, LenProperties
  <2> QED
    BY <2>3, <2>4, <2>5
<1>3. InsertedAt(new, run, n, pos, k)
  <2>1. DOMAIN s = 1..n
    BY LenProperties
  <2>2. \A j \in 1..n : run[j] = ks[s[j]]
    BY <2>1 DEF Named
  <2>3. \A j \in 1..(n + 1) : new[j] = ks[o[j]]
    BY <1>2 DEF Named
  <2>4. \A j \in 1..pos : j \in 1..n /\ j \in 1..(n + 1)
    BY <1>1
  <2>5. pos + 1 \in 1..(n + 1) /\ \A j \in (pos + 1)..n : j \in 1..n /\ j + 1 \in 1..(n + 1)
    BY <1>1
  <2>6. ASSUME NEW j \in 1..pos PROVE new[j] = run[j]
    <3>1. o[j] = s[j]
      BY <1>2 DEF InsertedAt
    <3>2. new[j] = ks[o[j]] /\ run[j] = ks[s[j]]
      BY <2>2, <2>3, <2>4
    <3> QED
      BY <3>1, <3>2
  <2>7. new[pos + 1] = k
    BY <1>2, <2>3, <2>5 DEF InsertedAt
  <2>8. ASSUME NEW j \in (pos + 1)..n PROVE new[j + 1] = run[j]
    <3>1. o[j + 1] = s[j]
      BY <1>2 DEF InsertedAt
    <3>2. new[j + 1] = ks[o[j + 1]] /\ run[j] = ks[s[j]]
      BY <2>2, <2>3, <2>5
    <3> QED
      BY <3>1, <3>2
  <2> QED
    BY <2>6, <2>7, <2>8 DEF InsertedAt
<1>4. /\ Ascends(new, n + 1)
      /\ Values(new, n + 1) = Values(run, n) \union {k}
      /\ new[1] = IF pos = 0 THEN k ELSE run[1]
  BY <1>3, InsertedRun
<1> QED
  BY <1>2, <1>4

\* The order word adds the key to its payload, at its place.
LEMMA AppendOrderHeld ==
  ASSUME ListSound, NEW w \in Writer, AppendOrder(w)
  PROVE  /\ Payload' = Payload
         /\ \A p \in Payload \ {loc[w].d} :
              order'[p] = order[p] /\ held'[p] = held[p] /\ first'[p] = first[p]
         /\ order'[loc[w].d] # <<>>
         /\ held'[loc[w].d] = held[loc[w].d] \union {loc[w].key}
         /\ loc[w].cur # HeadNode => first'[loc[w].d] = first[loc[w].d]
         /\ order[loc[w].d] # <<>> => first'[loc[w].d] <= first[loc[w].d]
         /\ IF Rank(w) = 1 THEN first'[loc[w].d] = loc[w].key
            ELSE order[loc[w].d] # <<>> /\ first'[loc[w].d] = first[loc[w].d]
         /\ RunsAscend'
<1>1. PICK d, k, n, pos, o, run, new :
        /\ d = loc[w].d /\ k = loc[w].key /\ n = Len(order[d])
        /\ pos = SortedPosition(d, order[d], k) /\ o = InsertAt(order[d], pos + 1, n + 1)
        /\ run = Named(keys[d], order[d]) /\ new = Named(keys[d], o)
  OBVIOUS
<1>2. /\ pc[w] = "order" /\ keys' = keys /\ order' = [order EXCEPT ![d] = o]
  BY <1>1 DEF AppendOrder, Rank, FreeSlot
<1>3. /\ k \in Key /\ k \in Nat /\ d \in Payload /\ k \notin held[d]
      /\ loc[w].cur # HeadNode => pos # 0
  <2>1. /\ k \in Key /\ d \in Payload /\ k \notin held[d]
        /\ loc[w].cur # HeadNode => Rank(w) # 1
    BY <1>1, <1>2, FirstOnlyAtHead DEF Appending
  <2> QED
    BY <1>1, <2>1, SizeFacts DEF Rank
<1>4. /\ n \in Nat /\ \A r \in 1..n : run[r] \in Nat
      /\ Ascends(run, n) /\ held[d] = Values(run, n)
      /\ order[d] = <<>> <=> n = 0
      /\ first[d] = IF n = 0 THEN Null ELSE run[1]
  BY <1>1, <1>3, RunFacts DEF ListSound, ListOrder
<1>5. Cuts(run, n, pos, k)
  BY <1>1, <1>3, PositionFindsPlace DEF ListSound, ListOrder
<1>6. n < Capacity /\ keys[d][n + 1] = k /\ n + 1 \in Slot
  BY <1>1, <1>2, <1>4, SizeFacts DEF ListSound, Ownership, PendingOK, Appending, FreeSlot, Slot
<1>7. order[d] \in Seq(Slot) /\ DOMAIN keys = Payload
  BY <1>3, PayloadFacts DEF ListSound, Ownership, TypeOK, PointersOK, Payload
<1>8. /\ o \in Seq(Slot) /\ Len(o) = n + 1 /\ DOMAIN o = 1..(n + 1) /\ o # <<>>
      /\ Ascends(new, n + 1)
      /\ Values(new, n + 1) = Values(run, n) \union {k}
      /\ new[1] = IF pos = 0 THEN k ELSE run[1]
  <2>1. PICK s, ks : s = order[d] /\ ks = keys[d]
    OBVIOUS
  <2>2. /\ n = Len(s) /\ n + 1 \in Slot /\ k \in Nat /\ ks[n + 1] = k /\ run = Named(ks, s)
        /\ o = InsertAt(s, pos + 1, n + 1) /\ new = Named(ks, o) /\ s \in Seq(Slot)
        /\ n \in Nat /\ (\A r \in 1..n : run[r] \in Nat)
        /\ Ascends(run, n) /\ Cuts(run, n, pos, k)
    BY <1>1, <1>3, <1>4, <1>5, <1>6, <1>7, <2>1
  <2>3. o \in Seq(Slot) /\ Len(o) = n + 1 /\ DOMAIN o = 1..(n + 1) /\ o # <<>>
    BY <2>2, AppendedRun
  <2>4. Ascends(new, n + 1)
    BY <2>2, AppendedRun
  <2>6. Values(new, n + 1) = Values(run, n) \union {k}
    BY <2>2, AppendedRun
  <2>5. new[1] = IF pos = 0 THEN k ELSE run[1]
    BY <2>2, AppendedRun
  <2> QED
    BY <2>3, <2>4, <2>5, <2>6
<1>9. /\ Payload' = Payload /\ order'[d] = o
      /\ \A p \in Payload \ {d} : order'[p] = order[p]
  <2>1. DOMAIN order = Payload
    BY DEF ListSound, Ownership, TypeOK, Payload
  <2>2. Len(order') = Len(order)
    <3>1. order \in Seq(Seq(Slot)) /\ d \in 1..Len(order) /\ o \in Seq(Slot)
      BY <1>3, <1>8 DEF ListSound, Ownership, TypeOK, Payload
    <3> QED
      BY <1>2, <3>1, ExceptSeq
  <2> QED
    BY <1>2, <1>3, <2>1, <2>2 DEF Payload
<1>10. ASSUME NEW p \in Payload \ {d} PROVE held'[p] = held[p] /\ first'[p] = first[p]
  <2>1. p \in Payload' /\ order'[p] = order[p]
    BY <1>9
  <2> QED
    BY <1>2, <2>1 DEF held, first, KeysOf, KeyAt
<1>11. \A r \in 1..(n + 1) : keys'[d][order'[d][r]] = new[r]
  <2>1. ASSUME NEW r \in 1..(n + 1) PROVE new[r] = keys[d][o[r]]
    BY <1>1, <1>8 DEF Named
  <2> QED
    BY <1>2, <1>9, <2>1
<1>12. order'[d] # <<>> /\ first'[d] = new[1] /\ held'[d] = Values(new, n + 1)
  <2>1. 1 \in 1..(n + 1)
    BY <1>4
  <2>2. first'[d] = keys'[d][order'[d][1]]
    BY <1>3, <1>8, <1>9 DEF first, KeyAt
  <2>3. held'[d] = {keys'[d][order'[d][r]] : r \in 1..(n + 1)}
    BY <1>3, <1>8, <1>9 DEF held, KeysOf, KeyAt
  <2> QED
    BY <1>8, <1>9, <1>11, <2>1, <2>2, <2>3 DEF Values
<1>13. loc[w].cur # HeadNode => first'[d] = first[d]
  <2>1. loc[w].cur # HeadNode => n # 0
    BY <1>1, <1>2, <1>4
       DEF ListSound, ListOrder, LinksForward, Ownership, LocalOK, LockOK, Working
  <2> QED
    BY <1>3, <1>4, <1>8, <1>12, <2>1
<1>14. order[d] # <<>> => first'[d] <= first[d]
  <2>1. n # 0 => 1 \in 1..n /\ run[1] \in Nat /\ (pos = 0 => k < run[1])
    BY <1>4, <1>5 DEF Cuts
  <2> QED
    BY <1>3, <1>4, <1>8, <1>12, <2>1
<1>15. IF pos = 0 THEN first'[d] = k ELSE order[d] # <<>> /\ first'[d] = first[d]
  <2>1. pos # 0 => n # 0
    BY <1>4, <1>5 DEF Cuts
  <2> QED
    BY <1>4, <1>8, <1>12, <2>1
<1>16. Rank(w) = 1 <=> pos = 0
  <2>1. pos \in Nat /\ Rank(w) = pos + 1
    BY <1>1, <1>4, <1>5 DEF Cuts, Rank
  <2> QED
    BY <2>1
<1>17. RunsAscend'
  <2>1. ASSUME NEW p \in Payload, NEW i \in DOMAIN order'[p], NEW j \in DOMAIN order'[p], i < j
        PROVE  keys'[p][order'[p][i]] < keys'[p][order'[p][j]]
    <3>1. CASE p = d
      BY <1>8, <1>9, <1>11, <2>1, <3>1 DEF Ascends
    <3>2. CASE p # d
      BY <1>2, <1>9, <2>1, <3>2 DEF ListSound, ListOrder, RunsAscend, KeyAt
    <3> QED
      BY <3>1, <3>2
  <2> QED
    BY <1>9, <2>1 DEF RunsAscend, KeyAt
<1> QED
  BY <1>1, <1>4, <1>8, <1>9, <1>10, <1>12, <1>13, <1>14, <1>15, <1>16, <1>17

\* No two writers work on the same node.
LEMMA WorkersApart ==
  ASSUME Ownership, NEW v \in Writer, NEW w \in Writer, v # w, pc[v] \in Working, pc[w] \in Working
  PROVE  loc[v].cur # loc[w].cur /\ loc[v].d # loc[w].d
<1>1. /\ loc[v].cur \in Node /\ data[loc[v].cur] = loc[v].d /\ lock[loc[v].cur] = v
      /\ loc[w].cur \in Node /\ data[loc[w].cur] = loc[w].d /\ lock[loc[w].cur] = w
  BY DEF Ownership, LocalOK, LockOK, Working, Holding
<1>2. loc[v].cur # loc[w].cur
  BY <1>1
<1> QED
  BY <1>1, <1>2 DEF Ownership, PayloadsOK

\* A payload a writer works on is no half under construction.
LEMMA WorkedIsNoHalf ==
  ASSUME ListSound, NEW v \in Writer, NEW w \in Writer, pc[v] \in Building, pc[w] \in Working
  PROVE  loc[w].d # loc[v].left /\ loc[w].d # loc[v].right
<1>1. loc[w].cur \in Node /\ data[loc[w].cur] = loc[w].d /\ loc[v].sib \in Node
  BY DEF ListSound, Ownership, LocalOK, LockOK, Working, Building, Splitting
<1>2. loc[w].d # loc[v].left
  BY <1>1 DEF ListSound, Ownership, PayloadsOK
<1>3. data[loc[v].sib] = loc[v].right /\ loc[w].cur # loc[v].sib
  BY DEF ListSound, ListOrder, SiblingsHidden, Working
<1> QED
  BY <1>1, <1>2, <1>3 DEF ListSound, Ownership, PayloadsOK

\* The key appended is one nobody had, above the first key of its node and below
\* that of the next.
LEMMA AppendOrderList ==
  ASSUME ListSound, NEW w \in Writer, AppendOrder(w)
  PROVE  ListOrder'
<1>1. PICK d, k, c : d = loc[w].d /\ k = loc[w].key /\ c = loc[w].cur
  OBVIOUS
<1>2. /\ pc[w] = "order" /\ pc[w] \in Working /\ pc[w] \in Pending /\ pc[w] \notin Building
      /\ UNCHANGED <<keys, next, nodeVars, started, loc>>
      /\ pc'[w] = "unlock" /\ \A v \in Writer \ {w} : pc'[v] = pc[v]
  BY DEF AppendOrder, Goto, Working, Pending, Building, ListSound, Ownership, TypeOK
<1>3. /\ UNCHANGED <<data, hint, tower>> /\ Node' = Node /\ Payload' = Payload
      /\ \A v \in Writer : pc'[v] \in Building <=> pc[v] \in Building
  BY <1>2, AppendOrderHeld DEF nodeVars, Node, Building
<1>4. /\ c \in Node /\ data[c] = d /\ d \in Payload /\ k \in Key
      /\ \A n \in Node : data[n] \in Payload /\ (data[n] = d => n = c)
      /\ \A p \in Payload : next[p] \in Node \union {Null}
  BY <1>1, <1>2 DEF ListSound, Ownership, PointersOK, PayloadsOK, LocalOK, LockOK
<1>5. /\ \A p \in Payload \ {d} :
           order'[p] = order[p] /\ held'[p] = held[p] /\ first'[p] = first[p]
      /\ order'[d] # <<>> /\ held'[d] = held[d] \union {k}
      /\ c # HeadNode => first'[d] = first[d]
      /\ RunsAscend'
  BY <1>1, AppendOrderHeld
<1>6. \A n \in Node \ {HeadNode} : first'[data[n]] = first[data[n]] /\ order'[data[n]] # <<>>
  BY <1>4, <1>5 DEF ListSound, ListOrder, LinksForward
<1>7. KeysFresh'
  <2>1. \A p \in Payload : held'[p] \subseteq started
    BY <1>1, <1>2, <1>4, <1>5 DEF ListSound, ListOrder, KeysFresh
  <2>2. ASSUME NEW v \in Writer, pc'[v] \in Pending PROVE pc'[v] = pc[v] /\ v # w
    BY <1>2, <2>2 DEF Pending, Working
  <2>3. ASSUME NEW v \in Writer, pc'[v] \in Pending
        PROVE  /\ loc[v].key \in started
               /\ \A u \in Writer : pc'[u] \in Pending /\ loc[u].key = loc[v].key => u = v
    BY <2>2, <2>3 DEF ListSound, ListOrder, KeysFresh
  <2>4. ASSUME NEW v \in Writer, pc'[v] \in Pending, NEW p \in Payload, loc[v].key \in held'[p]
        PROVE  pc'[v] \in Building /\ p \in {loc[v].left, loc[v].right}
    <3>1. loc[v].key # k
      BY <1>1, <1>2, <2>2, <2>4 DEF ListSound, ListOrder, KeysFresh
    <3>2. loc[v].key \in held[p]
      BY <1>5, <2>4, <3>1
    <3> QED
      BY <2>2, <2>4, <3>2 DEF ListSound, ListOrder, KeysFresh
  <2> QED
    BY <1>2, <1>3, <2>1, <2>3, <2>4 DEF KeysFresh, Pending, Building, Working
<1>8. SiblingsHidden'
  <2> SUFFICES ASSUME NEW v \in Writer, pc[v] \in Building
               PROVE  /\ data[loc[v].sib] = loc[v].right
                      /\ \A p \in Payload : next[p] = loc[v].sib => p = loc[v].left
                      /\ \A n \in Node, j \in Level : tower[n][j] # loc[v].sib
                      /\ \A u \in Writer :
                           /\ pc'[u] # "idle" => loc[u].cur # loc[v].sib
                           /\ pc'[u] \in Splitting /\ loc[u].sib = loc[v].sib => u = v
    BY <1>2, <1>3 DEF SiblingsHidden, Building, Splitting, Level, Linking
  <2>1. /\ data[loc[v].sib] = loc[v].right
        /\ \A p \in Payload : next[p] = loc[v].sib => p = loc[v].left
        /\ \A n \in Node, j \in Level : tower[n][j] # loc[v].sib
        /\ \A u \in Writer :
             /\ pc[u] # "idle" => loc[u].cur # loc[v].sib
             /\ pc[u] \in Splitting /\ loc[u].sib = loc[v].sib => u = v
    BY DEF ListSound, ListOrder, SiblingsHidden
  <2>2. \A u \in Writer : /\ pc'[u] # "idle" => pc[u] # "idle"
                          /\ pc'[u] \in Splitting => pc[u] \in Splitting
    BY <1>2 DEF Splitting, Linking
  <2> QED
    BY <2>1, <2>2
<1>9. LinksForward'
  <2>1. \A v \in Writer : pc'[v] \in Splitting => pc[v] \in Splitting
    BY <1>2 DEF Splitting, Linking
  <2>2. ASSUME NEW n \in Node, next[data[n]] # Null
        PROVE  /\ order'[data[n]] # <<>>
               /\ \A j \in held'[data[n]] : j < first'[data[next[data[n]]]]
    <3>1. next[data[n]] \in Node \ {HeadNode}
      BY <1>4, <2>2 DEF ListSound, ListOrder, LinksForward
    <3>2. order[data[n]] # <<>> /\ \A j \in held[data[n]] : j < first[data[next[data[n]]]]
      BY <2>2 DEF ListSound, ListOrder, LinksForward
    <3>3. data[n] = d => k < first[data[next[data[n]]]]
      BY <1>1, <1>2, <2>2 DEF ListSound, ListOrder, WritersPlaced
    <3> QED
      BY <1>4, <1>5, <1>6, <3>1, <3>2, <3>3
  <2> QED
    BY <1>2, <1>3, <1>6, <2>1, <2>2 DEF ListSound, ListOrder, LinksForward, Splitting, Building, Linking, Level
<1>10. HintsFollow'
  BY <1>3, <1>6 DEF ListSound, ListOrder, HintsFollow
<1>11. WritersPlaced'
  <2> SUFFICES ASSUME NEW v \in Writer, pc'[v] \in Pending
               PROVE  /\ loc[v].cur # HeadNode => first'[data[loc[v].cur]] < loc[v].key
                      /\ pc'[v] \in Working /\ next[loc[v].d] # Null =>
                           loc[v].key < first'[data[next[loc[v].d]]]
                      /\ pc'[v] = "hint" => loc[v].cur = HeadNode
    BY <1>2, <1>3 DEF WritersPlaced, Pending, Working
  <2>1. pc'[v] = pc[v] /\ v # w
    BY <1>2 DEF Pending, Working
  <2>2. /\ loc[v].cur # HeadNode => first[data[loc[v].cur]] < loc[v].key
        /\ pc[v] \in Working /\ next[loc[v].d] # Null =>
             loc[v].key < first[data[next[loc[v].d]]]
        /\ pc[v] = "hint" => loc[v].cur = HeadNode
    BY <2>1 DEF ListSound, ListOrder, WritersPlaced
  <2>3. loc[v].cur \in Node /\ (pc[v] \in Working => loc[v].d \in Payload)
    BY <1>4, <2>1 DEF ListSound, Ownership, LocalOK, LockOK, Pending, Working
  <2>4. pc[v] \in Working /\ next[loc[v].d] # Null => next[loc[v].d] \in Node \ {HeadNode}
    BY <1>4, <2>3 DEF ListSound, ListOrder, LinksForward
  <2> QED
    BY <1>6, <2>1, <2>2, <2>3, <2>4
<1>12. HalvesOK'
  <2> SUFFICES ASSUME NEW v \in Writer, pc[v] \in Building, NEW left, NEW right, NEW e,
                      left = loc[v].left, right = loc[v].right, e = loc[v].d
               PROVE  /\ next[left] = loc[v].sib /\ next[right] = next[e]
                      /\ order'[left] # <<>> /\ order'[left][1] = 1 /\ order'[right] # <<>>
                      /\ held'[left] \union held'[right] = held'[e] \union {loc[v].key}
                      /\ \A i \in held'[left], j \in held'[right] : i < j
    BY <1>2, <1>3 DEF HalvesOK
  <2>1. /\ next[left] = loc[v].sib /\ next[right] = next[e]
        /\ order[left] # <<>> /\ order[left][1] = 1 /\ order[right] # <<>>
        /\ held[left] \union held[right] = held[e] \union {loc[v].key}
        /\ \A i \in held[left], j \in held[right] : i < j
    BY DEF ListSound, ListOrder, HalvesOK
  <2>2. left # d /\ right # d
    BY <1>1, <1>2, WorkedIsNoHalf
  <2>3. e # d
    <3>1. v # w /\ pc[v] \in Working
      BY <1>2 DEF Building, Working
    <3> QED
      BY <1>1, <1>2, <3>1, WorkersApart DEF ListSound
  <2>4. left \in Payload /\ right \in Payload /\ e \in Payload
    BY LeftKeepsFirst
  <2> QED
    BY <1>5, <2>1, <2>2, <2>3, <2>4
<1>13. NodesDisjoint'
  <2>1. Linked' = Linked /\ Linked \subseteq Node
    BY <1>2, <1>3 DEF Linked, Building
  <2>2. \A p \in Payload : k \notin held[p]
    BY <1>1, <1>2 DEF ListSound, ListOrder, KeysFresh
  <2>3. ASSUME NEW m \in Linked, NEW n \in Linked, m # n
        PROVE  held'[data[m]] \intersect held'[data[n]] = {}
    <3>1. held[data[m]] \intersect held[data[n]] = {}
      BY <2>3 DEF ListSound, ListOrder, NodesDisjoint
    <3>2. m \in Node /\ n \in Node /\ data[m] \in Payload /\ data[n] \in Payload
      BY <1>4, <2>1
    <3> QED
      BY <1>4, <1>5, <2>2, <2>3, <3>1, <3>2
  <2> QED
    BY <1>3, <2>1, <2>3 DEF NodesDisjoint
<1> QED
  BY <1>5, <1>7, <1>8, <1>9, <1>10, <1>11, <1>12, <1>13 DEF ListOrder

-----------------------------------------------------------------------------
(* ListOrder is inductive: the halves of a split.                          *)

\* merge of a payload and a key it has not: their keys, in order.
LEMMA MergedAscends ==
  ASSUME Ownership, RunsAscend, NEW p \in Payload, NEW k \in Key, k \notin held[p]
  PROVE  /\ Ascends(Merged(p, k), Len(order[p]) + 1)
         /\ Values(Merged(p, k), Len(order[p]) + 1) = held[p] \union {k}
<1>1. PICK n, run, i, m :
        /\ n = Len(order[p]) /\ run = Named(keys[p], order[p])
        /\ i = SortedPosition(p, order[p], k) + 1 /\ m = Merged(p, k)
  OBVIOUS
<1>2. /\ n \in Nat /\ \A r \in 1..n : run[r] \in Key /\ run[r] \in Nat
      /\ Ascends(run, n) /\ held[p] = Values(run, n)
  BY <1>1, RunFacts
<1>3. Cuts(run, n, i - 1, k) /\ i - 1 \in 0..n /\ i \in 1..(n + 1)
  <2>1. SortedPosition(p, order[p], k) \in 0..n
    BY <1>1, PositionFindsPlace DEF Cuts
  <2>2. i - 1 = SortedPosition(p, order[p], k)
    BY <1>1, <2>1
  <2> QED
    BY <1>1, <1>2, <2>1, <2>2, PositionFindsPlace
<1>4. run \in Seq(Key) /\ Len(run) = n /\ m = InsertAt(run, i, k)
  <2>1. DOMAIN order[p] = 1..n
    BY <1>1, PayloadFacts
  <2>2. run = [r \in 1..n |-> keys[p][order[p][r]]]
    BY <1>1, <2>1 DEF Named
  <2>3. run \in [1..n -> Key] /\ DOMAIN run = 1..n
    BY <1>2, <2>2
  <2>4. run \in Seq(Key) /\ Len(run) = n
    BY <1>2, <2>3
  <2>5. m = InsertAt(run, i, k)
    BY <1>1, <2>1, <2>2 DEF Merged, KeyAt
  <2> QED
    BY <2>4, <2>5
<1>5. InsertedAt(m, run, n, i - 1, k)
  BY <1>3, <1>4, InsertAtInserts
<1>6. k \in Nat
  BY SizeFacts
<1>7. Ascends(m, n + 1)
  BY <1>2, <1>3, <1>5, <1>6, InsertedRun
<1>8. Values(m, n + 1) = Values(run, n) \union {k}
  BY <1>2, <1>3, <1>5, <1>6, InsertedRun
<1> QED
  BY <1>1, <1>2, <1>7, <1>8

\* An ascending run cut in two: both ascend, the first below the second.
LEMMA CutInTwo ==
  ASSUME NEW m \in Seq(Key), NEW n \in Nat, Len(m) = n, NEW c \in 1..(n - 1), Ascends(m, n)
  PROVE  LET l == SubSeq(m, 1, c)
             r == SubSeq(m, c + 1, n)
         IN  /\ Ascends(l, c) /\ Ascends(r, n - c)
             /\ Values(l, c) \union Values(r, n - c) = Values(m, n)
             /\ \A j \in Values(l, c), k \in Values(r, n - c) : j < k
<1> SUFFICES ASSUME NEW l, l = SubSeq(m, 1, c), NEW r, r = SubSeq(m, c + 1, n)
             PROVE  /\ Ascends(l, c) /\ Ascends(r, n - c)
                    /\ Values(l, c) \union Values(r, n - c) = Values(m, n)
                    /\ \A j \in Values(l, c), k \in Values(r, n - c) : j < k
  OBVIOUS
<1>1. \A j \in 1..c : j \in 1..n /\ l[j] = m[j]
  <2>1. \A j \in 1..c : l[j] = m[1 + j - 1]
    BY SubSeqProperties
  <2> QED
    BY <2>1
<1>2. \A j \in 1..(n - c) : c + j \in 1..n /\ r[j] = m[c + j]
  <2>1. Len(r) = n - c /\ \A j \in 1..(n - c) : r[j] = m[(c + 1) + j - 1]
    BY SubSeqProperties
  <2>2. \A j \in 1..(n - c) : (c + 1) + j - 1 = c + j
    OBVIOUS
  <2> QED
    BY <2>1, <2>2
<1>3. Ascends(l, c)
  BY <1>1 DEF Ascends
<1>4. Ascends(r, n - c)
  BY <1>2 DEF Ascends
<1>5. Values(l, c) \union Values(r, n - c) = Values(m, n)
  <2>1. Values(l, c) \subseteq Values(m, n)
    BY <1>1 DEF Values
  <2>2. Values(r, n - c) \subseteq Values(m, n)
    BY <1>2 DEF Values
  <2>3. ASSUME NEW j \in 1..n PROVE m[j] \in Values(l, c) \union Values(r, n - c)
    <3>1. CASE j <= c
      BY <1>1, <3>1 DEF Values
    <3>2. CASE c < j
      <4>1. j - c \in 1..(n - c) /\ c + (j - c) = j
        BY <3>2
      <4>2. r[j - c] = m[j]
        BY <1>2, <4>1
      <4> QED
        BY <4>1, <4>2 DEF Values
    <3> QED
      BY <3>1, <3>2
  <2>4. Values(m, n) \subseteq Values(l, c) \union Values(r, n - c)
    BY <2>3 DEF Values
  <2> QED
    BY <2>1, <2>2, <2>4
<1>6. ASSUME NEW i \in 1..c, NEW j \in 1..(n - c) PROVE l[i] < r[j]
  <2>1. i \in 1..n /\ c + j \in 1..n /\ i < c + j /\ l[i] = m[i] /\ r[j] = m[c + j]
    BY <1>1, <1>2
  <2> QED
    BY <2>1 DEF Ascends
<1>7. \A j \in Values(l, c), k \in Values(r, n - c) : j < k
  BY <1>6 DEF Values
<1> QED
  BY <1>3, <1>4, <1>5, <1>7

\* A payload filled with a run holds that run.
LEMMA FilledHolds ==
  ASSUME NEW run \in Seq(Key), NEW n, n = Len(run), n \in 1..Capacity, NEW p \in Payload',
         order'[p] = FilledOrder(run), keys'[p] = FilledKeys(run), Ascends(run, n)
  PROVE  /\ order'[p] # <<>> /\ order'[p][1] = 1
         /\ held'[p] = Values(run, n) /\ first'[p] = run[1]
         /\ \A i, j \in DOMAIN order'[p] :
              i < j => keys'[p][order'[p][i]] < keys'[p][order'[p][j]]
<1>1. /\ order'[p] \in Seq(Slot) /\ Len(order'[p]) = n
      /\ \A r \in 1..n : order'[p][r] = r /\ keys'[p][r] = run[r]
  BY SizeFacts, FilledPayload
<1>2. n \in Nat /\ 1 \in 1..n
  BY SizeFacts
<1>3. DOMAIN order'[p] = 1..n /\ order'[p] # <<>>
  BY <1>1, <1>2
<1>4. \A r \in 1..n : keys'[p][order'[p][r]] = run[r]
  BY <1>1
<1>5. held'[p] = Values(run, n)
  BY <1>3, <1>4 DEF held, KeysOf, KeyAt, Values
<1>6. first'[p] = run[1]
  BY <1>2, <1>3, <1>4 DEF first, KeyAt
<1>7. \A i, j \in DOMAIN order'[p] : i < j => keys'[p][order'[p][i]] < keys'[p][order'[p][j]]
  BY <1>3, <1>4 DEF Ascends
<1> QED
  BY <1>1, <1>2, <1>3, <1>5, <1>6, <1>7

\* What the halves of a split hold, before anybody can see them.
LEMMA SplitBuildHeld ==
  ASSUME ListSound, NEW w \in Writer, NEW h \in 1..MaxHeight, SplitBuild(w, h)
  PROVE  /\ \A p \in Payload :
              order'[p] = order[p] /\ held'[p] = held[p] /\ first'[p] = first[p]
         /\ \A p \in {Len(order) + 1, Len(order) + 2} : order'[p] # <<>>
         /\ order'[Len(order) + 2][1] = 1
         /\ first'[Len(order) + 1] = RightRun(w)[1]
         /\ held'[Len(order) + 2] \union held'[Len(order) + 1] = held[loc[w].d] \union {loc[w].key}
         /\ \A j \in held'[Len(order) + 2], k \in held'[Len(order) + 1] : j < k
         /\ RunsAscend'
<1>1. PICK d, k, n, m, l, r, left, right :
        /\ d = loc[w].d /\ k = loc[w].key /\ n = Len(order[d]) + 1 /\ m = Merged(d, k)
        /\ l = LeftRun(w) /\ r = RightRun(w)
        /\ right = Len(order) + 1 /\ left = Len(order) + 2
  OBVIOUS
<1>2. /\ pc[w] = "split" /\ k \in Key /\ d \in Payload /\ data[loc[w].cur] = d
  BY <1>1, SplitBuildMemory DEF ListSound
<1>3. k \notin held[d]
  BY <1>1, <1>2 DEF ListSound, ListOrder, KeysFresh, Pending, Working, Building
<1>4. n = Capacity + 1 /\ n \in Nat /\ Mid \in 1..(n - 1) /\ n - Mid \in 1..Capacity /\ Mid \in 1..Capacity
  <2>1. Len(order[d]) = Capacity
    BY <1>1, <1>2 DEF ListSound, Ownership, PendingOK
  <2> QED
    BY <1>1, <2>1, SizeFacts
<1>5. m \in Seq(Key) /\ Len(m) = n
  BY <1>1, <1>2, MergedRun DEF ListSound, Ownership
<1>6. Ascends(m, n) /\ Values(m, n) = held[d] \union {k}
  BY <1>1, <1>2, <1>3, MergedAscends DEF ListSound, ListOrder
<1>7. l = SubSeq(m, 1, Mid) /\ r = SubSeq(m, Mid + 1, n)
  BY <1>1, <1>4 DEF LeftRun, RightRun
<1>8. l \in Seq(Key) /\ Len(l) = Mid /\ r \in Seq(Key) /\ Len(r) = n - Mid
  BY <1>4, <1>5, <1>7, SubSeqProperties
<1>9. /\ Ascends(l, Mid) /\ Ascends(r, n - Mid)
      /\ Values(l, Mid) \union Values(r, n - Mid) = Values(m, n)
      /\ \A i \in Values(l, Mid), j \in Values(r, n - Mid) : i < j
  BY <1>4, <1>5, <1>6, <1>7, CutInTwo
<1>10. /\ order'[right] = FilledOrder(r) /\ keys'[right] = FilledKeys(r) /\ right \in Payload'
       /\ order'[left] = FilledOrder(l) /\ keys'[left] = FilledKeys(l) /\ left \in Payload'
       /\ Payload' = Payload \union {right, left}
       /\ \A p \in Payload : order'[p] = order[p] /\ keys'[p] = keys[p]
  BY <1>1, SplitBuildMemory DEF ListSound
<1>11. /\ order'[right] # <<>> /\ first'[right] = r[1] /\ held'[right] = Values(r, n - Mid)
       /\ \A i, j \in DOMAIN order'[right] :
            i < j => keys'[right][order'[right][i]] < keys'[right][order'[right][j]]
  BY <1>4, <1>8, <1>9, <1>10, FilledHolds
<1>12. /\ order'[left] # <<>> /\ order'[left][1] = 1 /\ held'[left] = Values(l, Mid)
       /\ \A i, j \in DOMAIN order'[left] :
            i < j => keys'[left][order'[left][i]] < keys'[left][order'[left][j]]
  BY <1>4, <1>8, <1>9, <1>10, FilledHolds
<1>13. ASSUME NEW p \in Payload
       PROVE  order'[p] = order[p] /\ held'[p] = held[p] /\ first'[p] = first[p]
  <2>1. p \in Payload' /\ order'[p] = order[p] /\ keys'[p] = keys[p]
    BY <1>10
  <2> QED
    BY <2>1 DEF held, first, KeysOf, KeyAt
<1>14. RunsAscend'
  <2>1. ASSUME NEW p \in Payload', NEW i \in DOMAIN order'[p], NEW j \in DOMAIN order'[p], i < j
        PROVE  keys'[p][order'[p][i]] < keys'[p][order'[p][j]]
    <3>1. CASE p \in Payload
      BY <1>10, <2>1, <3>1 DEF ListSound, ListOrder, RunsAscend, KeyAt
    <3>2. CASE p = right
      BY <1>11, <2>1, <3>2
    <3>3. CASE p = left
      BY <1>12, <2>1, <3>3
    <3> QED
      BY <1>10, <3>1, <3>2, <3>3
  <2> QED
    BY <2>1 DEF RunsAscend, KeyAt
<1> QED
  BY <1>1, <1>6, <1>9, <1>11, <1>12, <1>13, <1>14

\* The halves are nobody's yet: the keys of the full node, and the new one.
LEMMA SplitBuildList ==
  ASSUME ListSound, NEW w \in Writer, NEW h \in 1..MaxHeight, SplitBuild(w, h)
  PROVE  ListOrder'
<1>1. PICK d, k, c, left, right, sib :
        /\ d = loc[w].d /\ k = loc[w].key /\ c = loc[w].cur
        /\ right = Len(order) + 1 /\ left = Len(order) + 2 /\ sib = Len(data) + 1
  OBVIOUS
<1>2. /\ pc[w] = "split" /\ pc'[w] = "splitHint" /\ c \in Node /\ k \in Key
      /\ d \in Payload /\ data[c] = d
      /\ loc'[w].left = left /\ loc'[w].right = right /\ loc'[w].sib = sib
      /\ loc'[w].cur = c /\ loc'[w].key = k /\ loc'[w].d = d
      /\ \A v \in Writer \ {w} : pc'[v] = pc[v] /\ loc'[v] = loc[v]
      /\ started' = started
  BY <1>1, SplitBuildMemory DEF ListSound
<1>3. /\ \A p \in Payload : next'[p] = next[p]
      /\ next'[right] = next[d] /\ next'[left] = sib
      /\ \A n \in Node : data'[n] = data[n] /\ hint'[n] = hint[n] /\ tower'[n] = tower[n]
      /\ data'[sib] = right /\ hint'[sib] = SiblingHint(w)
      /\ \A l \in Level : tower'[sib][l] = Null
  BY <1>1, SplitBuildMemory DEF ListSound
<1>4. /\ Node' = Node \union {sib} /\ Payload' = Payload \union {right, left}
      /\ sib \notin Node /\ right \notin Payload /\ left \notin Payload /\ left # right
  BY <1>1, SplitBuildMemory DEF ListSound
<1>5. /\ \A p \in Payload :
            order'[p] = order[p] /\ held'[p] = held[p] /\ first'[p] = first[p]
      /\ order'[right] # <<>> /\ order'[left] # <<>> /\ order'[left][1] = 1
      /\ first'[right] = RightRun(w)[1]
      /\ held'[left] \union held'[right] = held[d] \union {k}
      /\ \A i \in held'[left], j \in held'[right] : i < j
      /\ RunsAscend'
  BY <1>1, SplitBuildHeld
<1>6. /\ \A n \in Node : data[n] \in Payload
      /\ \A p \in Payload : next[p] \in Node \union {Null} /\ next[p] # HeadNode
      /\ \A n \in Node, l \in Level : tower[n][l] \in Node \union {Null}
      /\ HeadNode \in Node /\ HeadNode # sib /\ Null # sib /\ Null \notin Node
  BY <1>1, <1>4 DEF ListSound, ListOrder, LinksForward, Ownership, PointersOK, TypeOK, Node, Null
<1>7. \A v \in Writer : pc[v] \in Building =>
        /\ v # w /\ d # loc[v].left /\ d # loc[v].right
        /\ loc[v].sib \in Node /\ loc[v].left \in Payload /\ loc[v].right \in Payload
        /\ loc[v].d \in Payload
  BY <1>1, <1>2, WorkedIsNoHalf, LeftKeepsFirst
     DEF Working, Building, Splitting, ListSound, Ownership, LocalOK
<1>8. KeysFresh'
  <2>1. \A p \in Payload' : held'[p] \subseteq started'
    BY <1>1, <1>2, <1>4, <1>5 DEF ListSound, ListOrder, KeysFresh, Pending, Working
  <2>2. \A v \in Writer : loc'[v].key = loc[v].key /\ (pc'[v] \in Pending => pc[v] \in Pending)
    BY <1>1, <1>2 DEF Pending, Working
  <2>3. ASSUME NEW v \in Writer, pc'[v] \in Pending, NEW p \in Payload', loc[v].key \in held'[p]
        PROVE  pc'[v] \in Building /\ p \in {loc'[v].left, loc'[v].right}
    <3>1. CASE p \in Payload
      <4>1. loc[v].key \in held[p]
        BY <1>5, <2>3, <3>1
      <4>2. pc[v] \in Building /\ p \in {loc[v].left, loc[v].right}
        BY <2>2, <2>3, <3>1, <4>1 DEF ListSound, ListOrder, KeysFresh
      <4> QED
        BY <1>2, <1>7, <4>2
    <3>2. CASE v = w /\ p \in {right, left}
      BY <1>2, <3>2 DEF Building
    <3>3. CASE v # w /\ p \in {right, left}
      <4>1. loc[v].key # k
        BY <1>1, <1>2, <2>2, <2>3, <3>3 DEF ListSound, ListOrder, KeysFresh, Pending, Working
      <4>2. loc[v].key \in held[d]
        BY <1>5, <2>3, <3>3, <4>1
      <4>3. pc[v] \in Building /\ d \in {loc[v].left, loc[v].right}
        BY <1>2, <2>2, <2>3, <4>2 DEF ListSound, ListOrder, KeysFresh
      <4> QED
        BY <1>7, <4>3
    <3> QED
      BY <1>4, <3>1, <3>2, <3>3
  <2>4. ASSUME NEW v \in Writer, pc'[v] \in Pending
        PROVE  /\ loc[v].key \in started'
               /\ \A u \in Writer : pc'[u] \in Pending /\ loc[u].key = loc[v].key => u = v
    BY <1>2, <2>2, <2>4 DEF ListSound, ListOrder, KeysFresh
  <2> QED
    BY <2>1, <2>2, <2>3, <2>4 DEF KeysFresh, Pending, Working, Building
<1>9. SiblingsHidden'
  <2> SUFFICES ASSUME NEW v \in Writer, pc'[v] \in Building, NEW s, s = loc'[v].sib
               PROVE  /\ data'[s] = loc'[v].right
                      /\ \A p \in Payload' : next'[p] = s => p = loc'[v].left
                      /\ \A n \in Node', l \in Level : tower'[n][l] # s
                      /\ \A u \in Writer :
                           /\ pc'[u] # "idle" => loc'[u].cur # s
                           /\ pc'[u] \in Splitting /\ loc'[u].sib = s => u = v
    BY DEF SiblingsHidden, Building, Splitting, Level, Linking
  <2>1. ASSUME NEW u \in Writer \ {w}
        PROVE  /\ pc[u] # "idle" => loc[u].cur \in Node
               /\ pc[u] \in Splitting => loc[u].sib \in Node
    BY DEF ListSound, Ownership, LocalOK
  <2>2. CASE v = w
    BY <1>2, <1>3, <1>4, <1>6, <2>1, <2>2
  <2>3. CASE v # w
    <3>1. pc[v] \in Building /\ s = loc[v].sib /\ loc'[v] = loc[v] /\ s \in Node
      BY <1>2, <1>7, <2>3
    <3>2. /\ data[s] = loc[v].right
          /\ \A p \in Payload : next[p] = s => p = loc[v].left
          /\ \A n \in Node, l \in Level : tower[n][l] # s
          /\ \A u \in Writer :
               /\ pc[u] # "idle" => loc[u].cur # s
               /\ pc[u] \in Splitting /\ loc[u].sib = s => u = v
      BY <3>1 DEF ListSound, ListOrder, SiblingsHidden
    <3>3. \A p \in Payload' : next'[p] = s => p = loc'[v].left
      BY <1>2, <1>3, <1>4, <1>7, <3>1, <3>2
    <3>4. \A n \in Node', l \in Level : tower'[n][l] # s
      BY <1>3, <1>4, <1>6, <3>1, <3>2
    <3>5. \A u \in Writer : /\ pc'[u] # "idle" => loc'[u].cur # s
                            /\ pc'[u] \in Splitting /\ loc'[u].sib = s => u = v
      BY <1>1, <1>2, <1>4, <3>1, <3>2
    <3> QED
      BY <1>3, <3>1, <3>2, <3>3, <3>4, <3>5
  <2> QED
    BY <2>2, <2>3
<1>10. LinksForward'
  <2>1. \A p \in Payload' : next'[p] # HeadNode
    BY <1>2, <1>3, <1>4, <1>6
  <2>2. \A n \in Node', l \in Level : tower'[n][l] # HeadNode
    BY <1>3, <1>4, <1>6 DEF ListSound, ListOrder, LinksForward, HeadNode, Null
  <2>3. \A v \in Writer : pc'[v] \in Splitting => loc'[v].sib # HeadNode
    BY <1>2, <1>6 DEF ListSound, ListOrder, LinksForward
  <2>4. \A n \in Node' \ {HeadNode} : order'[data'[n]] # <<>>
    BY <1>3, <1>4, <1>5, <1>6 DEF ListSound, ListOrder, LinksForward
  <2>5. ASSUME NEW n \in Node, next[data[n]] # Null
        PROVE  /\ order[data[n]] # <<>> /\ next[data[n]] \in Node
               /\ \A j \in held[data[n]] : j < first[data[next[data[n]]]]
    BY <1>6, <2>5 DEF ListSound, ListOrder, LinksForward
  <2>6. ASSUME NEW n \in Node', next'[data'[n]] # Null
        PROVE  /\ order'[data'[n]] # <<>>
               /\ \A j \in held'[data'[n]] : j < first'[data'[next'[data'[n]]]]
    <3>1. CASE n \in Node
      BY <1>3, <1>5, <1>6, <2>5, <2>6, <3>1
    <3>2. CASE n = sib
      <4>1. data'[n] = right /\ next'[right] = next[data[c]] /\ next[data[c]] # Null
        BY <1>2, <1>3, <2>6, <3>2
      <4>2. /\ next[d] \in Node /\ \A j \in held[d] : j < first[data[next[d]]]
        BY <1>2, <2>5, <4>1
      <4>3. k < first[data[next[d]]]
        BY <1>1, <1>2, <4>1 DEF ListSound, ListOrder, WritersPlaced, Pending, Working
      <4>4. first'[data'[next[d]]] = first[data[next[d]]]
        BY <1>3, <1>5, <1>6, <4>2
      <4> QED
        BY <1>2, <1>5, <4>1, <4>2, <4>3, <4>4
    <3> QED
      BY <1>4, <3>1, <3>2
  <2> QED
    BY <2>1, <2>2, <2>3, <2>4, <2>6 DEF LinksForward, Splitting, Building, Linking, Level
<1>11. HintsFollow'
  <2>1. ASSUME NEW n \in Node' \ {HeadNode} PROVE hint'[n] = Hint[first'[data'[n]]]
    <3>1. CASE n \in Node
      BY <1>3, <1>5, <1>6, <3>1 DEF ListSound, ListOrder, HintsFollow
    <3>2. CASE n = sib
      BY <1>3, <1>5, <3>2 DEF SiblingHint
    <3> QED
      BY <1>4, <3>1, <3>2
  <2> QED
    BY <2>1 DEF HintsFollow
<1>12. WritersPlaced'
  <2> SUFFICES ASSUME NEW v \in Writer, pc'[v] \in Pending
               PROVE  /\ loc'[v].cur # HeadNode => first'[data'[loc'[v].cur]] < loc'[v].key
                      /\ pc'[v] \in Working /\ next'[loc'[v].d] # Null =>
                           loc'[v].key < first'[data'[next'[loc'[v].d]]]
                      /\ pc'[v] = "hint" => loc'[v].cur = HeadNode
    BY DEF WritersPlaced, Pending, Working
  <2>1. /\ pc[v] \in Pending /\ (pc'[v] \in Working => pc[v] \in Working)
        /\ (pc'[v] = "hint" => pc[v] = "hint")
        /\ loc'[v].cur = loc[v].cur /\ loc'[v].key = loc[v].key /\ loc'[v].d = loc[v].d
    BY <1>1, <1>2 DEF Pending, Working
  <2>2. /\ loc[v].cur # HeadNode => first[data[loc[v].cur]] < loc[v].key
        /\ pc[v] \in Working /\ next[loc[v].d] # Null =>
             loc[v].key < first[data[next[loc[v].d]]]
        /\ pc[v] = "hint" => loc[v].cur = HeadNode
    BY <2>1 DEF ListSound, ListOrder, WritersPlaced
  <2>3. loc[v].cur \in Node /\ (pc[v] \in Working => loc[v].d \in Payload)
    BY <1>6, <2>1 DEF ListSound, Ownership, LocalOK, LockOK, Pending, Working
  <2> QED
    BY <1>3, <1>5, <1>6, <2>1, <2>2, <2>3
<1>13. HalvesOK'
  <2> DEFINE Half(v, a, b, e) ==
               /\ next'[a] = loc'[v].sib /\ next'[b] = next'[e]
               /\ order'[a] # <<>> /\ order'[a][1] = 1 /\ order'[b] # <<>>
               /\ held'[a] \union held'[b] = held'[e] \union {loc'[v].key}
               /\ \A i \in held'[a], j \in held'[b] : i < j
  <2> SUFFICES ASSUME NEW v \in Writer, pc'[v] \in Building
               PROVE  Half(v, loc'[v].left, loc'[v].right, loc'[v].d)
    BY Zenon DEF HalvesOK, Building
  <2> SUFFICES ASSUME NEW a, NEW b, NEW e,
                      a = loc'[v].left, b = loc'[v].right, e = loc'[v].d
               PROVE  Half(v, a, b, e)
    OBVIOUS
  <2>1. CASE v = w
    BY <1>2, <1>3, <1>5, <2>1
  <2>2. CASE v # w
    <3>1. pc[v] \in Building /\ loc'[v] = loc[v]
      BY <1>2, <2>2
    <3>2. /\ next[a] = loc[v].sib /\ next[b] = next[e]
          /\ order[a] # <<>> /\ order[a][1] = 1 /\ order[b] # <<>>
          /\ held[a] \union held[b] = held[e] \union {loc[v].key}
          /\ \A i \in held[a], j \in held[b] : i < j
      BY <3>1 DEF ListSound, ListOrder, HalvesOK
    <3>3. a \in Payload /\ b \in Payload /\ e \in Payload
      BY <1>7, <3>1
    <3> QED
      BY <1>3, <1>5, <3>1, <3>2, <3>3
  <2> QED
    BY <2>1, <2>2
<1>14. NodesDisjoint'
  <2>1. Linked' \subseteq Linked
    <3>1. ASSUME NEW n \in Node', n # sib, n \notin Linked
          PROVE  \E v \in Writer : pc'[v] \in Building /\ n = loc'[v].sib
      <4>1. n \in Node
        BY <1>4, <3>1
      <4>2. PICK v \in Writer : pc[v] \in Building /\ n = loc[v].sib
        BY <3>1, <4>1 DEF Linked
      <4> QED
        BY <1>2, <1>7, <4>2
    <3>2. pc'[w] \in Building /\ sib = loc'[w].sib
      BY <1>2 DEF Building
    <3> QED
      BY <3>1, <3>2 DEF Linked, Building
  <2>2. Linked \subseteq Node
    BY DEF Linked
  <2> QED
    BY <1>3, <1>5, <1>6, <2>1, <2>2 DEF ListSound, ListOrder, NodesDisjoint
<1> QED
  BY <1>5, <1>8, <1>9, <1>10, <1>11, <1>12, <1>13, <1>14 DEF ListOrder

-----------------------------------------------------------------------------
(* ListOrder is inductive: the store that installs a split.                *)

\* The locals of a writer whose split is done.
LEMMA SplitDataLocals ==
  ASSUME Ownership, NEW w \in Writer, SplitData(w)
  PROVE  /\ pc[w] = "splitData" /\ pc'[w] \in {"find", "unlock"}
         /\ loc'[w].cur = loc[w].cur /\ loc'[w].sib = loc[w].sib /\ loc'[w].key = loc[w].key
         /\ loc'[w].right = loc[w].right
         /\ pc'[w] = "find" =>
              /\ loc'[w].pred = HeadNode /\ loc'[w].lv = MaxHeight - 1 /\ loc'[w].goal = 1
              /\ 1 \in Level /\ 1 < height[loc[w].sib]
         /\ \A v \in Writer \ {w} : pc'[v] = pc[v] /\ loc'[v] = loc[v]
         /\ UNCHANGED <<keys, order, next, hint, height, tower, started>>
         /\ Payload' = Payload /\ Node' = Node
         /\ \A n \in Node : data'[n] = IF n = loc[w].cur THEN loc[w].left ELSE data[n]
<1>1. /\ loc[w] \in Local /\ pc \in [Writer -> Label] /\ loc \in [Writer -> Local]
      /\ loc[w].sib \in Node /\ height[loc[w].sib] \in 1..MaxHeight /\ pc[w] = "splitData"
  <2>1. /\ loc[w] \in Local /\ pc \in [Writer -> Label] /\ loc \in [Writer -> Local]
        /\ loc[w].sib \in Node /\ pc[w] = "splitData"
    BY DEF Ownership, TypeOK, LocalOK, SplitData, Splitting
  <2>2. height \in Seq(1..MaxHeight) /\ Node = 1..Len(height)
    BY DEF Ownership, TypeOK, PointersOK, Node
  <2> QED
    BY <2>1, <2>2, ElementOfSeq
<1>2. /\ pc'[w] \in {"find", "unlock"}
      /\ loc'[w].cur = loc[w].cur /\ loc'[w].sib = loc[w].sib /\ loc'[w].key = loc[w].key
      /\ loc'[w].right = loc[w].right
      /\ pc'[w] = "find" =>
           /\ loc'[w].pred = HeadNode /\ loc'[w].lv = MaxHeight - 1 /\ loc'[w].goal = 1
           /\ 1 \in Level /\ 1 < height[loc[w].sib]
      /\ \A v \in Writer \ {w} : pc'[v] = pc[v] /\ loc'[v] = loc[v]
  <2>1. CASE height[loc[w].sib] > 1
    <3> DEFINE x == Finding(loc[w], 1, 1)
    <3>1. pc' = [pc EXCEPT ![w] = "find"] /\ loc' = [loc EXCEPT ![w] = x]
      BY <1>1, <2>1 DEF SplitData, Goto
    <3>2. 1 \in Level /\ 1 \in 1..MaxTries
      BY <1>1, <2>1, SizeFacts DEF Level
    <3>3. /\ x.cur = loc[w].cur /\ x.sib = loc[w].sib /\ x.key = loc[w].key
          /\ x.right = loc[w].right /\ x.pred = HeadNode /\ x.lv = MaxHeight - 1 /\ x.goal = 1
      BY <1>1, <3>2, FindingIsLocal
    <3> HIDE DEF x
    <3> QED
      BY <1>1, <2>1, <3>1, <3>2, <3>3
  <2>2. CASE ~(height[loc[w].sib] > 1)
    BY <1>1, <2>2 DEF SplitData, Goto
  <2> QED
    BY <2>1, <2>2
<1>3. UNCHANGED <<keys, order, next, hint, height, tower, started>> /\ Payload' = Payload
  BY DEF SplitData, payloadVars, Payload
<1>4. Node' = Node /\ \A n \in Node : data'[n] = IF n = loc[w].cur THEN loc[w].left ELSE data[n]
  <2>1. /\ data \in Seq(Nat) /\ loc[w].cur \in 1..Len(data) /\ loc[w].left \in Nat
        /\ data' = [data EXCEPT ![loc[w].cur] = loc[w].left]
    BY <1>1 DEF Ownership, TypeOK, LocalOK, SplitData, Node, Local
  <2>2. Len(data') = Len(data)
    BY <2>1, ExceptSeq
  <2> QED
    BY <2>1, <2>2 DEF Node
<1> QED
  BY <1>1, <1>2, <1>3, <1>4

\* What payloads hold is not affected.
LEMMA SplitDataHeld ==
  ASSUME ListSound, NEW w \in Writer, SplitData(w)
  PROVE  held' = held /\ first' = first /\ RunsAscend'
<1>1. order' = order /\ keys' = keys
  BY SplitDataLocals DEF ListSound
<1> QED
  BY <1>1, HeldStays DEF ListSound, ListOrder

\* The sibling enters the list.
LEMMA SplitDataLinked ==
  ASSUME ListSound, NEW w \in Writer, SplitData(w)
  PROVE  /\ Linked' = Linked \union {loc[w].sib}
         /\ loc[w].cur \in Linked /\ loc[w].sib \notin Linked
         /\ loc[w].sib \in Node \ {HeadNode} /\ loc[w].sib # loc[w].cur
         /\ data[loc[w].sib] = loc[w].right
<1>1. PICK c, sib : c = loc[w].cur /\ sib = loc[w].sib
  OBVIOUS
<1>2. /\ pc[w] = "splitData" /\ pc'[w] \in {"find", "unlock"} /\ Node' = Node
      /\ \A v \in Writer \ {w} : pc'[v] = pc[v] /\ loc'[v] = loc[v]
  BY SplitDataLocals DEF ListSound
<1>3. /\ sib \in Node \ {HeadNode} /\ data[sib] = loc[w].right /\ sib # c
      /\ \A v \in Writer \ {w} : pc[v] \in Building => loc[v].sib # sib
  BY <1>1, <1>2
     DEF ListSound, ListOrder, SiblingsHidden, LinksForward, Ownership, LocalOK, Building, Splitting
<1>4. c \in Linked /\ sib \notin Linked
  <2>1. \A v \in Writer : pc[v] \in Building => c # loc[v].sib
    BY <1>1, <1>2, CurNotHidden
  <2> QED
    BY <1>1, <1>2, <2>1 DEF ListSound, Ownership, LocalOK, Linked, Building
<1>5. Linked' = Linked \union {sib}
  <2>1. \A v \in Writer : pc'[v] \in Building <=> v # w /\ pc[v] \in Building
    BY <1>2 DEF Building
  <2>2. Linked' = Node' \ {loc'[v].sib : v \in {u \in Writer : pc'[u] \in Building}}
    BY DEF Linked, Node, Building
  <2>3. ASSUME NEW n PROVE n \in Linked' <=> n \in Linked \/ n = sib
    BY <1>1, <1>2, <1>3, <2>1, <2>2 DEF Linked, Building
  <2> QED
    BY <2>3
<1> QED
  BY <1>1, <1>3, <1>4, <1>5

\* The node now has the left half, and the right half a node of its own.
LEMMA SplitDataList ==
  ASSUME ListSound, NEW w \in Writer, SplitData(w)
  PROVE  ListOrder'
<1>1. PICK d, k, c, left, right, sib :
        /\ d = loc[w].d /\ k = loc[w].key /\ c = loc[w].cur
        /\ right = loc[w].right /\ left = loc[w].left /\ sib = loc[w].sib
  OBVIOUS
<1>2. /\ pc[w] = "splitData" /\ pc'[w] \in {"find", "unlock"}
      /\ loc'[w].cur = c /\ loc'[w].sib = sib
      /\ \A v \in Writer \ {w} : pc'[v] = pc[v] /\ loc'[v] = loc[v]
      /\ UNCHANGED <<keys, order, next, hint, tower, started>>
      /\ Payload' = Payload /\ Node' = Node
      /\ \A n \in Node : data'[n] = IF n = c THEN left ELSE data[n]
  BY <1>1, SplitDataLocals DEF ListSound
<1>3. held' = held /\ first' = first /\ RunsAscend'
  BY SplitDataHeld
<1>4. /\ c \in Node /\ data[c] = d /\ k \in Key /\ left \in Payload /\ right \in Payload
      /\ d \in Payload
      /\ c # HeadNode => first[left] = first[d]
  BY <1>1, <1>2, LeftKeepsFirst DEF Building
<1>5. /\ next[left] = sib /\ order[left] # <<>> /\ order[right] # <<>>
      /\ held[left] \union held[right] = held[d] \union {k}
      /\ \A i \in held[left], j \in held[right] : i < j
  BY <1>1, <1>2 DEF ListSound, ListOrder, HalvesOK, Building
<1>6. /\ sib \in Node /\ sib # HeadNode /\ sib # c /\ data[sib] = right
      /\ \A n \in Node : data[n] # left
  BY <1>1, <1>2 DEF ListSound, ListOrder, SiblingsHidden, LinksForward, Ownership, PayloadsOK,
                    LocalOK, Building, Splitting
<1>7. /\ \A n \in Node : data[n] \in Payload /\ (data[n] = right => n = sib)
      /\ \A p \in Payload : next[p] \in Node \union {Null} /\ next[p] # HeadNode
  BY <1>6 DEF ListSound, ListOrder, LinksForward, Ownership, PointersOK, PayloadsOK
<1>8. ASSUME NEW n \in Node \ {HeadNode}
      PROVE  first[data'[n]] = first[data[n]] /\ order[data'[n]] # <<>>
  <2>1. CASE n = c
    BY <1>2, <1>4, <1>5, <2>1
  <2>2. CASE n # c
    BY <1>2, <2>2 DEF ListSound, ListOrder, LinksForward
  <2> QED
    BY <2>1, <2>2
<1>9. \A v \in Writer : /\ pc'[v] \in Pending => v # w /\ pc[v] \in Pending
                        /\ pc'[v] \in Building => v # w /\ pc[v] \in Building
                        /\ pc'[v] # "idle" => pc[v] # "idle"
                        /\ pc'[v] \in Splitting => pc[v] \in Splitting
                        /\ loc'[v].cur = loc[v].cur /\ loc'[v].sib = loc[v].sib
  BY <1>1, <1>2 DEF Pending, Working, Building, Splitting, Linking
<1>10. KeysFresh'
  <2>1. \A v \in Writer : pc'[v] \in Pending => pc[v] \in Pending /\ pc'[v] = pc[v] /\ loc'[v] = loc[v]
    BY <1>2, <1>9
  <2>2. /\ \A p \in Payload : held[p] \subseteq started
        /\ \A v \in Writer : pc[v] \in Pending =>
             /\ loc[v].key \in started
             /\ \A u \in Writer : pc[u] \in Pending /\ loc[u].key = loc[v].key => u = v
             /\ \A p \in Payload : loc[v].key \in held[p] =>
                  pc[v] \in Building /\ p \in {loc[v].left, loc[v].right}
    BY DEF ListSound, ListOrder, KeysFresh
  <2> QED
    BY <1>2, <1>3, <2>1, <2>2 DEF KeysFresh, Pending, Working, Building
<1>11. SiblingsHidden'
  <2> SUFFICES ASSUME NEW v \in Writer, pc'[v] \in Building, NEW s, s = loc'[v].sib
               PROVE  /\ data'[s] = loc'[v].right
                      /\ \A p \in Payload : next[p] = s => p = loc'[v].left
                      /\ \A n \in Node, l \in Level : tower[n][l] # s
                      /\ \A u \in Writer :
                           /\ pc'[u] # "idle" => loc'[u].cur # s
                           /\ pc'[u] \in Splitting /\ loc'[u].sib = s => u = v
    BY <1>2 DEF SiblingsHidden, Building, Splitting, Level, Linking
  <2>1. pc[v] \in Building /\ v # w /\ s = loc[v].sib /\ loc'[v] = loc[v] /\ s \in Node
    BY <1>2, <1>9 DEF ListSound, Ownership, LocalOK, Building, Splitting
  <2>2. /\ data[s] = loc[v].right
        /\ \A p \in Payload : next[p] = s => p = loc[v].left
        /\ \A n \in Node, l \in Level : tower[n][l] # s
        /\ \A u \in Writer :
             /\ pc[u] # "idle" => loc[u].cur # s
             /\ pc[u] \in Splitting /\ loc[u].sib = s => u = v
    BY <2>1 DEF ListSound, ListOrder, SiblingsHidden
  <2>3. s # c
    BY <1>1, <1>2, <2>2
  <2> QED
    BY <1>2, <1>9, <2>1, <2>2, <2>3
<1>12. LinksForward'
  <2>1. \A v \in Writer : pc'[v] \in Splitting => loc'[v].sib # HeadNode
    BY <1>9 DEF ListSound, ListOrder, LinksForward
  <2>2. ASSUME NEW n \in Node, next[data'[n]] # Null
        PROVE  /\ order[data'[n]] # <<>>
               /\ \A j \in held[data'[n]] : j < first[data'[next[data'[n]]]]
    <3>1. CASE n = c
      <4>1. data'[n] = left /\ data'[sib] = right
        BY <1>2, <1>6, <3>1
      <4>2. first[right] \in held[right]
        BY <1>4, <1>5, FirstIsLeast DEF ListSound, ListOrder
      <4> QED
        BY <1>5, <4>1, <4>2
    <3>2. CASE n # c
      <4>1. data'[n] = data[n] /\ next[data[n]] \in Node \ {HeadNode}
        BY <1>2, <1>7, <2>2, <3>2
      <4>2. order[data[n]] # <<>> /\ \A j \in held[data[n]] : j < first[data[next[data[n]]]]
        BY <2>2, <4>1 DEF ListSound, ListOrder, LinksForward
      <4> QED
        BY <1>8, <4>1, <4>2
    <3> QED
      BY <3>1, <3>2
  <2>3. /\ \A p \in Payload : next[p] # HeadNode
        /\ \A n \in Node, l \in Level : tower[n][l] # HeadNode
    BY DEF ListSound, ListOrder, LinksForward
  <2> QED
    BY <1>2, <1>3, <1>8, <2>1, <2>2, <2>3 DEF LinksForward, Splitting, Building, Linking, Level
<1>13. HintsFollow'
  BY <1>2, <1>3, <1>8 DEF ListSound, ListOrder, HintsFollow
<1>14. WritersPlaced'
  <2> SUFFICES ASSUME NEW v \in Writer, pc'[v] \in Pending
               PROVE  /\ loc'[v].cur # HeadNode => first[data'[loc'[v].cur]] < loc'[v].key
                      /\ pc'[v] \in Working /\ next[loc'[v].d] # Null =>
                           loc'[v].key < first[data'[next[loc'[v].d]]]
                      /\ pc'[v] = "hint" => loc'[v].cur = HeadNode
    BY <1>2, <1>3 DEF WritersPlaced, Pending, Working
  <2>1. pc[v] \in Pending /\ pc'[v] = pc[v] /\ loc'[v] = loc[v]
    BY <1>2, <1>9
  <2>2. /\ loc[v].cur # HeadNode => first[data[loc[v].cur]] < loc[v].key
        /\ pc[v] \in Working /\ next[loc[v].d] # Null =>
             loc[v].key < first[data[next[loc[v].d]]]
        /\ pc[v] = "hint" => loc[v].cur = HeadNode
    BY <2>1 DEF ListSound, ListOrder, WritersPlaced
  <2>3. loc[v].cur \in Node /\ (pc[v] \in Working => loc[v].d \in Payload)
    BY <1>7, <2>1 DEF ListSound, Ownership, LocalOK, LockOK, Pending, Working
  <2> QED
    BY <1>7, <1>8, <2>1, <2>2, <2>3
<1>15. HalvesOK'
  <2>1. \A v \in Writer : pc'[v] \in Building => pc[v] \in Building /\ loc'[v] = loc[v]
    BY <1>2, <1>9
  <2>2. HalvesOK /\ held' = held /\ order' = order /\ next' = next
    BY <1>2, <1>3 DEF ListSound, ListOrder
  <2> QED
    BY <2>1, <2>2, Zenon DEF HalvesOK, Building
<1>16. NodesDisjoint'
  <2>1. Linked' \subseteq Linked \union {sib} /\ Linked \subseteq Node
    <3>1. ASSUME NEW n \in Node, n # sib, n \notin Linked
          PROVE  \E v \in Writer : pc'[v] \in Building /\ n = loc'[v].sib
      <4>1. PICK v \in Writer : pc[v] \in Building /\ n = loc[v].sib
        BY <3>1 DEF Linked
      <4> QED
        BY <1>1, <1>2, <3>1, <4>1
    <3> QED
      BY <1>2, <3>1 DEF Linked, Building
  <2>2. c \in Linked
    <3>1. \A v \in Writer : pc[v] \in Building => c # loc[v].sib
      BY <1>1, <1>2, CurNotHidden
    <3> QED
      BY <1>4, <3>1 DEF Linked
  <2>3. ASSUME NEW n \in Linked, n # c, n # sib
        PROVE  /\ data'[n] = data[n]
               /\ held[data[n]] \intersect held[left] = {}
               /\ held[data[n]] \intersect held[right] = {}
    <3>1. data'[n] = data[n] /\ data[n] \in Payload /\ data[n] # left /\ data[n] # right
      BY <1>2, <1>6, <1>7, <2>1, <2>3
    <3>2. held[data[n]] \intersect held[d] = {}
      BY <1>4, <2>2, <2>3 DEF ListSound, ListOrder, NodesDisjoint
    <3>3. k \notin held[data[n]]
      BY <1>1, <1>2, <3>1 DEF ListSound, ListOrder, KeysFresh, Pending, Working
    <3> QED
      BY <1>5, <3>1, <3>2, <3>3
  <2>4. data'[c] = left /\ data'[sib] = right
    BY <1>2, <1>4, <1>6
  <2>5. held[left] \intersect held[right] = {}
    <3>1. held[left] \subseteq Nat
      BY <1>4, PayloadFacts DEF ListSound
    <3> QED
      BY <1>5, <3>1
  <2>6. ASSUME NEW m \in Linked', NEW n \in Linked', m # n
        PROVE  held[data'[m]] \intersect held[data'[n]] = {}
    <3>1. CASE m \in {c, sib} /\ n \in {c, sib}
      BY <2>4, <2>5, <2>6, <3>1
    <3>2. CASE m \notin {c, sib} /\ n \in {c, sib}
      BY <2>1, <2>3, <2>4, <3>2
    <3>3. CASE m \in {c, sib} /\ n \notin {c, sib}
      BY <2>1, <2>3, <2>4, <3>3
    <3>4. CASE m \notin {c, sib} /\ n \notin {c, sib}
      BY <2>1, <2>3, <2>6, <3>4 DEF ListSound, ListOrder, NodesDisjoint
    <3> QED
      BY <3>1, <3>2, <3>3, <3>4
  <2> QED
    BY <1>3, <2>6 DEF NodesDisjoint
<1> QED
  BY <1>3, <1>10, <1>11, <1>12, <1>13, <1>14, <1>15, <1>16 DEF ListOrder

-----------------------------------------------------------------------------
(* The theorems of the list.                                               *)

\* The head alone, with what was inserted before, is in order.
LEMMA ListOrderInit == Init => ListOrder
<1> SUFFICES ASSUME Init PROVE ListOrder
  OBVIOUS
<1> USE SizeFacts
<1>1. Preload \in Seq(Key) /\ Len(Preload) \in 0..Capacity
  BY PreloadAssumption
<1>2. Payload = {1} /\ Node = {1} /\ HeadNode = 1 /\ data[1] = 1 /\ next[1] = Null /\ Null = 0
  BY DEF Init, Payload, Node, HeadNode, Null
<1>3. \A r \in DOMAIN order[1] : KeyAt(1, order[1], r) = Preload[r] /\ r \in DOMAIN Preload
  <2> DEFINE o == FilledOrder(Preload)
             ks == FilledKeys(Preload)
  <2>1. order[1] = o /\ keys[1] = ks
    BY DEF Init
  <2>2. /\ o \in Seq(Slot) /\ Len(o) = Len(Preload)
        /\ \A r \in 1..Len(Preload) : o[r] = r /\ ks[r] = Preload[r]
    BY <1>1, FilledPayload
  <2> HIDE DEF o, ks
  <2>3. DOMAIN o = 1..Len(Preload) /\ DOMAIN Preload = 1..Len(Preload)
    BY <1>1, <2>2
  <2> QED
    BY <2>1, <2>2, <2>3 DEF KeyAt
<1>4. RunsAscend
  BY <1>2, <1>3, PreloadAssumption DEF RunsAscend
<1>5. \A w \in Writer : /\ pc[w] \notin Pending /\ pc[w] \notin Building /\ pc[w] \notin Splitting
  BY DEF Init, Pending, Working, Building, Splitting, Linking
<1>6. KeysFresh
  <2>1. held[1] \subseteq started
    BY <1>2, <1>3 DEF held, KeysOf, Init, ToSet
  <2> QED
    BY <1>2, <1>5, <2>1 DEF KeysFresh
<1>7. SiblingsHidden /\ WritersPlaced /\ HalvesOK
  BY <1>5 DEF SiblingsHidden, WritersPlaced, HalvesOK
<1>8. LinksForward
  <2>1. \A l \in Level : tower[1][l] = Null
    BY DEF Init
  <2> QED
    BY <1>2, <1>5, <2>1 DEF LinksForward
<1>9. HintsFollow /\ NodesDisjoint
  BY <1>2 DEF HintsFollow, NodesDisjoint, Linked
<1> QED
  BY <1>4, <1>6, <1>7, <1>8, <1>9 DEF ListOrder

\* A step that changes nothing.
LEMMA StutterList ==
  ASSUME ListSound, UNCHANGED vars
  PROVE  ListOrder'
<1>1. UNCHANGED <<keys, order, next, data, hint, lock, height, tower, started, pc, loc>>
  BY DEF vars, payloadVars, nodeVars, threadVars
<1>2. Payload' = Payload /\ Node' = Node /\ Linked' = Linked
  BY <1>1 DEF Payload, Node, Linked, Building
<1>3. held' = held /\ first' = first /\ RunsAscend'
  BY <1>1, HeldStays DEF ListSound, ListOrder
<1>4. KeysFresh' /\ NodesDisjoint' /\ HintsFollow'
  BY <1>1, <1>2, <1>3
     DEF ListSound, ListOrder, KeysFresh, NodesDisjoint, HintsFollow, Pending, Working, Building
<1>5. SiblingsHidden'
  BY <1>1, <1>2 DEF ListSound, ListOrder, SiblingsHidden, Building, Splitting, Linking, Level
<1>6. LinksForward'
  BY <1>1, <1>2, <1>3 DEF ListSound, ListOrder, LinksForward, Building, Splitting, Linking, Level
<1>7. WritersPlaced'
  BY <1>1, <1>2, <1>3 DEF ListSound, ListOrder, WritersPlaced, Pending, Working
<1>8. HalvesOK'
  <2>1. HalvesOK
    BY DEF ListSound, ListOrder
  <2> QED
    BY <1>1, <1>3, <2>1, Zenon DEF HalvesOK, Building
<1> QED
  BY <1>3, <1>4, <1>5, <1>6, <1>7, <1>8 DEF ListOrder

LEMMA ListStep ==
  ASSUME ListSound, [Next]_vars
  PROVE  ListSound'
<1>1. Ownership'
  BY OwnershipStep DEF ListSound
<1>2. CASE UNCHANGED vars
  BY <1>1, <1>2, StutterList DEF ListSound
<1>3. ASSUME NEW w \in Writer, Step(w) PROVE ListOrder'
  <2>1. CASE HopForward(w) \/ HopDown(w) \/ Arrive(w) \/ Acquire(w)
    BY <2>1, HopForwardList, StayList
  <2>2. CASE Backout(w) \/ Admit(w) \/ Unlock(w)
    BY <2>2, BackoutList, AdmitList, DoneList
  <2>3. CASE AppendSlot(w) \/ AppendHint(w) \/ AppendOrder(w)
    BY <2>3, AppendSlotList, AppendHintList, AppendOrderList
  <2>4. CASE \E h \in 1..MaxHeight : SplitBuild(w, h)
    BY <2>4, SplitBuildList
  <2>5. CASE SplitHint(w) \/ SplitData(w)
    BY <2>5, SplitHintList, SplitDataList
  <2>6. CASE FindHop(w) \/ FindDown(w) \/ FindArrive(w) \/ LinkBehind(w) \/ LinkCasFails(w)
    BY <2>6, DoneList
  <2>7. CASE LinkLoad(w) \/ LinkCas(w)
    BY <2>7, LinkList
  <2> QED
    BY <1>3, <2>1, <2>2, <2>3, <2>4, <2>5, <2>6, <2>7 DEF Step
<1>4. ASSUME NEW w \in Writer, NEW k \in Key, Insert(w, k) PROVE ListOrder'
  BY <1>4, InsertList
<1>5. ASSUME NEW w \in Writer, AllocationThrows(w) PROVE ListOrder'
  BY <1>5, DoneList
<1> QED
  BY <1>1, <1>2, <1>3, <1>4, <1>5 DEF Next, Finished, ListSound

\* What keeps the list of the memtable in order holds in every state.
THEOREM ListSoundHolds == Spec => []ListSound
<1>1. Init => ListSound
  BY OwnershipInit, ListOrderInit DEF ListSound
<1>2. ListSound /\ [Next]_vars => ListSound'
  BY ListStep
<1> QED
  BY <1>1, <1>2, PTL DEF Spec

\* The level-0 list is sorted, within its nodes and from each to the next, in
\* every state of any number of appends and splits.
THEOREM ListSorted == Spec => []LevelZeroOrdered
<1>1. ListSound => LevelZeroOrdered
  <2> SUFFICES ASSUME ListSound, NEW n \in Linked, NEW p, p = data[n], NEW nx, nx = next[p]
               PROVE  /\ \A i, j \in DOMAIN order[p] :
                           i < j => KeyAt(p, order[p], i) < KeyAt(p, order[p], j)
                      /\ nx # Null => /\ nx \in Linked
                                      /\ order[p] # <<>> /\ order[data[nx]] # <<>>
                                      /\ KeyAt(p, order[p], Len(order[p])) < FirstKey(nx)
    BY DEF LevelZeroOrdered
  <2>1. n \in Node /\ p \in Payload
    BY DEF Linked, ListSound, Ownership, PointersOK
  <2>2. \A i, j \in DOMAIN order[p] : i < j => KeyAt(p, order[p], i) < KeyAt(p, order[p], j)
    BY <2>1 DEF ListSound, ListOrder, RunsAscend
  <2>3. ASSUME nx # Null
        PROVE  /\ nx \in Linked /\ order[p] # <<>> /\ order[data[nx]] # <<>>
               /\ KeyAt(p, order[p], Len(order[p])) < FirstKey(nx)
    <3>1. nx \in Node \ {HeadNode}
      BY <2>1, <2>3 DEF ListSound, ListOrder, LinksForward, Ownership, PointersOK
    <3>2. nx \in Linked
      <4>1. ASSUME NEW v \in Writer, pc[v] \in Building PROVE nx # loc[v].sib
        BY <2>1, <4>1 DEF ListSound, ListOrder, SiblingsHidden, Ownership, PayloadsOK
      <4> QED
        BY <3>1, <4>1 DEF Linked
    <3>3. order[p] # <<>> /\ \A k \in held[p] : k < first[data[nx]]
      BY <2>1, <2>3 DEF ListSound, ListOrder, LinksForward
    <3>4. order[data[nx]] # <<>> /\ FirstKey(nx) = first[data[nx]]
      BY <3>1 DEF ListSound, ListOrder, LinksForward, Ownership, PointersOK, first, FirstKey
    <3>5. KeyAt(p, order[p], Len(order[p])) \in held[p]
      <4>1. Len(order[p]) \in DOMAIN order[p]
        BY <2>1, <3>3, PayloadFacts DEF ListSound
      <4> QED
        BY <2>1, <4>1 DEF held, KeysOf
    <3> QED
      BY <3>2, <3>3, <3>4, <3>5
  <2> QED
    BY <2>2, <2>3
<1> QED
  BY <1>1, ListSoundHolds, PTL

\* The descent hint of every node but the head is that of its first key, so a
\* reader that compares hints compares keys.
THEOREM HintsSound == Spec => []HintSound
<1>1. ListSound => HintSound
  <2> SUFFICES ASSUME ListSound, NEW n \in Node \ {HeadNode}
               PROVE  order[data[n]] # <<>> /\ hint[n] = Hint[FirstKey(n)]
    BY DEF HintSound
  <2>1. order[data[n]] # <<>> /\ hint[n] = Hint[first[data[n]]] /\ data[n] \in Payload
    BY DEF ListSound, ListOrder, LinksForward, HintsFollow, Ownership, PointersOK
  <2> QED
    BY <2>1 DEF first, FirstKey
<1> QED
  BY <1>1, ListSoundHolds, PTL

\* Five actions write a payload or give a node another one; the rest leave both.
LEMMA ListWriters ==
  ASSUME [Next]_vars
  PROVE  \/ UNCHANGED <<payloadVars, data>>
         \/ \E w \in Writer : \/ AppendSlot(w) \/ AppendOrder(w) \/ SplitData(w)
                              \/ \E h \in 1..MaxHeight : SplitBuild(w, h)
<1>1. ASSUME NEW w \in Writer, Step(w)
      PROVE  \/ UNCHANGED <<payloadVars, data>>
             \/ AppendSlot(w) \/ AppendOrder(w) \/ SplitData(w)
             \/ \E h \in 1..MaxHeight : SplitBuild(w, h)
  BY <1>1 DEF Step, HopForward, HopDown, Arrive, Acquire, Backout, Admit, AppendHint, SplitHint,
     FindHop, FindDown, FindArrive, LinkBehind, LinkLoad, LinkCas, LinkCasFails, Unlock, nodeVars
<1>2. ASSUME NEW w \in Writer, NEW k \in Key, Insert(w, k) PROVE UNCHANGED <<payloadVars, data>>
  BY <1>2 DEF Insert, nodeVars
<1>3. UNCHANGED vars => UNCHANGED <<payloadVars, data>>
  BY DEF vars, nodeVars
<1>4. ASSUME NEW w \in Writer, AllocationThrows(w) PROVE UNCHANGED <<payloadVars, data>>
  BY <1>4 DEF AllocationThrows, nodeVars
<1> QED
  BY <1>1, <1>2, <1>3, <1>4 DEF Next, Finished

\* No step changes the first key of a node but the head's, and that one only falls.
LEMMA FirstKeyStep ==
  ASSUME ListSound, [Next]_vars, NEW n \in Node, order[data[n]] # <<>>
  PROVE  /\ order'[data'[n]] # <<>> /\ data'[n] \in Payload'
         /\ first'[data'[n]] <= first[data[n]]
         /\ n # HeadNode => first'[data'[n]] = first[data[n]]
<1>1. /\ data[n] \in Payload /\ first[data[n]] \in held[data[n]] /\ first[data[n]] \in Nat
      /\ \A m \in Node : data[m] = data[n] => m = n
  BY FirstIsLeast, SizeFacts DEF ListSound, ListOrder, Ownership, PointersOK, PayloadsOK
<1>2. CASE UNCHANGED <<payloadVars, data>>
  <2>1. UNCHANGED <<keys, order, data>> /\ Payload' = Payload
    BY <1>2 DEF payloadVars, Payload
  <2>2. first' = first
    BY <2>1 DEF first, KeyAt
  <2> QED
    BY <1>1, <2>1, <2>2
<1>3. ASSUME NEW w \in Writer, AppendSlot(w)
      PROVE  data' = data /\ order' = order /\ Payload' = Payload /\ first' = first
  <2>1. order' = order /\ data' = data
    BY <1>3 DEF AppendSlot, nodeVars
  <2>2. \A p \in Payload : \A r \in DOMAIN order[p] :
          keys'[p][order[p][r]] = keys[p][order[p][r]]
    BY <1>3, AppendSlotFreezes DEF ListSound
  <2> QED
    BY <2>1, <2>2, HeldStays DEF ListSound, ListOrder
<1>4. ASSUME NEW w \in Writer, AppendOrder(w)
      PROVE  /\ order'[data'[n]] # <<>> /\ data'[n] \in Payload'
             /\ first'[data'[n]] <= first[data[n]]
             /\ n # HeadNode => first'[data'[n]] = first[data[n]]
  <2>1. /\ data' = data /\ pc[w] = "order"
        /\ loc[w].cur \in Node /\ data[loc[w].cur] = loc[w].d
    BY <1>4 DEF AppendOrder, nodeVars, ListSound, Ownership, LocalOK, LockOK, Working
  <2>2. /\ Payload' = Payload
        /\ \A p \in Payload \ {loc[w].d} :
             order'[p] = order[p] /\ held'[p] = held[p] /\ first'[p] = first[p]
        /\ order'[loc[w].d] # <<>>
        /\ held'[loc[w].d] = held[loc[w].d] \union {loc[w].key}
        /\ loc[w].cur # HeadNode => first'[loc[w].d] = first[loc[w].d]
        /\ order[loc[w].d] # <<>> => first'[loc[w].d] <= first[loc[w].d]
    BY <1>4, AppendOrderHeld
  <2>3. CASE data[n] # loc[w].d
    BY <1>1, <2>1, <2>2, <2>3
  <2>4. CASE data[n] = loc[w].d
    <3>1. loc[w].cur = n
      BY <1>1, <2>1, <2>4
    <3> QED
      BY <1>1, <2>1, <2>2, <2>4, <3>1
  <2> QED
    BY <2>3, <2>4
<1>5. ASSUME NEW w \in Writer, NEW h \in 1..MaxHeight, SplitBuild(w, h)
      PROVE  /\ data'[n] = data[n] /\ data[n] \in Payload'
             /\ order'[data[n]] = order[data[n]] /\ first'[data[n]] = first[data[n]]
  <2>1. data'[n] = data[n] /\ data[n] \in Payload'
    BY <1>1, <1>5, SplitBuildMemory DEF ListSound
  <2> QED
    BY <1>1, <1>5, <2>1, SplitBuildHeld
<1>6. ASSUME NEW w \in Writer, SplitData(w)
      PROVE  /\ order'[data'[n]] # <<>> /\ data'[n] \in Payload'
             /\ first'[data'[n]] <= first[data[n]]
             /\ n # HeadNode => first'[data'[n]] = first[data[n]]
  <2>1. /\ pc[w] = "splitData" /\ order' = order /\ Payload' = Payload /\ first' = first
        /\ data'[n] = IF n = loc[w].cur THEN loc[w].left ELSE data[n]
    BY <1>6, SplitDataLocals, SplitDataHeld DEF ListSound
  <2>2. /\ loc[w].left \in Payload /\ data[loc[w].cur] = loc[w].d
        /\ loc[w].cur # HeadNode => first[loc[w].left] = first[loc[w].d]
        /\ order[loc[w].d] # <<>> => first[loc[w].left] <= first[loc[w].d]
    BY <2>1, LeftKeepsFirst DEF Building
  <2>3. order[loc[w].left] # <<>>
    BY <2>1 DEF ListSound, ListOrder, HalvesOK, Building
  <2> QED
    BY <1>1, <2>1, <2>2, <2>3
<1> QED
  BY <1>1, <1>2, <1>3, <1>4, <1>5, <1>6, ListWriters

\* The first key of a published node never changes, and the head's only falls:
\* what lets insert_entry trust a descent that took no locks.
THEOREM FirstKeysStay == Spec => FirstKeyFixed
<1> DEFINE Fixed(n) == order[data[n]] # <<>> =>
             IF n = HeadNode THEN FirstKey(n)' <= FirstKey(n) ELSE FirstKey(n)' = FirstKey(n)
<1>1. ASSUME ListSound, [Next]_vars, NEW n \in Node PROVE Fixed(n)
  <2> SUFFICES ASSUME order[data[n]] # <<>>
               PROVE  /\ FirstKey(n)' <= FirstKey(n)
                      /\ n # HeadNode => FirstKey(n)' = FirstKey(n)
    OBVIOUS
  <2>1. /\ order'[data'[n]] # <<>> /\ data'[n] \in Payload' /\ data[n] \in Payload
        /\ first'[data'[n]] <= first[data[n]]
        /\ n # HeadNode => first'[data'[n]] = first[data[n]]
    BY <1>1, FirstKeyStep DEF ListSound, Ownership, PointersOK
  <2>2. first[data[n]] = FirstKey(n) /\ first'[data'[n]] = FirstKey(n)'
    BY <2>1 DEF first, FirstKey
  <2> QED
    BY <2>1, <2>2
<1>2. ListSound /\ [Next]_vars => [\A n \in Node : Fixed(n)]_vars
  BY <1>1
<1> QED
  BY <1>2, ListSoundHolds, PTL DEF Spec, FirstKeyFixed

-----------------------------------------------------------------------------
(***************************************************************************)
(* insert_entry takes effect at one instant: Memtable implements           *)
(* OrderedSet.  The set is what the nodes of the list hold; an append      *)
(* commits by its order-word store, a split by its payload store, and      *)
(* every other step leaves the set alone.                                  *)
(***************************************************************************)

(* The state of a call.                                                    *)

\* The status of a call at a label.
StatusAt(l) == CASE l \in NoCall -> l [] l \in Published -> "committed" [] OTHER -> "called"

LEMMA StatusValues ==
  /\ \A l \in NoCall : StatusAt(l) = l
  /\ \A l \in Published : StatusAt(l) = "committed"
  /\ \A l \in Pending : StatusAt(l) = "called"
BY DEF StatusAt, NoCall, Published, Pending, Working

\* One writer moves on: its status is that of its new label.
LEMMA CallStep ==
  ASSUME TypeOK, NEW w \in Writer, \A v \in Writer \ {w} : pc'[v] = pc[v] /\ loc'[v] = loc[v]
  PROVE  /\ status' = [status EXCEPT ![w] = StatusAt(pc'[w])]
         /\ arg' = [arg EXCEPT ![w] = loc'[w].key]
         /\ status[w] = StatusAt(pc[w]) /\ arg[w] = loc[w].key
<1>1. status = [v \in Writer |-> StatusAt(pc[v])]
  BY DEF status, StatusAt
<1>2. status' = [v \in Writer |-> StatusAt(pc'[v])]
  BY DEF status, StatusAt
<1>3. status' = [status EXCEPT ![w] = StatusAt(pc'[w])]
  BY <1>1, <1>2
<1>4. arg' = [arg EXCEPT ![w] = loc'[w].key]
  BY DEF arg
<1> QED
  BY <1>1, <1>3, <1>4 DEF arg

\* A call that stays on the same side of its commit keeps its status and its key.
LEMMA SameCall ==
  ASSUME TypeOK, NEW w \in Writer, \A v \in Writer \ {w} : pc'[v] = pc[v] /\ loc'[v] = loc[v],
         loc'[w].key = loc[w].key,
         \/ pc[w] \in Pending /\ pc'[w] \in Pending
         \/ pc[w] \in Published /\ pc'[w] \in Published
  PROVE  status' = status /\ arg' = arg
<1>1. StatusAt(pc'[w]) = StatusAt(pc[w])
  BY StatusValues
<1>2. /\ status' = [status EXCEPT ![w] = status[w]] /\ arg' = [arg EXCEPT ![w] = arg[w]]
  BY <1>1, CallStep
<1> QED
  BY <1>2 DEF status, arg

-----------------------------------------------------------------------------
(* The set that the nodes of the list hold.                                *)

\* The same nodes with the same payloads, holding the same keys.
LEMMA ContentsStay ==
  ASSUME \A n : n \in Linked' <=> n \in Linked,
         \A n \in Linked : KeysOf(data[n])' = KeysOf(data[n])
  PROVE  Contents' = Contents
BY DEF Contents

\* Nobody begins or ends a split, and no payload or node changes what it holds.
LEMMA SameSet ==
  ASSUME Ownership, RunsAscend, order' = order, data' = data,
         \A p \in Payload : \A r \in DOMAIN order[p] :
           keys'[p][order[p][r]] = keys[p][order[p][r]],
         \A v \in Writer : /\ pc'[v] \in Building <=> pc[v] \in Building
                           /\ pc[v] \in Building => loc'[v].sib = loc[v].sib
  PROVE  Contents' = Contents
<1>1. Linked' = Linked
  BY DEF Linked, Node, Building
<1>2. Payload' = Payload /\ held' = held
  BY HeldStays
<1>3. ASSUME NEW n \in Linked PROVE KeysOf(data[n])' = KeysOf(data[n])
  <2>1. data[n] \in Payload
    BY DEF Linked, Ownership, PointersOK
  <2>2. held[data[n]] = KeysOf(data[n])
    BY <2>1 DEF held
  <2>3. held'[data'[n]] = KeysOf(data[n])'
    BY <1>2, <2>1 DEF held
  <2> QED
    BY <1>2, <2>2, <2>3
<1> QED
  BY <1>1, <1>3, ContentsStay

-----------------------------------------------------------------------------
(* Each step of a writer is a step of OrderedSet, or leaves it alone.      *)

\* A descent, taking a lock, writing a slot or a hint: nobody can see the key yet.
LEMMA SilentBeforeCommit ==
  ASSUME ListSound, NEW w \in Writer,
         \/ HopForward(w) \/ HopDown(w) \/ Arrive(w) \/ Acquire(w) \/ Backout(w) \/ Admit(w)
         \/ AppendSlot(w) \/ AppendHint(w) \/ SplitHint(w)
  PROVE  Contents' = Contents /\ status' = status /\ arg' = arg
<1>1. /\ TypeOK /\ Ownership /\ RunsAscend /\ loc \in [Writer -> Local] /\ loc[w] \in Local
      /\ pc \in [Writer -> Label]
  BY DEF ListSound, ListOrder, Ownership, TypeOK
<1>2. /\ pc[w] \in {"descend", "lock", "check", "slot", "hint", "splitHint"}
      /\ UNCHANGED <<order, next, data, started>>
  BY DEF HopForward, HopDown, Arrive, Acquire, Backout, Admit, AppendSlot, AppendHint, SplitHint,
         payloadVars, nodeVars
<1>3. /\ \A v \in Writer \ {w} : pc'[v] = pc[v]
      /\ pc'[w] \in {"descend", "lock", "check", "slot", "hint", "order", "split", "splitData"}
      /\ pc'[w] = "splitData" <=> pc[w] = "splitHint"
  BY <1>1, <1>2 DEF HopForward, HopDown, Arrive, Acquire, Backout, Admit, AppendSlot, AppendHint,
                    SplitHint, Goto
<1>4. /\ \A v \in Writer \ {w} : loc'[v] = loc[v]
      /\ loc'[w].key = loc[w].key
      /\ pc[w] = "splitHint" => loc'[w] = loc[w]
  <2>1. CASE HopForward(w) \/ HopDown(w) \/ Admit(w)
    BY <1>1, <2>1 DEF HopForward, HopDown, Admit, Local
  <2>2. CASE Backout(w)
    <3>1. pc[w] = "check" /\ loc' = [loc EXCEPT ![w] = Descending(loc[w].key)]
      BY <2>2 DEF Backout
    <3>2. Descending(loc[w].key).key = loc[w].key
      BY <1>2, <3>1, DescendingIsLocal DEF ListSound, Ownership, LocalOK
    <3> QED
      BY <1>1, <3>1, <3>2
  <2>3. CASE Arrive(w) \/ Acquire(w) \/ AppendSlot(w) \/ AppendHint(w) \/ SplitHint(w)
    BY <2>3 DEF Arrive, Acquire, AppendSlot, AppendHint, SplitHint
  <2> QED
    BY <2>1, <2>2, <2>3
<1>5. \A p \in Payload : \A r \in DOMAIN order[p] :
        keys'[p][order[p][r]] = keys[p][order[p][r]]
  <2>1. CASE AppendSlot(w)
    BY <1>1, <2>1, AppendSlotFreezes
  <2>2. CASE ~AppendSlot(w)
    BY <2>2 DEF HopForward, HopDown, Arrive, Acquire, Backout, Admit, AppendHint, SplitHint,
                payloadVars
  <2> QED
    BY <2>1, <2>2
<1>6. \A v \in Writer : /\ pc'[v] \in Building <=> pc[v] \in Building
                        /\ pc[v] \in Building => loc'[v].sib = loc[v].sib
  BY <1>2, <1>3, <1>4 DEF Building
<1>7. pc[w] \in Pending /\ pc'[w] \in Pending
  BY <1>2, <1>3 DEF Pending, Working
<1> QED
  BY <1>1, <1>2, <1>3, <1>4, <1>5, <1>6, <1>7, SameSet, SameCall

\* A predecessor is looked for, and a level linked or given up, after the commit.
LEMMA SilentAfterCommit ==
  ASSUME ListSound, NEW w \in Writer,
         \/ FindHop(w) \/ FindDown(w) \/ FindArrive(w)
         \/ LinkBehind(w) \/ LinkLoad(w) \/ LinkCas(w) \/ LinkCasFails(w)
  PROVE  Contents' = Contents /\ status' = status /\ arg' = arg
<1>1. /\ TypeOK /\ Ownership /\ RunsAscend /\ loc \in [Writer -> Local] /\ loc[w] \in Local
      /\ pc \in [Writer -> Label]
  BY DEF ListSound, ListOrder, Ownership, TypeOK
<1>2. pc[w] \in Linking /\ UNCHANGED <<keys, order, data>>
  BY DEF FindHop, FindDown, FindArrive, LinkBehind, LinkLoad, LinkCas, LinkCasFails, Linking,
         payloadVars, nodeVars
<1>3. /\ pc'[w] \in Linking \union {"unlock"} /\ loc'[w].key = loc[w].key
      /\ \A v \in Writer \ {w} : pc'[v] = pc[v] /\ loc'[v] = loc[v]
  <2>1. CASE FindHop(w) \/ FindDown(w) \/ FindArrive(w) \/ LinkLoad(w)
    BY <1>1, <2>1 DEF FindHop, FindDown, FindArrive, LinkLoad, Goto, Local, Linking
  <2>2. CASE LinkBehind(w) \/ LinkCas(w) \/ LinkCasFails(w)
    <3>1. pc[w] \in {"link", "cas"} /\ (NextLevel(w) \/ Retry(w))
      BY <2>2 DEF LinkBehind, LinkCas, LinkCasFails
    <3>2. PICK l \in {"find", "unlock"}, x \in Local :
             /\ pc' = [pc EXCEPT ![w] = l] /\ loc' = [loc EXCEPT ![w] = x]
             /\ x.key = loc[w].key
      BY <1>1, <3>1, AttemptDone
    <3> QED
      BY <1>1, <3>2 DEF Linking
  <2> QED
    BY <2>1, <2>2
<1>4. \A v \in Writer : /\ pc'[v] \in Building <=> pc[v] \in Building
                        /\ pc[v] \in Building => loc'[v].sib = loc[v].sib
  BY <1>2, <1>3 DEF Building, Linking
<1>5. pc[w] \in Published /\ pc'[w] \in Published
  BY <1>2, <1>3 DEF Published, Linking
<1>6. Contents' = Contents
  BY <1>1, <1>2, <1>4, SameSet
<1> QED
  BY <1>1, <1>3, <1>5, <1>6, SameCall

\* A call, a return and an exception leave the set alone.
LEMMA CallReturnThrow ==
  ASSUME ListSound, NEW w \in Writer
  PROVE  /\ Unlock(w) => Set!Return(w)
         /\ AllocationThrows(w) => Set!Throw(w)
         /\ \A k \in Key : Insert(w, k) => Set!Call(w, k)
<1>1. /\ TypeOK /\ Ownership /\ RunsAscend /\ loc \in [Writer -> Local] /\ loc[w] \in Local
      /\ pc \in [Writer -> Label]
  BY DEF ListSound, ListOrder, Ownership, TypeOK
<1>2. ASSUME UNCHANGED <<keys, order, data>>, pc[w] \notin Building, pc'[w] \notin Building,
             \A v \in Writer \ {w} : pc'[v] = pc[v] /\ loc'[v] = loc[v]
      PROVE  Contents' = Contents
  <2>1. \A v \in Writer : /\ pc'[v] \in Building <=> pc[v] \in Building
                          /\ pc[v] \in Building => loc'[v].sib = loc[v].sib
    BY <1>2
  <2> QED
    BY <1>1, <1>2, <2>1, SameSet
<1>3. ASSUME Unlock(w) PROVE Set!Return(w)
  <2>1. /\ pc[w] = "unlock" /\ pc'[w] = "idle" /\ loc'[w] = Idle
        /\ \A v \in Writer \ {w} : pc'[v] = pc[v] /\ loc'[v] = loc[v]
        /\ UNCHANGED <<keys, order, data>>
    BY <1>1, <1>3 DEF Unlock, Goto, payloadVars
  <2>2. StatusAt("unlock") = "committed" /\ StatusAt("idle") = "idle" /\ Idle.key = Null
    BY StatusValues DEF Published, NoCall, Idle
  <2>3. Contents' = Contents
    BY <1>2, <2>1 DEF Building
  <2> QED
    BY <1>1, <2>1, <2>2, <2>3, CallStep DEF Set!Return
<1>4. ASSUME AllocationThrows(w) PROVE Set!Throw(w)
  <2>1. /\ MayThrow /\ pc[w] = "split" /\ pc'[w] = "threw" /\ loc' = loc
        /\ \A v \in Writer \ {w} : pc'[v] = pc[v]
        /\ UNCHANGED <<keys, order, data>>
    BY <1>1, <1>4 DEF AllocationThrows, Goto, payloadVars, nodeVars
  <2>2. StatusAt("split") = "called" /\ StatusAt("threw") = "threw"
    BY StatusValues DEF Pending, Working, NoCall
  <2>3. Contents' = Contents
    BY <1>2, <2>1 DEF Building
  <2>4. arg' = arg
    BY <2>1 DEF arg
  <2> QED
    BY <1>1, <2>1, <2>2, <2>3, <2>4, CallStep DEF Set!Throw
<1>5. ASSUME NEW k \in Key, Insert(w, k) PROVE Set!Call(w, k)
  <2>1. /\ pc[w] \in NoCall /\ pc'[w] = "descend" /\ loc'[w] = Descending(k)
        /\ \A v \in Writer \ {w} : pc'[v] = pc[v] /\ loc'[v] = loc[v]
        /\ UNCHANGED <<keys, order, data>>
    BY <1>1, <1>5 DEF Insert, Goto, payloadVars, nodeVars
  <2>2. StatusAt(pc[w]) \in {"idle", "threw"} /\ StatusAt("descend") = "called"
    BY <2>1, StatusValues DEF Pending, NoCall
  <2>3. Descending(k).key = k
    BY DescendingIsLocal
  <2>4. Contents' = Contents
    BY <1>2, <2>1 DEF Building, NoCall
  <2> QED
    BY <1>1, <2>1, <2>2, <2>3, <2>4, CallStep DEF Set!Call
<1> QED
  BY <1>3, <1>4, <1>5

\* What the nodes of the list hold, by payload.
LEMMA ContentsHeld ==
  ASSUME Ownership
  PROVE  Contents = UNION {held[data[n]] : n \in Linked}
<1>1. \A n \in Linked : held[data[n]] = KeysOf(data[n])
  BY DEF Ownership, PointersOK, Linked, held
<1> QED
  BY <1>1 DEF Contents

LEMMA ContentsHeldNext ==
  ASSUME Ownership'
  PROVE  Contents' = UNION {held'[data'[n]] : n \in Linked'}
<1>1. \A n \in Linked' : held'[data'[n]] = KeysOf(data[n])'
  BY DEF Ownership, PointersOK, Linked, held, Node
<1> QED
  BY <1>1 DEF Contents

\* The order-word store of an append puts the key in the set.
LEMMA AppendCommits ==
  ASSUME ListSound, Ownership', NEW w \in Writer, AppendOrder(w)
  PROVE  Set!Commit(w)
<1>1. /\ TypeOK /\ Ownership /\ pc \in [Writer -> Label]
      /\ pc[w] = "order" /\ pc'[w] = "unlock" /\ loc' = loc /\ data' = data
      /\ \A v \in Writer \ {w} : pc'[v] = pc[v]
  BY DEF ListSound, Ownership, TypeOK, AppendOrder, Goto, nodeVars
<1>2. Linked' = Linked
  BY <1>1 DEF Linked, Node, Building
<1>3. /\ loc[w].cur \in Linked /\ data[loc[w].cur] = loc[w].d
      /\ \A n \in Linked : data[n] \in Payload /\ (n # loc[w].cur => data[n] # loc[w].d)
  <2>1. \A v \in Writer : pc[v] \in Building => loc[w].cur # loc[v].sib
    BY <1>1, CurNotHidden
  <2> QED
    BY <1>1, <2>1
       DEF ListSound, Ownership, PointersOK, PayloadsOK, LocalOK, LockOK, Linked, Working
<1>4. /\ held'[loc[w].d] = held[loc[w].d] \union {loc[w].key}
      /\ \A p \in Payload \ {loc[w].d} : held'[p] = held[p]
  BY AppendOrderHeld
<1>5. UNION {held'[data'[n]] : n \in Linked} = (UNION {held[data[n]] : n \in Linked}) \union {loc[w].key}
  BY <1>1, <1>3, <1>4
<1>6. Contents' = Contents \union {loc[w].key}
  BY <1>1, <1>2, <1>5, ContentsHeld, ContentsHeldNext
<1>7. StatusAt("order") = "called" /\ StatusAt("unlock") = "committed"
  BY StatusValues DEF Pending, Working, Published
<1> QED
  BY <1>1, <1>6, <1>7, CallStep DEF Set!Commit, arg

\* The halves of a split are built out of sight.
LEMMA SplitBuildSilent ==
  ASSUME ListSound, Ownership', NEW w \in Writer, NEW h \in 1..MaxHeight, SplitBuild(w, h)
  PROVE  Contents' = Contents /\ status' = status /\ arg' = arg
<1>1. PICK sib : sib = Len(data) + 1
  OBVIOUS
<1>2. /\ TypeOK /\ Ownership
      /\ pc[w] = "split" /\ pc'[w] = "splitHint" /\ loc'[w].sib = sib /\ loc'[w].key = loc[w].key
      /\ \A v \in Writer \ {w} : pc'[v] = pc[v] /\ loc'[v] = loc[v]
      /\ Node' = Node \union {sib} /\ sib \notin Node
      /\ \A n \in Node : data'[n] = data[n] /\ data[n] \in Payload
  BY <1>1, SplitBuildMemory DEF ListSound, Ownership, PointersOK
<1>3. \A p \in Payload : held'[p] = held[p]
  BY SplitBuildHeld
<1>4. Linked' = Linked
  <2>1. \A v \in Writer : pc'[v] \in Building <=> v = w \/ pc[v] \in Building
    BY <1>2 DEF Building
  <2>2. \A v \in Writer : pc[v] \in Building => v # w
    BY <1>2 DEF Building
  <2>3. Linked' = Node' \ {loc'[v].sib : v \in {u \in Writer : pc'[u] \in Building}}
    BY DEF Linked, Node, Building
  <2>4. ASSUME NEW n PROVE n \in Linked' <=> n \in Linked
    BY <1>2, <2>1, <2>2, <2>3 DEF Linked
  <2> QED
    BY <2>4
<1>5. UNION {held'[data'[n]] : n \in Linked} = UNION {held[data[n]] : n \in Linked}
  BY <1>2, <1>3 DEF Linked
<1>6. Contents' = Contents
  BY <1>2, <1>4, <1>5, ContentsHeld, ContentsHeldNext
<1> QED
  BY <1>2, <1>6, SameCall DEF Pending, Working

\* The store to cur->data takes nothing out of the set and puts the key into it.
LEMMA SplitCommits ==
  ASSUME ListSound, Ownership', NEW w \in Writer, SplitData(w)
  PROVE  Set!Commit(w)
<1>1. PICK d, k, c, left, right, sib :
        /\ d = loc[w].d /\ k = loc[w].key /\ c = loc[w].cur
        /\ right = loc[w].right /\ left = loc[w].left /\ sib = loc[w].sib
  OBVIOUS
<1>2. /\ TypeOK /\ Ownership
      /\ pc[w] = "splitData" /\ pc'[w] \in {"find", "unlock"} /\ loc'[w].key = k
      /\ \A v \in Writer \ {w} : pc'[v] = pc[v] /\ loc'[v] = loc[v]
      /\ Node' = Node
      /\ \A n \in Node : data'[n] = IF n = c THEN left ELSE data[n]
  BY <1>1, SplitDataLocals DEF ListSound, Ownership
<1>3. /\ held' = held /\ held[left] \union held[right] = held[d] \union {k}
  BY <1>1, <1>2, SplitDataHeld DEF ListSound, ListOrder, HalvesOK, Building
<1>4. /\ sib \in Node /\ data[sib] = right /\ sib # c /\ data[c] = d
      /\ c \in Linked /\ sib \notin Linked /\ Linked' = Linked \union {sib}
  BY <1>1, <1>2, SplitDataLinked DEF Ownership, LockOK, Working
<1>5. UNION {held[data'[n]] : n \in Linked \union {sib}}
        = (UNION {held[data[n]] : n \in Linked}) \union {k}
  <2>1. /\ data'[c] = left /\ data'[sib] = right
        /\ \A n \in Linked \ {c} : data'[n] = data[n]
    BY <1>2, <1>4 DEF Linked
  <2>2. ASSUME NEW x
        PROVE  (\E n \in Linked \union {sib} : x \in held[data'[n]])
                 <=> (\E n \in Linked : x \in held[data[n]]) \/ x = k
    <3>1. x \in held[left] \/ x \in held[right] <=> x \in held[d] \/ x = k
      BY <1>3
    <3> QED
      BY <1>4, <2>1, <3>1
  <2> QED
    BY <2>2
<1>6. Contents' = Contents \union {k}
  BY <1>2, <1>3, <1>4, <1>5, ContentsHeld, ContentsHeldNext
<1>7. StatusAt("splitData") = "called" /\ StatusAt(pc'[w]) = "committed"
  BY <1>2, StatusValues DEF Pending, Working, Published
<1>8. arg' = arg
  BY <1>1, <1>2 DEF arg
<1> QED
  BY <1>1, <1>2, <1>6, <1>7, <1>8, CallStep DEF Set!Commit, arg

-----------------------------------------------------------------------------
(* The refinement.                                                         *)

\* The memtable begins as the set of the keys inserted before.
LEMMA SetInit == Init => Set!Init
<1> SUFFICES ASSUME Init PROVE Set!Init
  OBVIOUS
<1> USE SizeFacts
<1>1. Ownership
  BY OwnershipInit
<1>2. Linked = {1} /\ data[1] = 1 /\ Payload = {1}
  BY DEF Init, Linked, Node, Building, Payload
<1>3. Contents = KeysOf(1)
  BY <1>2 DEF Contents
<1>4. KeysOf(1) = {Preload[i] : i \in DOMAIN Preload}
  <2> DEFINE o == FilledOrder(Preload)
             ks == FilledKeys(Preload)
  <2>1. order[1] = o /\ keys[1] = ks
    BY DEF Init
  <2>2. Preload \in Seq(Key) /\ Len(Preload) \in 0..Capacity
    BY PreloadAssumption
  <2>3. /\ o \in Seq(Slot) /\ Len(o) = Len(Preload)
        /\ \A r \in 1..Len(Preload) : o[r] = r /\ ks[r] = Preload[r]
    BY <2>2, FilledPayload
  <2> HIDE DEF o, ks
  <2>4. DOMAIN o = 1..Len(Preload) /\ DOMAIN Preload = 1..Len(Preload)
    BY <2>2, <2>3
  <2> QED
    BY <2>1, <2>3, <2>4 DEF KeysOf, KeyAt
<1>5. status = [w \in Writer |-> "idle"] /\ arg = [w \in Writer |-> Null]
  <2>1. \A w \in Writer : pc[w] = "idle" /\ loc[w] = Idle
    BY DEF Init
  <2>2. Idle.key = Null
    BY DEF Idle
  <2> QED
    BY <2>1, <2>2 DEF status, arg, NoCall, Published
<1> QED
  BY <1>3, <1>4, <1>5 DEF Set!Init

LEMMA SetStep ==
  ASSUME ListSound, Ownership', [Next]_vars
  PROVE  [Set!Next]_(Set!vars)
<1>1. ASSUME Contents' = Contents /\ status' = status /\ arg' = arg
      PROVE  [Set!Next]_(Set!vars)
  BY <1>1 DEF Set!vars
<1>2. CASE UNCHANGED vars
  <2>1. UNCHANGED <<keys, order, data, pc, loc>>
    BY <1>2 DEF vars, payloadVars, nodeVars, threadVars
  <2>2. Linked' = Linked
    BY <2>1 DEF Linked, Node, Building
  <2>3. Contents' = Contents
    BY <2>1, <2>2 DEF Contents, KeysOf, KeyAt
  <2>4. status' = status /\ arg' = arg
    BY <2>1 DEF status, arg, NoCall, Published
  <2> QED
    BY <1>1, <2>3, <2>4
<1>3. ASSUME NEW w \in Writer, Step(w) PROVE [Set!Next]_(Set!vars)
  <2>1. CASE \/ HopForward(w) \/ HopDown(w) \/ Arrive(w) \/ Acquire(w) \/ Backout(w) \/ Admit(w)
             \/ AppendSlot(w) \/ AppendHint(w) \/ SplitHint(w)
    BY <1>1, <2>1, SilentBeforeCommit
  <2>2. CASE AppendOrder(w)
    BY <2>2, AppendCommits DEF Set!Next
  <2>3. CASE \E h \in 1..MaxHeight : SplitBuild(w, h)
    BY <1>1, <2>3, SplitBuildSilent
  <2>4. CASE SplitData(w)
    BY <2>4, SplitCommits DEF Set!Next
  <2>5. CASE \/ FindHop(w) \/ FindDown(w) \/ FindArrive(w)
             \/ LinkBehind(w) \/ LinkLoad(w) \/ LinkCas(w) \/ LinkCasFails(w)
    BY <1>1, <2>5, SilentAfterCommit
  <2>6. CASE Unlock(w)
    BY <2>6, CallReturnThrow DEF Set!Next
  <2> QED
    BY <1>3, <2>1, <2>2, <2>3, <2>4, <2>5, <2>6 DEF Step
<1>4. ASSUME NEW w \in Writer, AllocationThrows(w) \/ \E k \in Key : Insert(w, k)
      PROVE  [Set!Next]_(Set!vars)
  BY <1>4, CallReturnThrow DEF Set!Next
<1> QED
  BY <1>2, <1>3, <1>4 DEF Next, Finished

\* An insert takes effect at one instant between its call and its return, the
\* order-word store of an append or the payload store of a split; no other step
\* changes the set, and an insert that throws has inserted nothing.
THEOREM InsertIsAtomic == Spec => ImplementsOrderedSet
<1>1. Init => Set!Init
  BY SetInit
<1>2. ListSound /\ ListSound' /\ [Next]_vars => [Set!Next]_(Set!vars)
  BY SetStep DEF ListSound
<1>3. Spec => []ListSound
  BY ListSoundHolds
<1> QED
  BY <1>1, <1>2, <1>3, PTL DEF Spec, ImplementsOrderedSet, Set!Spec
=============================================================================
