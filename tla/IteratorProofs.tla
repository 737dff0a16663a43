--------------------------- MODULE IteratorProofs ---------------------------
(***************************************************************************)
(* What readers of Iterator answer beside writers, for any number of both: *)
(* the inductive invariant ReadSound and what follows from it.             *)
(***************************************************************************)
EXTENDS Iterator, TowerProofs

-----------------------------------------------------------------------------
(* The inductive invariant of readers.  The payload an iterator loaded     *)
(* stays what it was, or grows, whether its node still has it or not; and  *)
(* with the payload's link it accounts for every key there was from the    *)
(* node's first key on.                                                    *)

\* Payload p is, or was, the payload of listed node n.
WasOf(p, n) ==
  /\ p \in Payload /\ n \in Linked /\ held[p] \subseteq Contents
  /\ n # HeadNode => order[p] # <<>> /\ first[p] = Start(n)
  /\ next[p] # Null =>
       /\ next[p] \in Linked /\ next[p] # HeadNode /\ order[p] # <<>>
       /\ \A k \in held[p] : k < Start(next[p])

\* Key k is before node n; it is at or after node nx, if there is one.
Before(k, n) == n # HeadNode /\ k < Start(n)
AtOrAfter(k, nx) == nx # Null /\ Start(nx) <= k

\* The keys the snapshot of i names.
Shown(i) == {KeyAt(i.d, i.snap, a) : a \in DOMAIN i.snap}

\* A snapshot ascends, names slots the payload has, and for a node other than the
\* head begins with its first key.
SnapSound(i) ==
  /\ ToSet(i.snap) \subseteq ToSet(order[i.d])
  /\ \A a, b \in DOMAIN i.snap : a < b => KeyAt(i.d, i.snap, a) < KeyAt(i.d, i.snap, b)
  /\ i.node # HeadNode => i.snap # <<>> /\ KeyAt(i.d, i.snap, 1) = Start(i.node)

\* Nothing of S is missed between node i.node and the link of payload i.d.
Covers(i, ks, S) ==
  \A k \in S : Before(k, i.node) \/ k \in ks \/ AtOrAfter(k, next[i.d])

\* What iterator i has in hand, of the keys s there were when it loaded it, b of
\* which the call in progress must respect.
HandSound(i, s, b) ==
  i.d # Null =>
    /\ WasOf(i.d, i.node)
    /\ i.pc = "snap" => Covers(i, held[i.d], s)
    /\ i.pc # "snap" => SnapSound(i) /\ Covers(i, Shown(i), s)
    /\ i.pc \in {"snap", "idle"} => b \subseteq s
    /\ i.pc = "idle" => i.pos \in DOMAIN i.snap

Ops == {"none", "contains", "seek", "seekForPrev", "seekToFirst", "seekToLast", "next", "prev"}
Upward == {"seek", "seekForPrev", "seekToFirst", "next"}
Targeted == {"contains", "seek", "seekForPrev"}

ReaderState ==
  [op : Ops, pc : {"idle", "walk", "load", "snap"}, rule : {"any", "atOrBelow", "below"},
   aim : {"find", "front", "back"}, target : Key \union {Null}, cur : Nat, lv : Nat,
   node : Nat, d : Nat, snap : Seq(Slot), pos : Nat, found : BOOLEAN]

\* Which walks and which uses of a snapshot an operation has.
UseSound(i) ==
  /\ i \in ReaderState
  /\ i.op \in Targeted => i.target \in Key
  /\ i.pc = "walk" => i.aim # "front" /\ i.lv \in 0..(MaxHeight - 1)
  /\ i.pc \in {"walk", "load"} => i.cur \in Linked
  /\ i.pc = "snap" => i.d # Null
  /\ i.pc # "idle" =>
       /\ i.aim = "find" => i.op \in Targeted /\ i.rule = "atOrBelow"
       /\ i.aim = "front" => i.op \in Upward
       /\ i.aim = "back" => \/ i.op = "prev" /\ i.rule = "below"
                            \/ i.op = "seekToLast" /\ i.rule = "any"
                            \/ i.op = "seekForPrev" /\ i.rule \in {"any", "below"}

\* What a call on its way up must not pass over; m is the key it started from.
Wanted(i, m, k) ==
  CASE i.op = "next" -> k > m
    [] i.op \in {"seek", "seekForPrev"} -> k >= i.target
    [] OTHER -> TRUE

\* Where a walk is, or has led: at or below the target; or strictly below the
\* node the iterator steps back from.
PlaceSound(i, m) ==
  /\ i.pc \in {"walk", "load"} /\ i.aim = "find" => AtOrBelow(i.cur, i.target)
  /\ i.pc = "snap" /\ i.aim = "find" => AtOrBelow(i.node, i.target)
  /\ i.pc \in {"walk", "load"} /\ i.aim = "back" /\ i.rule = "below" =>
       /\ i.d # Null /\ i.node # HeadNode
       /\ Behind(i.cur, Start(i.node))
       /\ i.op = "prev" => m = Start(i.node)
  /\ i.pc = "snap" /\ i.op = "prev" => m \in Key /\ AtOrAfter(m, next[i.d])

\* A call on its way up has passed over nothing it may not, and next is past the
\* key it started from.
UpSound(i, b, m) ==
  i.aim = "front" =>
    /\ i.pc = "load" => /\ \A k \in b : Wanted(i, m, k) => ~Before(k, i.cur)
                        /\ i.op = "next" => Before(m, i.cur)
    /\ i.pc = "snap" => /\ \A k \in b : Wanted(i, m, k) => ~Before(k, i.node)
                        /\ i.op = "next" => Before(m, i.node)

\* The answer of a call that is over, also while writers write.
AnswerSound(i, b, m) ==
  i.pc = "idle" =>
    /\ i.op \in {"next", "seek", "seekToFirst"} =>
         \A k \in b : Wanted(i, m, k) => Valid(i) /\ KeyOf(i) <= k
    /\ i.op = "next" /\ Valid(i) => KeyOf(i) > m
    /\ i.op = "prev" => IF Valid(i) THEN KeyOf(i) < m ELSE \A k \in b : k >= m

\* The keys at or above the target.
Past(i) == {k \in Contents : k >= i.target}

\* What is more while nothing has been inserted since the call began: a walk has
\* led to the right node, and a seek on its way up begins above its target.
QuietSound(i, m) ==
  /\ i.aim = "find" =>
       /\ i.pc = "load" => ~AtOrAfter(i.target, next[data[i.cur]])
       /\ i.pc = "snap" => ~AtOrAfter(i.target, next[i.d])
  /\ i.aim = "front" /\ i.op \in {"seek", "seekForPrev"} =>
       /\ i.pc = "load" => Before(i.target, i.cur)
       /\ i.pc = "snap" => Before(i.target, i.node)
  /\ i.aim = "back" /\ i.rule = "any" =>
       /\ i.pc = "load" => next[data[i.cur]] = Null
       /\ i.pc = "snap" => next[i.d] = Null
       /\ i.pc # "idle" /\ i.op = "seekForPrev" => Past(i) = {}
  /\ i.aim = "back" /\ i.rule = "below" =>
       /\ i.pc = "load" => next[data[i.cur]] = i.node
       /\ i.pc = "snap" => next[i.d] # Null /\ (i.op = "prev" => m = Start(next[i.d]))
       /\ i.op = "seekForPrev" =>
            /\ i.pc \in {"walk", "load"} =>
                 Before(i.target, i.node) /\ \A k \in Past(i) : ~Before(k, i.node)
            /\ i.pc = "snap" =>
                 Before(i.target, next[i.d]) /\ \A k \in Past(i) : ~Before(k, next[i.d])

\* The iterator is on the least key of S, on the greatest, or S has none.
OnLeast(i, S) ==
  IF Valid(i) THEN KeyOf(i) \in S /\ \A k \in S : KeyOf(i) <= k ELSE S = {}
OnGreatest(i, S) ==
  IF Valid(i) THEN KeyOf(i) \in S /\ \A k \in S : k <= KeyOf(i) ELSE S = {}

\* The answers that are exact then.
QuietAnswer(i, m) ==
  i.pc = "idle" =>
    /\ i.op = "contains" /\ i.target \in Contents => i.found
    /\ i.op = "seek" => OnLeast(i, Past(i))
    /\ i.op = "seekForPrev" => OnGreatest(i, {k \in Contents : k <= i.target})
    /\ i.op = "seekToFirst" => OnLeast(i, Contents)
    /\ i.op = "seekToLast" => OnGreatest(i, Contents)
    /\ i.op = "next" => OnLeast(i, {k \in Contents : k > m})
    /\ i.op = "prev" => OnGreatest(i, {k \in Contents : k < m})

\* An iterator i, with the histories s and b of contents and the mark m.
ReaderSound(i, s, b, m) ==
  /\ s \subseteq Contents /\ b \subseteq Contents
  /\ i.found => i.target \in Contents
  /\ UseSound(i) /\ HandSound(i, s, b) /\ PlaceSound(i, m)
  /\ UpSound(i, b, m) /\ AnswerSound(i, b, m)
  /\ Contents = b => QuietSound(i, m) /\ QuietAnswer(i, m)

\* The inductive invariant of readers, on top of that of the index.
ReadSound ==
  /\ IndexSound
  /\ DOMAIN it = Reader /\ DOMAIN seen = Reader /\ DOMAIN base = Reader /\ DOMAIN mark = Reader
  /\ \A r \in Reader : ReaderSound(it[r], seen[r], base[r], mark[r])


-----------------------------------------------------------------------------
(* What no writer ever takes from a reader.                                *)

LEMMA LinkedGrows ==
  ASSUME IndexSound, [Next]_vars
  PROVE  Linked \subseteq Linked'
<1>1. IndexSound'
  BY TowerStep
<1>2. Linked = Reached(0)
  BY ListReached DEF LinkedIsReachable
<1>3. LinkedIsReachable'
  BY <1>1, ListReached, PTL
<1>4. Reached(0) \subseteq Reached(0)'
  BY LevelsStep, SizeFacts DEF AnyLevel
<1> QED
  BY <1>2, <1>3, <1>4 DEF LinkedIsReachable

\* Only the store that commits a split gives a listed node another payload.
LEMMA SplitIsNews ==
  ASSUME ListSound, Ownership', NEW w \in Writer, SplitData(w)
  PROVE  Contents' # Contents
<1>1. Ownership /\ pc[w] \in Building /\ pc[w] \in Pending
  BY DEF SplitData, ListSound, Building, Pending, Working
<1>2. loc[w].sib \in Node /\ loc[w].sib \notin Linked /\ data[loc[w].sib] = loc[w].right
  BY SplitDataLinked
<1>3. \A p \in Payload : loc[w].key \in held[p] => p \in {loc[w].left, loc[w].right}
  BY <1>1 DEF ListSound, ListOrder, KeysFresh
<1>4. /\ \A n \in Node : data[n] # loc[w].left /\ data[n] \in Payload
      /\ \A m, n \in Node : data[m] = data[n] => m = n
  BY <1>1 DEF Ownership, PayloadsOK, PointersOK
<1>5. ASSUME NEW n \in Linked PROVE loc[w].key \notin held[data[n]]
  BY <1>2, <1>3, <1>4 DEF Linked
<1>6. loc[w].key \notin Contents
  BY <1>1, <1>5, ContentsHeld
<1>7. loc[w].key \in Contents'
  BY SplitCommits DEF Set!Commit, arg
<1> QED
  BY <1>6, <1>7

LEMMA PayloadsStay ==
  ASSUME ListSound, Ownership', [Next]_vars, Contents' = Contents, NEW n \in Linked
  PROVE  data'[n] = data[n]
<1>1. n \in Node
  BY DEF Linked
<1>2. ASSUME NEW w \in Writer, AppendSlot(w) \/ AppendOrder(w) PROVE data' = data
  BY <1>2 DEF AppendSlot, AppendOrder, nodeVars
<1>3. ASSUME NEW w \in Writer, NEW h \in 1..MaxHeight, SplitBuild(w, h) PROVE data'[n] = data[n]
  BY <1>1, <1>3, SplitBuildMemory DEF ListSound
<1> QED
  BY <1>2, <1>3, SplitIsNews, ListWriters

LEMMA PayloadGrows ==
  ASSUME ListSound, Ownership', [Next]_vars
  PROVE  Payload \subseteq Payload'
<1>1. ASSUME NEW w \in Writer, AppendSlot(w) \/ SplitData(w) PROVE order' = order
  BY <1>1 DEF AppendSlot, SplitData, payloadVars
<1>2. ASSUME NEW w \in Writer, AppendOrder(w) PROVE Payload' = Payload
  BY <1>2, AppendOrderHeld
<1>3. ASSUME NEW w \in Writer, NEW h \in 1..MaxHeight, SplitBuild(w, h)
      PROVE  Payload \subseteq Payload'
  BY <1>3, SplitBuildMemory DEF ListSound
<1> QED
  BY <1>1, <1>2, <1>3, ListWriters DEF Payload, payloadVars

\* The keys a slot names stay, so those of a payload do while its order word does.
LEMMA SamePayload ==
  ASSUME ListSound, [Next]_vars, NEW p \in Payload, p \in Payload', order'[p] = order[p]
  PROVE  held'[p] = held[p]
<1>1. \A r \in DOMAIN order[p] : keys'[p][order[p][r]] = keys[p][order[p][r]]
  BY SnapshotStep DEF ListSound, Frozen
<1> QED
  BY <1>1 DEF held, KeysOf, KeyAt

LEMMA ContentsGrow ==
  ASSUME ListSound, Ownership', [Next]_vars
  PROVE  Contents \subseteq Contents'
BY SetStep DEF Set!Next, Set!vars, Set!Commit, Set!Throw, Set!Return, Set!Call

\* What a node holds is below the next node's first key: a fact to prime.
EndsBelowNext ==
  \A n \in Node : next[data[n]] # Null => \A k \in held[data[n]] : k < Start(next[data[n]])

LEMMA NextFactsAll == ListSound => EndsBelowNext
BY NextFacts DEF EndsBelowNext

LEMMA NextFactsThen ==
  ASSUME ListSound', NEW n \in Node', next'[data'[n]] # Null
  PROVE  \A k \in held'[data'[n]] : k < Start(next[data[n]])'
<1>1. EndsBelowNext'
  BY NextFactsAll, PTL
<1> QED
  BY <1>1 DEF EndsBelowNext

\* A payload that grows is that of a listed node.
LEMMA GrowthIsListed ==
  ASSUME ListSound, [Next]_vars, NEW p \in Payload, order'[p] # order[p]
  PROVE  \E w \in Writer :
           /\ AppendOrder(w) /\ loc[w].cur \in Linked /\ data[loc[w].cur] = p /\ loc[w].d = p
<1>1. Ownership
  BY DEF ListSound
<1>2. ASSUME NEW w \in Writer, AppendSlot(w) \/ SplitData(w) PROVE FALSE
  BY <1>2 DEF AppendSlot, SplitData, payloadVars
<1>3. ASSUME NEW w \in Writer, NEW h \in 1..MaxHeight, SplitBuild(w, h) PROVE FALSE
  BY <1>1, <1>3, SplitBuildMemory
<1>4. PICK w \in Writer : AppendOrder(w)
  BY <1>2, <1>3, ListWriters DEF payloadVars
<1>5. pc[w] = "order" /\ order' = [order EXCEPT ![loc[w].d] = InsertAt(@, Rank(w), FreeSlot(w))]
  BY <1>4 DEF AppendOrder
<1>6. loc[w].cur \in Node /\ data[loc[w].cur] = loc[w].d
  BY <1>1, <1>5 DEF Ownership, LocalOK, LockOK, Working
<1>7. loc[w].cur \in Linked
  BY <1>5, <1>6, CurNotHidden DEF Linked
<1>8. p = loc[w].d
  BY <1>5 DEF Payload
<1> QED
  BY <1>4, <1>6, <1>7, <1>8

\* A payload is that of its node, to begin with.
LEMMA IsOf ==
  ASSUME IndexSound, NEW n \in Linked
  PROVE  WasOf(data[n], n)
<1>1. n \in Node /\ ListSound /\ Ownership
  BY DEF Linked, IndexSound, ListSound
<1>2. data[n] \in Payload /\ (n # HeadNode => order[data[n]] # <<>>)
  BY <1>1, NodeFacts
<1>3. held[data[n]] \subseteq Contents
  BY <1>1, ContentsHeld
<1>4. next[data[n]] # Null =>
        /\ next[data[n]] \in Linked /\ next[data[n]] # HeadNode
        /\ \A k \in held[data[n]] : k < Start(next[data[n]])
  BY <1>1, NextFacts
<1>5. next[data[n]] # Null => order[data[n]] # <<>>
  BY <1>1 DEF ListSound, ListOrder, LinksForward
<1> QED
  BY <1>2, <1>3, <1>4, <1>5 DEF WasOf, Start

\* A payload that was that of a node keeps what it says of it, also if it grows.
LEMMA WasStays ==
  ASSUME IndexSound, [Next]_vars, NEW p, NEW n, WasOf(p, n)
  PROVE  WasOf(p, n)' /\ held[p] \subseteq held'[p]
<1>1. IndexSound' /\ ListSound' /\ Ownership' /\ ListSound /\ Ownership
  BY TowerStep DEF IndexSound, ListSound
<1>2. /\ p \in Payload /\ n \in Linked /\ n \in Node /\ held[p] \subseteq Contents
      /\ n # HeadNode => order[p] # <<>> /\ first[p] = Start(n)
      /\ next[p] # Null =>
           /\ next[p] \in Linked /\ next[p] # HeadNode /\ next[p] \in Node /\ order[p] # <<>>
           /\ \A k \in held[p] : k < Start(next[p])
  BY DEF WasOf, Linked
<1>3. Linked \subseteq Linked' /\ p \in Payload' /\ next'[p] = next[p]
  BY <1>1, <1>2, LinkedGrows, PayloadGrows, SnapshotStep DEF Frozen
<1>4. /\ n # HeadNode => Start(n)' = Start(n)
      /\ next[p] # Null => Start(next[p])' = Start(next[p])
  <2>1. ASSUME NEW x \in Node \ {HeadNode} PROVE Start(x)' = Start(x)
    BY <1>1, StartStays
  <2> QED
    BY <1>2, <1>3, <2>1
<1>5. CASE order'[p] = order[p]
  <2>1. held'[p] = held[p] /\ first'[p] = first[p]
    BY <1>1, <1>2, <1>3, <1>5, SamePayload, QuietPayload
  <2>2. Contents \subseteq Contents'
    BY <1>1, ContentsGrow
  <2> QED
    BY <1>2, <1>3, <1>4, <1>5, <2>1, <2>2 DEF WasOf
<1>6. CASE order'[p] # order[p]
  <2>1. PICK w \in Writer :
          AppendOrder(w) /\ loc[w].cur \in Linked /\ data[loc[w].cur] = p /\ loc[w].d = p
    BY <1>1, <1>2, <1>6, GrowthIsListed
  <2>2. PICK c : c = loc[w].cur
    OBVIOUS
  <2>3. /\ order'[p] # <<>> /\ held'[p] = held[p] \union {loc[w].key}
        /\ c # HeadNode => first'[p] = first[p]
    BY <1>1, <2>1, <2>2, AppendOrderHeld
  <2>4. c \in Linked' /\ c \in Node' /\ data'[c] = p
    BY <1>3, <2>1, <2>2 DEF AppendOrder, nodeVars, Linked
  <2>5. held'[p] \subseteq Contents'
    BY <1>1, <2>4, ContentsHeldNext
  <2>6. next'[p] # Null => \A k \in held'[p] : k < Start(next[p])'
    BY <1>1, <1>3, <2>4, NextFactsThen
  <2>7. n # HeadNode => c # HeadNode
    <3> SUFFICES ASSUME n # HeadNode, c = HeadNode PROVE FALSE
      OBVIOUS
    <3>1. first[p] \in held[p] /\ Start(n) \in held[data[n]]
      BY <1>1, <1>2, FirstIsLeast, NodeFacts DEF ListSound, ListOrder
    <3>2. held[data[n]] \intersect held[data[c]] = {}
      BY <1>1, <1>2, <2>1, <2>2 DEF ListSound, ListOrder, NodesDisjoint
    <3> QED
      BY <1>2, <2>1, <2>2, <3>1, <3>2
  <2> QED
    BY <1>2, <1>3, <1>4, <2>3, <2>5, <2>6, <2>7 DEF WasOf
<1> QED
  BY <1>5, <1>6
\* Where a node of the list begins, other than the head, is settled; so are all
\* comparisons with it.
LEMMA PlacesStay ==
  ASSUME IndexSound, [Next]_vars, NEW n \in Linked, NEW k
  PROVE  /\ n \in Linked'
         /\ n # HeadNode => Start(n)' = Start(n)
         /\ Before(k, n)' <=> Before(k, n)
         /\ AtOrBelow(n, k)' <=> AtOrBelow(n, k)
         /\ Behind(n, k)' <=> Behind(n, k)
         /\ n # HeadNode /\ n # Null => (AtOrAfter(k, n)' <=> AtOrAfter(k, n))
<1>1. n \in Node /\ n \in Linked'
  BY LinkedGrows DEF Linked
<1>2. n # HeadNode => Start(n)' = Start(n)
  BY <1>1, StartStays DEF IndexSound
<1>3. n # HeadNode => first'[data'[n]] = first[data[n]]
  BY <1>2 DEF Start
<1> QED
  BY <1>1, <1>2, <1>3 DEF Before, AtOrBelow, Behind, AtOrAfter, Start

\* So is the link of a payload that was that of a node.
LEMMA LinksStay ==
  ASSUME IndexSound, [Next]_vars, NEW p, NEW n, WasOf(p, n), NEW k
  PROVE  /\ next'[p] = next[p]
         /\ AtOrAfter(k, next[p])' <=> AtOrAfter(k, next[p])
         /\ next[p] # Null => /\ Before(k, next[p])' <=> Before(k, next[p])
                              /\ Start(next[p])' = Start(next[p])
<1>1. p \in Payload /\ (next[p] # Null => next[p] \in Linked /\ next[p] # HeadNode)
  BY DEF WasOf
<1>2. next'[p] = next[p]
  BY <1>1, SnapshotStep DEF Frozen, IndexSound, ListSound
<1>3. PICK x : x = next[p]
  OBVIOUS
<1>4. CASE x = Null
  BY <1>2, <1>3, <1>4 DEF AtOrAfter
<1>5. CASE x # Null
  <2>1. /\ AtOrAfter(k, x)' <=> AtOrAfter(k, x)
        /\ Before(k, x)' <=> Before(k, x)
        /\ Start(x)' = Start(x)
    BY <1>1, <1>3, <1>5, PlacesStay
  <2> QED
    BY <1>2, <1>3, <1>5, <2>1
<1> QED
  BY <1>4, <1>5

\* What iterator i has in hand stays what it is.
LEMMA HandStays ==
  ASSUME IndexSound, [Next]_vars, NEW i, NEW s, NEW b, s \subseteq Contents,
         i.snap \in Seq(Slot), i.d # Null, HandSound(i, s, b)
  PROVE  /\ HandSound(i, s, b)'
         /\ i.pc # "snap" => \A a \in DOMAIN i.snap : KeyAt(i.d, i.snap, a)' = KeyAt(i.d, i.snap, a)
<1>1. /\ WasOf(i.d, i.node) /\ i.d \in Payload /\ i.node \in Linked
      /\ ListSound /\ Ownership
  BY DEF HandSound, WasOf, IndexSound, ListSound
<1>2. WasOf(i.d, i.node)' /\ held[i.d] \subseteq held'[i.d] /\ Frozen(i.d)
  BY <1>1, WasStays, SnapshotStep
<1>3. \A k : /\ Before(k, i.node)' <=> Before(k, i.node)
             /\ AtOrAfter(k, next[i.d])' <=> AtOrAfter(k, next[i.d])
  BY <1>1, PlacesStay, LinksStay
<1>4. ASSUME i.pc # "snap"
      PROVE  /\ \A a \in DOMAIN i.snap : KeyAt(i.d, i.snap, a)' = KeyAt(i.d, i.snap, a)
             /\ Shown(i)' = Shown(i) /\ SnapSound(i)'
  <2>1. SnapSound(i)
    BY <1>4 DEF HandSound
  <2>2. ASSUME NEW a \in DOMAIN i.snap
        PROVE  keys'[i.d][i.snap[a]] = keys[i.d][i.snap[a]]
    <3>1. i.snap[a] \in ToSet(i.snap)
      BY DEF ToSet
    <3>2. PICK r \in DOMAIN order[i.d] : order[i.d][r] = i.snap[a]
      BY <2>1, <3>1 DEF SnapSound, ToSet
    <3> QED
      BY <1>2, <3>2 DEF Frozen
  <2>3. \A a \in DOMAIN i.snap : KeyAt(i.d, i.snap, a)' = KeyAt(i.d, i.snap, a)
    BY <2>2 DEF KeyAt
  <2>4. Shown(i)' = Shown(i)
    BY <2>3 DEF Shown
  <2>5. i.node # HeadNode => Start(i.node)' = Start(i.node)
    BY <1>1, PlacesStay
  <2>6. ToSet(i.snap) \subseteq ToSet(order'[i.d])
    BY <1>2, <2>1 DEF SnapSound, Frozen
  <2>7. i.node # HeadNode => 1 \in DOMAIN i.snap
    BY <2>1 DEF SnapSound
  <2>8. SnapSound(i)'
    BY <2>1, <2>3, <2>5, <2>6, <2>7 DEF SnapSound
  <2> QED
    BY <2>3, <2>4, <2>8
<1>5. i.pc = "snap" /\ Covers(i, held[i.d], s) => Covers(i, held[i.d], s)'
  BY <1>2, <1>3 DEF Covers
<1>6. i.pc # "snap" /\ Covers(i, Shown(i), s) => Covers(i, Shown(i), s)'
  BY <1>3, <1>4 DEF Covers
<1> QED
  BY <1>2, <1>4, <1>5, <1>6 DEF HandSound
LEMMA PlaceStays ==
  ASSUME IndexSound, [Next]_vars, NEW i, NEW s, NEW b, NEW m,
         UseSound(i), HandSound(i, s, b), PlaceSound(i, m), UpSound(i, b, m)
  PROVE  UseSound(i)' /\ PlaceSound(i, m)' /\ UpSound(i, b, m)'
<1>1. i.pc \in {"walk", "load"} => i.cur \in Linked
  BY DEF UseSound
<1>2. i.d # Null => i.node \in Linked /\ WasOf(i.d, i.node)
  BY DEF HandSound, WasOf
<1>3. i.pc = "snap" => i.d # Null
  BY DEF UseSound
<1>4. i.pc \in {"walk", "load"} =>
        /\ i.cur \in Linked'
        /\ \A k : /\ Before(k, i.cur)' <=> Before(k, i.cur)
                  /\ AtOrBelow(i.cur, k)' <=> AtOrBelow(i.cur, k)
                  /\ Behind(i.cur, k)' <=> Behind(i.cur, k)
  BY <1>1, PlacesStay
<1>5. i.d # Null =>
        /\ i.node # HeadNode => Start(i.node)' = Start(i.node)
        /\ \A k : /\ Before(k, i.node)' <=> Before(k, i.node)
                  /\ AtOrBelow(i.node, k)' <=> AtOrBelow(i.node, k)
                  /\ AtOrAfter(k, next[i.d])' <=> AtOrAfter(k, next[i.d])
  BY <1>2, PlacesStay, LinksStay
<1>6. UseSound(i)'
  BY <1>4 DEF UseSound
<1>7. UpSound(i, b, m)'
  BY <1>3, <1>4, <1>5 DEF UpSound
<1>8. PlaceSound(i, m)'
  BY <1>3, <1>4, <1>5 DEF PlaceSound
<1> QED
  BY <1>6, <1>7, <1>8

LEMMA QuietStays ==
  ASSUME IndexSound, [Next]_vars, NEW i, NEW s, NEW b, NEW m, Contents' = Contents,
         UseSound(i), HandSound(i, s, b), PlaceSound(i, m), QuietSound(i, m)
  PROVE  QuietSound(i, m)'
<1>1. i.pc \in {"walk", "load"} => i.cur \in Linked
  BY DEF UseSound
<1>2. /\ i.d # Null => i.node \in Linked /\ WasOf(i.d, i.node)
      /\ i.pc = "snap" => i.d # Null
      /\ i.pc \in {"walk", "load"} /\ i.aim = "back" /\ i.rule = "below" => i.d # Null
  BY DEF HandSound, WasOf, UseSound, PlaceSound
<1>3. i.pc = "load" => \A k : Before(k, i.cur)' <=> Before(k, i.cur)
  BY <1>1, PlacesStay
<1>4. i.d # Null =>
        /\ next'[i.d] = next[i.d]
        /\ \A k : /\ Before(k, i.node)' <=> Before(k, i.node)
                  /\ AtOrAfter(k, next[i.d])' <=> AtOrAfter(k, next[i.d])
                  /\ next[i.d] # Null => (Before(k, next[i.d])' <=> Before(k, next[i.d]))
        /\ next[i.d] # Null => Start(next[i.d])' = Start(next[i.d])
  BY <1>2, PlacesStay, LinksStay
<1>5. i.pc = "load" =>
        /\ next'[data'[i.cur]] = next[data[i.cur]]
        /\ \A k : AtOrAfter(k, next[data[i.cur]])' <=> AtOrAfter(k, next[data[i.cur]])
  <2> SUFFICES ASSUME i.pc = "load"
               PROVE  /\ next'[data'[i.cur]] = next[data[i.cur]]
                      /\ \A k : AtOrAfter(k, next[data[i.cur]])' <=> AtOrAfter(k, next[data[i.cur]])
    OBVIOUS
  <2>1. i.cur \in Linked /\ ListSound /\ Ownership'
    BY <1>1, TowerStep DEF IndexSound, ListSound
  <2>2. data'[i.cur] = data[i.cur] /\ WasOf(data[i.cur], i.cur)
    BY <2>1, PayloadsStay, IsOf
  <2> QED
    BY <2>2, LinksStay
<1>6. Past(i)' = Past(i)
  BY DEF Past
<1>7. i.pc = "snap" /\ i.aim = "back" /\ i.rule = "below" => next[i.d] # Null
  BY DEF QuietSound
<1> QED
  BY <1>2, <1>3, <1>4, <1>5, <1>6, <1>7 DEF QuietSound

\* No step of a writer takes anything from a reader: what holds of an iterator and
\* its histories goes on to hold.
LEMMA ReaderStays ==
  ASSUME IndexSound, [Next]_vars, NEW i, NEW s, NEW b, NEW m, ReaderSound(i, s, b, m)
  PROVE  ReaderSound(i, s, b, m)'
<1>1. /\ s \subseteq Contents /\ b \subseteq Contents
      /\ i.found => i.target \in Contents
      /\ UseSound(i) /\ HandSound(i, s, b) /\ PlaceSound(i, m)
      /\ UpSound(i, b, m) /\ AnswerSound(i, b, m)
      /\ Contents = b => QuietSound(i, m) /\ QuietAnswer(i, m)
  BY DEF ReaderSound
<1>2. Contents \subseteq Contents'
  BY ContentsGrow, TowerStep DEF IndexSound, ListSound
<1>3. UseSound(i)' /\ PlaceSound(i, m)' /\ UpSound(i, b, m)'
  BY <1>1, PlaceStays
<1>4. HandSound(i, s, b)'
  <2>1. CASE i.d = Null
    BY <2>1 DEF HandSound
  <2>2. CASE i.d # Null
    <3>1. i.snap \in Seq(Slot)
      BY <1>1 DEF UseSound, ReaderState
    <3> QED
      BY <1>1, <2>2, <3>1, HandStays
  <2> QED
    BY <2>1, <2>2
<1>5. Valid(i)' = Valid(i)
  BY DEF Valid
<1>6. i.pc = "idle" /\ Valid(i) => KeyOf(i)' = KeyOf(i)
  <2> SUFFICES ASSUME i.pc = "idle", Valid(i) PROVE KeyOf(i)' = KeyOf(i)
    OBVIOUS
  <2>1. i.d # Null /\ i.pos \in DOMAIN i.snap /\ i.snap \in Seq(Slot)
    BY <1>1 DEF Valid, UseSound, ReaderState
  <2>2. KeyAt(i.d, i.snap, i.pos)' = KeyAt(i.d, i.snap, i.pos)
    BY <1>1, <2>1, HandStays
  <2> QED
    BY <2>2 DEF KeyOf
<1>7. AnswerSound(i, b, m)'
  BY <1>1, <1>5, <1>6 DEF AnswerSound, Wanted
<1>8. Contents' = b => QuietSound(i, m)' /\ QuietAnswer(i, m)'
  <2> SUFFICES ASSUME Contents' = b PROVE QuietSound(i, m)' /\ QuietAnswer(i, m)'
    OBVIOUS
  <2>1. Contents' = Contents /\ QuietSound(i, m) /\ QuietAnswer(i, m)
    BY <1>1, <1>2
  <2>2. QuietSound(i, m)'
    BY <1>1, <2>1, QuietStays
  <2> QED
    BY <1>5, <1>6, <2>1, <2>2 DEF QuietAnswer, OnLeast, OnGreatest, Past
<1> QED
  BY <1>1, <1>2, <1>3, <1>4, <1>7, <1>8 DEF ReaderSound

-----------------------------------------------------------------------------
(* Iterators as records.                                                   *)

Rules == {"any", "atOrBelow", "below"}
Aims == {"find", "front", "back"}

\* j has in hand what i has.
SameHand(i, j) == j.d = i.d /\ j.node = i.node /\ j.snap = i.snap

\* j is in the call i is in.
SameCallOf(i, j) == j.op = i.op /\ j.target = i.target

Asking(c, k) == [Fresh EXCEPT !.op = c, !.target = k]
Turning(c) == [Fresh EXCEPT !.op = c]

LEMMA AskingIs ==
  ASSUME NEW c \in Ops, NEW k \in Key
  PROVE  /\ Asking(c, k) \in ReaderState /\ Asking(c, k).op = c /\ Asking(c, k).target = k
         /\ Asking(c, k).d = Null /\ ~Asking(c, k).found
<1>1. <<>> \in Seq(Slot) /\ 0 \in Nat /\ Null \in Nat
  BY DEF Null
<1> QED
  BY <1>1 DEF Asking, Fresh, ReaderState, Ops

LEMMA TurningIs ==
  ASSUME NEW c \in Ops
  PROVE  /\ Turning(c) \in ReaderState /\ Turning(c).op = c
         /\ Turning(c).d = Null /\ ~Turning(c).found
<1>1. <<>> \in Seq(Slot) /\ 0 \in Nat /\ Null \in Nat
  BY DEF Null
<1> QED
  BY <1>1 DEF Turning, Fresh, ReaderState, Ops

LEMMA WalkingIs ==
  ASSUME NEW i \in ReaderState, NEW rule \in Rules, NEW aim \in Aims,
         NEW j, j = Walking(i, rule, aim)
  PROVE  /\ j \in ReaderState /\ SameHand(i, j) /\ SameCallOf(i, j) /\ j.found = i.found
         /\ j.pc = "walk" /\ j.rule = rule /\ j.aim = aim
         /\ j.cur = HeadNode /\ j.lv = MaxHeight - 1
<1>1. HeadNode \in Nat /\ MaxHeight - 1 \in Nat
  BY SizeFacts DEF HeadNode
<1> QED
  BY <1>1 DEF Walking, ReaderState, SameHand, SameCallOf, Rules, Aims

LEMMA AdoptingIs ==
  ASSUME NEW i \in ReaderState, NEW n \in Nat, NEW aim \in Aims,
         NEW j, j = Adopting(i, n, aim)
  PROVE  /\ j \in ReaderState /\ SameHand(i, j) /\ SameCallOf(i, j) /\ j.found = i.found
         /\ j.pc = "load" /\ j.rule = i.rule /\ j.aim = aim /\ j.cur = n
BY DEF Adopting, ReaderState, SameHand, SameCallOf, Aims

LEMMA EndedIs ==
  ASSUME NEW i \in ReaderState, NEW j, j = Ended(i)
  PROVE  /\ j \in ReaderState /\ SameCallOf(i, j) /\ j.found = i.found
         /\ j.pc = "idle" /\ j.d = Null /\ j.aim = i.aim /\ j.rule = i.rule
<1>1. Null \in Nat
  BY DEF Null
<1> QED
  BY <1>1 DEF Ended, ReaderState, SameCallOf

Resting(i, p) == [i EXCEPT !.pc = "idle", !.pos = p]

LEMMA PosIs ==
  ASSUME NEW i \in ReaderState, NEW p \in Nat, NEW j, j = Resting(i, p)
  PROVE  /\ j \in ReaderState /\ SameHand(i, j) /\ SameCallOf(i, j) /\ j.found = i.found
         /\ j.pc = "idle" /\ j.pos = p /\ j.aim = i.aim /\ j.rule = i.rule
BY DEF Resting, ReaderState, SameHand, SameCallOf

Stepping(i, op, p) == [i EXCEPT !.op = op, !.pos = p]

LEMMA MovedIs ==
  ASSUME NEW i \in ReaderState, NEW op \in Ops, NEW p \in Nat, NEW j, j = Stepping(i, op, p)
  PROVE  /\ j \in ReaderState /\ SameHand(i, j) /\ j.op = op /\ j.target = i.target
         /\ j.found = i.found /\ j.pc = i.pc /\ j.pos = p /\ j.aim = i.aim /\ j.rule = i.rule
BY DEF Stepping, ReaderState, SameHand

\* j is where else i walks to.
Strides(i, j) ==
  /\ j \in ReaderState /\ SameHand(i, j) /\ SameCallOf(i, j) /\ j.found = i.found
  /\ j.rule = i.rule /\ j.aim = i.aim

LEMMA StridesAre ==
  ASSUME NEW i \in ReaderState, NEW c \in Nat, NEW l \in Nat,
         NEW j, \/ j = [i EXCEPT !.cur = c] /\ l = i.lv
                \/ j = [i EXCEPT !.lv = l] /\ c = i.cur
  PROVE  Strides(i, j) /\ j.pc = i.pc /\ j.cur = c /\ j.lv = l
BY DEF Strides, ReaderState, SameHand, SameCallOf

LEMMA ArrivesAre ==
  ASSUME NEW i \in ReaderState, NEW j, j = [i EXCEPT !.pc = "load"]
  PROVE  Strides(i, j) /\ j.pc = "load" /\ j.cur = i.cur /\ j.lv = i.lv
BY DEF Strides, ReaderState, SameHand, SameCallOf

Answered(i, f) == [Ended(i) EXCEPT !.found = f]

LEMMA AnsweredIs ==
  ASSUME NEW i \in ReaderState, NEW f \in BOOLEAN
  PROVE  /\ Answered(i, f) \in ReaderState /\ SameCallOf(i, Answered(i, f))
         /\ Answered(i, f).found = f /\ Answered(i, f).pc = "idle" /\ Answered(i, f).d = Null
<1>1. Null \in Nat
  BY DEF Null
<1> QED
  BY <1>1 DEF Answered, Ended, ReaderState, SameCallOf

Shot(i, o) == [i EXCEPT !.snap = o]

LEMMA ShotIs ==
  ASSUME NEW i \in ReaderState, NEW o \in Seq(Slot), NEW j, j = Shot(i, o)
  PROVE  /\ j \in ReaderState /\ SameCallOf(i, j) /\ j.found = i.found
         /\ j.pc = i.pc /\ j.rule = i.rule /\ j.aim = i.aim /\ j.node = i.node /\ j.d = i.d
         /\ j.snap = o
BY DEF Shot, ReaderState, SameCallOf

Placed(i, p) == [i EXCEPT !.pos = p]

LEMMA PlacedIs ==
  ASSUME NEW i \in ReaderState, NEW p \in Nat, NEW j, j = Placed(i, p)
  PROVE  /\ j \in ReaderState /\ SameHand(i, j) /\ SameCallOf(i, j) /\ j.found = i.found
         /\ j.pc = i.pc /\ j.rule = i.rule /\ j.aim = i.aim /\ j.pos = p
BY DEF Placed, ReaderState, SameHand, SameCallOf

-----------------------------------------------------------------------------
(* Where keys are.                                                         *)

LEMMA HeadLinked ==
  ASSUME IndexSound
  PROVE  HeadNode \in Linked
<1>1. 0 \in AnyLevel
  BY SizeFacts DEF AnyLevel
<1> QED
  BY <1>1, WalksHold DEF Walks

\* A node of the list, its keys and the link to the next one account for every
\* key from its first one on.
LEMMA CoversAll ==
  ASSUME IndexSound, NEW i, i.node \in Linked, i.d = data[i.node]
  PROVE  Covers(i, held[i.d], Contents)
<1>1. PICK n : n = i.node
  OBVIOUS
<1>2. n \in Linked /\ n \in Node /\ i.d = data[n] /\ ListSound
  BY <1>1 DEF Linked, IndexSound
<1>3. \A x, y \in Linked : y # HeadNode /\ Behind(x, Start(y)) =>
        next[data[x]] # Null /\ Start(next[data[x]]) <= Start(y)
  BY DEF IndexSound, TowerOrder, Gapless
<1>4. ASSUME NEW k \in Contents
      PROVE  Before(k, n) \/ k \in held[data[n]] \/ AtOrAfter(k, next[data[n]])
  <2>1. PICK x \in Linked : k \in held[data[x]]
    BY <1>2, ContentsHeld DEF ListSound
  <2>2. x \in Node /\ data[x] \in Payload
    BY <1>2, <2>1, NodeFacts DEF Linked
  <2>3. /\ x # HeadNode => Start(x) \in Nat /\ Start(x) <= k
        /\ n # HeadNode => Start(n) \in Nat
        /\ k \in Nat
    BY <1>2, <2>1, <2>2, NodeFacts, PayloadFacts DEF ListSound
  <2>4. ASSUME x # HeadNode, Behind(n, Start(x)) PROVE AtOrAfter(k, next[data[n]])
    <3>1. next[data[n]] # Null /\ Start(next[data[n]]) <= Start(x)
      BY <1>2, <1>3, <2>1, <2>4
    <3>2. Start(next[data[n]]) \in Nat
      BY <1>2, <3>1, NextFacts, NodeFacts
    <3> QED
      BY <2>3, <2>4, <3>1, <3>2 DEF AtOrAfter
  <2>5. ASSUME n # HeadNode, Behind(x, Start(n)) PROVE Before(k, n)
    <3>1. next[data[x]] # Null /\ Start(next[data[x]]) <= Start(n)
      BY <1>2, <1>3, <2>1, <2>5
    <3>2. Start(next[data[x]]) \in Nat /\ k < Start(next[data[x]])
      BY <1>2, <2>1, <2>2, <3>1, NextFacts, NodeFacts
    <3> QED
      BY <2>3, <2>5, <3>1, <3>2 DEF Before
  <2>6. x = n \/ (x # HeadNode /\ Behind(n, Start(x))) \/ (n # HeadNode /\ Behind(x, Start(n)))
    <3>1. x # HeadNode /\ n # HeadNode /\ Start(x) = Start(n) => x = n
      BY <1>2, <2>1, StartsApart
    <3> QED
      BY <2>3, <3>1 DEF Behind
  <2> QED
    BY <2>1, <2>4, <2>5, <2>6
<1> QED
  BY <1>1, <1>2, <1>4 DEF Covers

\* starts_strictly_below decides by hint what the comparator would.
LEMMA StrictMeansFirst ==
  ASSUME ListSound, NEW n \in Node \ {HeadNode}, NEW k \in Key
  PROVE  StartsStrictlyBelow(n, k) <=> Start(n) < k
<1>1. data[n] \in Payload /\ order[data[n]] # <<>> /\ hint[n] = Hint[Start(n)]
  BY DEF ListSound, ListOrder, LinksForward, HintsFollow, Ownership, PointersOK, Start
<1>2. FirstKey(n) = Start(n) /\ Start(n) \in Key
  BY StartsMeansFirst DEF Start
<1>3. CASE HintOrdering /\ hint[n] # Hint[k]
  <2>1. Hint[k] \in Nat /\ hint[n] \in Nat /\ k \in Nat /\ Start(n) \in Nat
    BY <1>1, <1>2, SizeFacts, HintAssumption
  <2>2. Start(n) < k => hint[n] <= Hint[k]
    BY <1>1, <1>2, <1>3, HintAssumption
  <2>3. k < Start(n) => Hint[k] <= hint[n]
    BY <1>1, <1>2, <1>3, HintAssumption
  <2>4. k # Start(n)
    BY <1>1, <1>3
  <2>5. StartsStrictlyBelow(n, k) <=> hint[n] < Hint[k]
    BY <1>3 DEF StartsStrictlyBelow
  <2> QED
    BY <1>3, <2>1, <2>2, <2>3, <2>4, <2>5
<1>4. CASE ~(HintOrdering /\ hint[n] # Hint[k])
  BY <1>1, <1>2, <1>4 DEF StartsStrictlyBelow
<1> QED
  BY <1>3, <1>4

\* sorted_position finds the place of any key, present or not.  Between the
\* doubled keys of a run and the doubled key itself there is room for neither.
LEMMA PositionCuts ==
  ASSUME Ownership, RunsAscend, NEW p \in Payload, NEW k \in Key, NEW c, c = SortedPosition(p, order[p], k)
  PROVE  /\ c \in 0..Len(order[p])
         /\ \A r \in 1..Len(order[p]) : KeyAt(p, order[p], r) < k <=> r <= c
<1>1. PICK n, run : n = Len(order[p]) /\ run = Named(keys[p], order[p])
  OBVIOUS
<1>2. /\ n \in Nat /\ \A r \in 1..n : run[r] \in Nat
      /\ Ascends(run, n) /\ DOMAIN order[p] = 1..n /\ k \in Nat
  BY <1>1, RunFacts, PayloadFacts, SizeFacts
<1>3. \A r \in 1..n : run[r] = KeyAt(p, order[p], r)
  BY <1>1, <1>2 DEF Named, KeyAt
<1>4. PICK odd : odd = [r \in 1..n |-> 2 * run[r] + 1]
  OBVIOUS
<1>5. /\ \A r \in 1..n : odd[r] \in Nat /\ odd[r] # 2 * k /\ (odd[r] < 2 * k <=> run[r] < k)
      /\ 2 * k \in Nat
  <2>1. ASSUME NEW r \in 1..n
        PROVE  odd[r] \in Nat /\ odd[r] # 2 * k /\ (odd[r] < 2 * k <=> run[r] < k)
    <3>1. PICK x : x = run[r]
      OBVIOUS
    <3>2. x \in Nat /\ odd[r] = 2 * x + 1
      BY <1>2, <1>4, <3>1
    <3> QED
      BY <1>2, <3>1, <3>2
  <2> QED
    BY <1>2, <2>1
<1>6. Ascends(odd, n)
  <2>1. ASSUME NEW r \in 1..n, NEW t \in 1..n, r < t PROVE odd[r] < odd[t]
    <3>1. PICK x, y : x = run[r] /\ y = run[t]
      OBVIOUS
    <3>2. x \in Nat /\ y \in Nat /\ x < y
      BY <1>2, <2>1, <3>1 DEF Ascends
    <3>3. odd[r] = 2 * x + 1 /\ odd[t] = 2 * y + 1
      BY <1>4, <3>1
    <3> QED
      BY <3>2, <3>3
  <2> QED
    BY <2>1 DEF Ascends
<1>7. c = CountBelow(odd, n, 2 * k)
  <2>1. {r \in DOMAIN order[p] : KeyAt(p, order[p], r) < k} = {r \in 1..n : odd[r] < 2 * k}
    BY <1>2, <1>3, <1>5
  <2> QED
    BY <2>1 DEF SortedPosition, CountBelow
<1>8. PICK e : e = 2 * k
  OBVIOUS
<1>9. Cuts(odd, n, c, e)
  <2>1. e \in Nat /\ (\A r \in 1..n : odd[r] \in Nat /\ odd[r] # e) /\ c = CountBelow(odd, n, e)
    BY <1>5, <1>7, <1>8
  <2> QED
    BY <1>2, <1>6, <2>1, CountingFindsPlace
<1>10. c \in 0..n /\ \A r \in 1..n : odd[r] < e <=> r <= c
  <2>1. ASSUME NEW r \in 1..n PROVE odd[r] < e <=> r <= c
    <3>1. odd[r] \in Nat /\ e \in Nat
      BY <1>5, <1>8
    <3>2. IF r <= c THEN odd[r] < e ELSE e < odd[r]
      BY <1>9 DEF Cuts
    <3> QED
      BY <3>1, <3>2
  <2> QED
    BY <1>9, <2>1 DEF Cuts
<1> QED
  BY <1>1, <1>3, <1>5, <1>8, <1>10
\* What a snapshot shows lies between the first key of its node and that of the
\* next, and is in the set.
LEMMA ShownFacts ==
  ASSUME IndexSound, NEW i \in ReaderState, WasOf(i.d, i.node), SnapSound(i)
  PROVE  /\ Len(i.snap) \in Nat /\ DOMAIN i.snap = 1..Len(i.snap)
         /\ i.snap = <<>> <=> Len(i.snap) = 0
         /\ next[i.d] # Null => Start(next[i.d]) \in Nat
         /\ i.node # HeadNode =>
              /\ Start(i.node) \in Nat /\ Len(i.snap) # 0
              /\ KeyAt(i.d, i.snap, 1) = Start(i.node)
         /\ \A a \in 1..Len(i.snap) :
              /\ KeyAt(i.d, i.snap, a) \in Contents
              /\ KeyAt(i.d, i.snap, a) \in Key /\ KeyAt(i.d, i.snap, a) \in Nat
              /\ next[i.d] # Null => KeyAt(i.d, i.snap, a) < Start(next[i.d])
              /\ i.node # HeadNode => Start(i.node) <= KeyAt(i.d, i.snap, a)
         /\ \A a, c \in 1..Len(i.snap) :
              a < c => KeyAt(i.d, i.snap, a) < KeyAt(i.d, i.snap, c)
<1>1. /\ i.d \in Payload /\ i.node \in Node /\ held[i.d] \subseteq Contents
      /\ next[i.d] # Null => /\ next[i.d] \in Node \ {HeadNode}
                             /\ \A k \in held[i.d] : k < Start(next[i.d])
      /\ ListSound /\ Ownership
  BY DEF WasOf, Linked, IndexSound, ListSound
<1>2. /\ i.snap \in Seq(Slot) /\ Len(i.snap) \in Nat /\ DOMAIN i.snap = 1..Len(i.snap)
      /\ i.snap = <<>> <=> Len(i.snap) = 0
  BY DEF ReaderState
<1>3. /\ i.node # HeadNode => Start(i.node) \in Nat
      /\ next[i.d] # Null => Start(next[i.d]) \in Nat
  BY <1>1, NodeFacts
<1>4. ASSUME NEW a \in 1..Len(i.snap) PROVE KeyAt(i.d, i.snap, a) \in held[i.d]
  <2>1. i.snap[a] \in ToSet(i.snap)
    BY <1>2 DEF ToSet
  <2>2. PICK r \in DOMAIN order[i.d] : order[i.d][r] = i.snap[a]
    BY <2>1 DEF SnapSound, ToSet
  <2> QED
    BY <1>1, <2>2 DEF held, KeysOf, KeyAt
<1>5. held[i.d] \subseteq Key /\ Key \subseteq Nat
  BY <1>1, PayloadFacts
<1>6. \A a, c \in 1..Len(i.snap) : a < c => KeyAt(i.d, i.snap, a) < KeyAt(i.d, i.snap, c)
  BY <1>2 DEF SnapSound
<1>7. i.node # HeadNode => Len(i.snap) # 0 /\ KeyAt(i.d, i.snap, 1) = Start(i.node)
  BY <1>2 DEF SnapSound
<1>8. ASSUME NEW a \in 1..Len(i.snap), i.node # HeadNode PROVE Start(i.node) <= KeyAt(i.d, i.snap, a)
  <2>1. 1 \in 1..Len(i.snap) /\ (a = 1 \/ 1 < a)
    BY <1>2
  <2>2. KeyAt(i.d, i.snap, 1) \in Nat /\ KeyAt(i.d, i.snap, a) \in Nat
    BY <1>4, <1>5, <2>1
  <2> QED
    BY <1>6, <1>7, <1>8, <2>1, <2>2
<1> QED
  BY <1>1, <1>2, <1>3, <1>4, <1>5, <1>6, <1>7, <1>8

\* Where a key that was there in time can be, seen from the node in hand.
LEMMA Whereabouts ==
  ASSUME IndexSound, NEW i, NEW s, s \subseteq Contents, Covers(i, Shown(i), s), NEW k \in s
  PROVE  /\ k \in Nat
         /\ \/ i.node # HeadNode /\ k < Start(i.node)
            \/ \E a \in DOMAIN i.snap : k = KeyAt(i.d, i.snap, a)
            \/ next[i.d] # Null /\ Start(next[i.d]) <= k
<1>1. k \in Nat
  <2>1. PICK n \in Linked : k \in held[data[n]]
    BY ContentsHeld DEF IndexSound, ListSound
  <2> QED
    BY <2>1, NodeFacts, PayloadFacts DEF Linked, IndexSound, ListSound
<1> QED
  BY <1>1 DEF Covers, Shown, Before, AtOrAfter

-----------------------------------------------------------------------------
(* Moving forward.                                                         *)

\* Iterator i is about to skip_forward: nothing it must report lies before its
\* position.
Poised(i, s, b, m) ==
  /\ i \in ReaderState /\ i.d # Null /\ WasOf(i.d, i.node)
  /\ SnapSound(i) /\ Covers(i, Shown(i), s)
  /\ s \subseteq Contents /\ b \subseteq s
  /\ i.op \in Upward \union {"seekForPrev"} /\ (i.op \in Targeted => i.target \in Key)
  /\ i.found => i.target \in Contents
  /\ i.pos \in 1..(Len(i.snap) + 1)
  /\ \A k \in b : Wanted(i, m, k) =>
       ~Before(k, i.node) /\ \A a \in 1..(i.pos - 1) : KeyAt(i.d, i.snap, a) < k
  /\ i.op = "next" =>
       IF i.pos <= Len(i.snap) THEN KeyOf(i) > m ELSE next[i.d] # Null => Before(m, next[i.d])
  /\ Contents = b =>
       IF i.pos <= Len(i.snap) THEN Wanted(i, m, KeyOf(i))
       ELSE i.op \in {"seek", "seekForPrev"} /\ next[i.d] # Null => Before(i.target, next[i.d])

\* What it comes to rest on then.
Rested(i, b, m) ==
  /\ \A k \in b : Wanted(i, m, k) => Valid(i) /\ KeyOf(i) <= k
  /\ i.op = "next" /\ Valid(i) => KeyOf(i) > m
  /\ Contents = b => OnLeast(i, {k \in Contents : Wanted(i, m, k)})

LEMMA RestedAnswers ==
  ASSUME NEW i, NEW b, NEW m, Rested(i, b, m), i.pc = "idle",
         i.op \in {"next", "seek", "seekToFirst"}
  PROVE  AnswerSound(i, b, m) /\ (Contents = b => QuietAnswer(i, m))
<1>1. AnswerSound(i, b, m)
  BY DEF Rested, AnswerSound
<1>2. /\ i.op = "next" => {k \in Contents : Wanted(i, m, k)} = {k \in Contents : k > m}
      /\ i.op = "seek" => {k \in Contents : Wanted(i, m, k)} = Past(i)
      /\ i.op = "seekToFirst" => {k \in Contents : Wanted(i, m, k)} = Contents
  BY DEF Wanted, Past
<1> QED
  BY <1>1, <1>2 DEF Rested, QuietAnswer

\* Snapshots are judged by what is in hand.
LEMMA SameHandSound ==
  ASSUME NEW i, NEW j, SameHand(i, j)
  PROVE  /\ SnapSound(j) <=> SnapSound(i)
         /\ Shown(j) = Shown(i)
         /\ \A ks, s : Covers(j, ks, s) <=> Covers(i, ks, s)
         /\ WasOf(j.d, j.node) <=> WasOf(i.d, i.node)
BY DEF SameHand, SnapSound, Shown, Covers

\* Nothing wanted is left in the node when its snapshot is exhausted.
LEMMA NodePassed ==
  ASSUME IndexSound, NEW i, NEW s, NEW b, NEW m, Poised(i, s, b, m), i.pos > Len(i.snap),
         NEW k \in b, Wanted(i, m, k)
  PROVE  k \in Nat /\ next[i.d] # Null /\ Start(next[i.d]) <= k
<1>1. /\ i \in ReaderState /\ WasOf(i.d, i.node) /\ SnapSound(i) /\ Covers(i, Shown(i), s)
      /\ s \subseteq Contents /\ k \in s /\ i.pos \in 1..(Len(i.snap) + 1)
      /\ ~Before(k, i.node) /\ \A a \in 1..(i.pos - 1) : KeyAt(i.d, i.snap, a) < k
  BY DEF Poised
<1>2. /\ Len(i.snap) \in Nat /\ DOMAIN i.snap = 1..Len(i.snap)
      /\ \A a \in 1..Len(i.snap) : KeyAt(i.d, i.snap, a) \in Nat
  BY <1>1, ShownFacts
<1>3. k \in Nat /\ \/ i.node # HeadNode /\ k < Start(i.node)
                   \/ \E a \in DOMAIN i.snap : k = KeyAt(i.d, i.snap, a)
                   \/ next[i.d] # Null /\ Start(next[i.d]) <= k
  BY <1>1, Whereabouts
<1>4. i.pos - 1 = Len(i.snap)
  BY <1>1, <1>2
<1>5. ASSUME NEW a \in 1..Len(i.snap) PROVE k # KeyAt(i.d, i.snap, a)
  BY <1>1, <1>2, <1>3, <1>4
<1> QED
  BY <1>1, <1>2, <1>3, <1>5 DEF Before

\* skip_forward at a position the snapshot has.
LEMMA StaysThere ==
  ASSUME IndexSound, NEW i, NEW s, NEW b, NEW m, Poised(i, s, b, m), i.pos <= Len(i.snap),
         NEW j, j = SkipForward(i)
  PROVE  /\ j \in ReaderState /\ SameHand(i, j) /\ SameCallOf(i, j) /\ j.found = i.found
         /\ j.pc = "idle" /\ j.pos = i.pos /\ j.aim = i.aim /\ j.rule = i.rule
         /\ Valid(j) /\ KeyOf(j) = KeyOf(i) /\ KeyOf(j) \in Contents /\ KeyOf(j) \in Key
         /\ HandSound(j, s, b) /\ Rested(j, b, m)
<1>1. /\ i \in ReaderState /\ i.d # Null /\ WasOf(i.d, i.node)
      /\ SnapSound(i) /\ Covers(i, Shown(i), s) /\ s \subseteq Contents /\ b \subseteq s
      /\ i.pos \in 1..(Len(i.snap) + 1)
  BY DEF Poised
<1>2. /\ Len(i.snap) \in Nat /\ DOMAIN i.snap = 1..Len(i.snap)
      /\ \A a \in 1..Len(i.snap) :
           /\ KeyAt(i.d, i.snap, a) \in Contents
           /\ KeyAt(i.d, i.snap, a) \in Key /\ KeyAt(i.d, i.snap, a) \in Nat
           /\ next[i.d] # Null => KeyAt(i.d, i.snap, a) < Start(next[i.d])
      /\ next[i.d] # Null => Start(next[i.d]) \in Nat
      /\ \A a, c \in 1..Len(i.snap) : a < c => KeyAt(i.d, i.snap, a) < KeyAt(i.d, i.snap, c)
  BY <1>1, ShownFacts
<1>3. j = [i EXCEPT !.pc = "idle"]
  BY DEF SkipForward
<1>4. /\ j \in ReaderState /\ SameHand(i, j) /\ SameCallOf(i, j) /\ j.found = i.found
      /\ j.pc = "idle" /\ j.pos = i.pos /\ j.aim = i.aim /\ j.rule = i.rule
  BY <1>1, <1>3 DEF ReaderState, SameHand, SameCallOf
<1>5. i.pos \in 1..Len(i.snap) /\ i.pos \in DOMAIN i.snap
  BY <1>1, <1>2
<1>6. Valid(j) /\ KeyOf(j) = KeyOf(i) /\ KeyOf(j) = KeyAt(i.d, i.snap, i.pos)
  BY <1>1, <1>4, <1>5 DEF Valid, KeyOf, SameHand
<1>7. HandSound(j, s, b)
  BY <1>1, <1>4, <1>5, SameHandSound DEF SameHand, HandSound
<1>8. ASSUME NEW k \in b, Wanted(i, m, k) PROVE KeyOf(j) <= k
  <2>1. ~Before(k, i.node) /\ \A a \in 1..(i.pos - 1) : KeyAt(i.d, i.snap, a) < k
    BY <1>8 DEF Poised
  <2>2. k \in Nat /\ \/ i.node # HeadNode /\ k < Start(i.node)
                     \/ \E a \in DOMAIN i.snap : k = KeyAt(i.d, i.snap, a)
                     \/ next[i.d] # Null /\ Start(next[i.d]) <= k
    BY <1>1, Whereabouts
  <2>3. CASE \E a \in DOMAIN i.snap : k = KeyAt(i.d, i.snap, a)
    <3>1. PICK a \in 1..Len(i.snap) : k = KeyAt(i.d, i.snap, a)
      BY <1>2, <2>3
    <3>2. ~(a \in 1..(i.pos - 1))
      BY <1>2, <2>1, <3>1
    <3>3. a = i.pos \/ i.pos < a
      BY <1>2, <1>5, <3>2
    <3> QED
      BY <1>2, <1>5, <1>6, <3>1, <3>3
  <2>4. CASE next[i.d] # Null /\ Start(next[i.d]) <= k
    BY <1>2, <1>5, <1>6, <2>2, <2>4
  <2> QED
    BY <2>1, <2>2, <2>3, <2>4 DEF Before
<1>9. \A k : Wanted(j, m, k) <=> Wanted(i, m, k)
  BY <1>4 DEF Wanted, SameCallOf
<1>10. Contents = b => OnLeast(j, {k \in Contents : Wanted(j, m, k)})
  <2>1. Contents = b => Wanted(i, m, KeyOf(i))
    BY DEF Poised
  <2> QED
    BY <1>2, <1>5, <1>6, <1>8, <1>9, <2>1 DEF OnLeast
<1>11. Rested(j, b, m)
  <2>1. i.op = "next" => KeyOf(i) > m
    BY DEF Poised
  <2> QED
    BY <1>4, <1>6, <1>8, <1>9, <1>10, <2>1 DEF Rested, SameCallOf
<1> QED
  BY <1>2, <1>4, <1>5, <1>6, <1>7, <1>11
\* skip_forward at the end of the list.
LEMMA EndsThere ==
  ASSUME IndexSound, NEW i, NEW s, NEW b, NEW m, Poised(i, s, b, m),
         i.pos > Len(i.snap), next[i.d] = Null, NEW j, j = SkipForward(i)
  PROVE  /\ j \in ReaderState /\ SameCallOf(i, j) /\ j.found = i.found
         /\ j.pc = "idle" /\ j.d = Null /\ j.aim = i.aim /\ j.rule = i.rule
         /\ ~Valid(j) /\ Rested(j, b, m)
         /\ \A k \in b : ~Wanted(i, m, k)
<1>1. i \in ReaderState /\ i.pos \in Nat /\ Len(i.snap) \in Nat /\ i.found \in BOOLEAN
  BY DEF Poised, ReaderState
<1>2. j = Ended(i)
  BY <1>1 DEF SkipForward
<1>3. /\ j \in ReaderState /\ SameCallOf(i, j) /\ j.found = i.found
      /\ j.pc = "idle" /\ j.d = Null /\ j.aim = i.aim /\ j.rule = i.rule
  BY <1>1, <1>2, EndedIs
<1>4. ~Valid(j)
  BY <1>3 DEF Valid
<1>5. \A k \in b : ~Wanted(i, m, k)
  BY NodePassed
<1>6. \A k : Wanted(j, m, k) <=> Wanted(i, m, k)
  BY <1>3 DEF Wanted, SameCallOf
<1> QED
  BY <1>3, <1>4, <1>5, <1>6 DEF Rested, OnLeast

\* skip_forward to the next node.
LEMMA GoesOn ==
  ASSUME IndexSound, NEW i, NEW s, NEW b, NEW m, Poised(i, s, b, m),
         i.pos > Len(i.snap), next[i.d] # Null, NEW j, j = SkipForward(i)
  PROVE  j.pc = "load" /\ ReaderSound(j, s, b, m)
<1>1. /\ i \in ReaderState /\ i.pos \in Nat /\ Len(i.snap) \in Nat
      /\ next[i.d] \in Linked /\ next[i.d] \in Nat /\ next[i.d] # HeadNode
  BY DEF Poised, ReaderState, WasOf, Linked, Node
<1>2. PICK x : x = next[i.d]
  OBVIOUS
<1>3. j = Adopting(i, x, "front")
  BY <1>1, <1>2 DEF SkipForward
<1>4. /\ j \in ReaderState /\ SameHand(i, j) /\ SameCallOf(i, j) /\ j.found = i.found
      /\ j.pc = "load" /\ j.rule = i.rule /\ j.aim = "front" /\ j.cur = x
  <2>1. i \in ReaderState /\ x \in Nat /\ "front" \in Aims /\ j = Adopting(i, x, "front")
    BY <1>1, <1>2, <1>3 DEF Aims
  <2> QED
    BY <2>1, AdoptingIs
<1>5. /\ s \subseteq Contents /\ b \subseteq Contents /\ (i.found => i.target \in Contents)
      /\ WasOf(i.d, i.node) /\ SnapSound(i) /\ Covers(i, Shown(i), s)
      /\ i.op \in Upward \union {"seekForPrev"} /\ (i.op \in Targeted => i.target \in Key)
  BY DEF Poised
<1>6. UseSound(j)
  BY <1>1, <1>2, <1>4, <1>5 DEF UseSound, SameCallOf, Upward
<1>7. HandSound(j, s, b)
  BY <1>4, <1>5, SameHandSound DEF HandSound
<1>8. PlaceSound(j, m) /\ AnswerSound(j, b, m) /\ QuietAnswer(j, m)
  BY <1>4 DEF PlaceSound, AnswerSound, QuietAnswer
<1>9. ASSUME NEW k \in b, Wanted(i, m, k) PROVE ~Before(k, x)
  <2>1. k \in Nat /\ Start(x) <= k
    BY <1>1, <1>2, <1>9, NodePassed
  <2>2. Start(x) \in Nat
    BY <1>1, <1>2, <1>5, ShownFacts
  <2> QED
    BY <2>1, <2>2 DEF Before
<1>10. /\ i.op = "next" => Before(m, x)
       /\ Contents = b /\ i.op \in {"seek", "seekForPrev"} => Before(i.target, x)
  BY <1>1, <1>2 DEF Poised
<1>11. UpSound(j, b, m)
  BY <1>4, <1>9, <1>10 DEF UpSound, Wanted, SameCallOf
<1>12. Contents = b => QuietSound(j, m)
  BY <1>4, <1>10 DEF QuietSound, SameCallOf
<1> QED
  BY <1>4, <1>5, <1>6, <1>7, <1>8, <1>11, <1>12 DEF ReaderSound, SameCallOf

\* What a call at rest has besides its answer.
LEMMA AtRest ==
  ASSUME NEW j, NEW s, NEW b, NEW m, j \in ReaderState, j.pc = "idle",
         s \subseteq Contents, b \subseteq Contents, j.found => j.target \in Contents,
         j.op \in Targeted => j.target \in Key,
         j.d # Null => HandSound(j, s, b),
         AnswerSound(j, b, m), Contents = b => QuietAnswer(j, m)
  PROVE  ReaderSound(j, s, b, m)
<1>1. UseSound(j) /\ PlaceSound(j, m) /\ UpSound(j, b, m) /\ QuietSound(j, m)
  BY DEF UseSound, PlaceSound, UpSound, QuietSound
<1>2. HandSound(j, s, b)
  BY DEF HandSound
<1> QED
  BY <1>1, <1>2 DEF ReaderSound

\* skip_forward, in every call but seek_for_prev.
LEMMA ForwardLands ==
  ASSUME IndexSound, NEW i, NEW s, NEW b, NEW m, Poised(i, s, b, m),
         i.op # "seekForPrev", NEW j, j = SkipForward(i)
  PROVE  ReaderSound(j, s, b, m)
<1>1. /\ s \subseteq Contents /\ b \subseteq Contents /\ (i.found => i.target \in Contents)
      /\ i.op \in {"next", "seek", "seekToFirst"} /\ (i.op \in Targeted => i.target \in Key)
  BY DEF Poised, Upward
<1>2. i.pos \in Nat /\ Len(i.snap) \in Nat
  BY DEF Poised, ReaderState
<1>3. CASE i.pos <= Len(i.snap)
  <2>1. /\ j \in ReaderState /\ SameCallOf(i, j) /\ j.found = i.found
        /\ j.pc = "idle" /\ HandSound(j, s, b) /\ Rested(j, b, m)
    BY <1>3, StaysThere
  <2>2. j.op = i.op /\ j.target = i.target
    BY <2>1 DEF SameCallOf
  <2>3. AnswerSound(j, b, m) /\ (Contents = b => QuietAnswer(j, m))
    BY <1>1, <2>1, <2>2, RestedAnswers
  <2> QED
    BY <1>1, <2>1, <2>2, <2>3, AtRest
<1>4. CASE i.pos > Len(i.snap) /\ next[i.d] = Null
  <2>1. /\ j \in ReaderState /\ SameCallOf(i, j) /\ j.found = i.found
        /\ j.pc = "idle" /\ j.d = Null /\ Rested(j, b, m)
    BY <1>4, EndsThere
  <2>2. j.op = i.op /\ j.target = i.target
    BY <2>1 DEF SameCallOf
  <2>3. AnswerSound(j, b, m) /\ (Contents = b => QuietAnswer(j, m))
    BY <1>1, <2>1, <2>2, RestedAnswers
  <2> QED
    BY <1>1, <2>1, <2>2, <2>3, AtRest
<1>5. CASE i.pos > Len(i.snap) /\ next[i.d] # Null
  BY <1>5, GoesOn
<1> QED
  BY <1>2, <1>3, <1>4, <1>5

-----------------------------------------------------------------------------
(* Moving back.                                                            *)

\* Iterator i is on a key and about to step back from it.
Perched(i, s, b, m) ==
  /\ i \in ReaderState /\ i.d # Null /\ WasOf(i.d, i.node)
  /\ SnapSound(i) /\ Covers(i, Shown(i), s)
  /\ s \subseteq Contents /\ b \subseteq s
  /\ i.found => i.target \in Contents
  /\ i.pos \in 1..Len(i.snap)
  /\ \/ i.op = "prev" /\ m = KeyOf(i)
     \/ /\ i.op = "seekForPrev" /\ i.target \in Key /\ KeyOf(i) > i.target
        /\ Contents = b => \A k \in b : i.target <= k => KeyOf(i) <= k

\* The keys that came before the one stepped back from.
Earlier(i, m, k) == IF i.op = "prev" THEN k < m ELSE k <= i.target

\* All of them are before the iterator's position.
LEMMA EarlierIsBefore ==
  ASSUME IndexSound, NEW i, NEW s, NEW b, NEW m, Perched(i, s, b, m),
         NEW k \in b, Earlier(i, m, k)
  PROVE  /\ k \in Nat
         /\ \/ i.node # HeadNode /\ k < Start(i.node)
            \/ \E a \in 1..(i.pos - 1) : k = KeyAt(i.d, i.snap, a)
<1>1. /\ i \in ReaderState /\ WasOf(i.d, i.node) /\ SnapSound(i) /\ Covers(i, Shown(i), s)
      /\ s \subseteq Contents /\ k \in s /\ i.pos \in 1..Len(i.snap)
  BY DEF Perched
<1>2. /\ Len(i.snap) \in Nat /\ DOMAIN i.snap = 1..Len(i.snap)
      /\ \A a \in 1..Len(i.snap) :
           /\ KeyAt(i.d, i.snap, a) \in Nat
           /\ next[i.d] # Null => KeyAt(i.d, i.snap, a) < Start(next[i.d])
      /\ next[i.d] # Null => Start(next[i.d]) \in Nat
      /\ \A a, c \in 1..Len(i.snap) : a < c => KeyAt(i.d, i.snap, a) < KeyAt(i.d, i.snap, c)
  BY <1>1, ShownFacts
<1>3. k \in Nat /\ \/ i.node # HeadNode /\ k < Start(i.node)
                   \/ \E a \in DOMAIN i.snap : k = KeyAt(i.d, i.snap, a)
                   \/ next[i.d] # Null /\ Start(next[i.d]) <= k
  BY <1>1, Whereabouts
<1>4. k < KeyAt(i.d, i.snap, i.pos)
  <2>1. KeyOf(i) = KeyAt(i.d, i.snap, i.pos) /\ KeyOf(i) \in Nat
    BY <1>1, <1>2 DEF KeyOf
  <2>2. CASE i.op = "prev"
    BY <1>3, <2>1, <2>2 DEF Perched, Earlier
  <2>3. CASE i.op # "prev"
    <3>1. k <= i.target /\ KeyOf(i) > i.target /\ i.target \in Nat
      BY <2>3, SizeFacts DEF Perched, Earlier
    <3> QED
      BY <1>3, <2>1, <3>1
  <2> QED
    BY <2>2, <2>3
<1>5. ~(next[i.d] # Null /\ Start(next[i.d]) <= k)
  BY <1>1, <1>2, <1>3, <1>4
<1>6. ASSUME NEW a \in 1..Len(i.snap), k = KeyAt(i.d, i.snap, a) PROVE a \in 1..(i.pos - 1)
  <2>1. ~(a = i.pos \/ i.pos < a)
    BY <1>1, <1>2, <1>3, <1>4, <1>6
  <2> QED
    BY <1>1, <1>2, <2>1
<1> QED
  BY <1>2, <1>3, <1>5, <1>6

\* prev within the node.
LEMMA StepsBack ==
  ASSUME IndexSound, NEW i, NEW s, NEW b, NEW m, Perched(i, s, b, m),
         i.pos > 1, NEW j, j = Prev(i)
  PROVE  ReaderSound(j, s, b, m)
<1>1. /\ i \in ReaderState /\ i.d # Null /\ WasOf(i.d, i.node)
      /\ SnapSound(i) /\ Covers(i, Shown(i), s) /\ s \subseteq Contents /\ b \subseteq s
      /\ i.pos \in 1..Len(i.snap) /\ (i.found => i.target \in Contents)
      /\ i.op \in {"prev", "seekForPrev"} /\ (i.op \in Targeted => i.target \in Key)
  BY DEF Perched, Targeted
<1>2. /\ Len(i.snap) \in Nat /\ DOMAIN i.snap = 1..Len(i.snap)
      /\ \A a \in 1..Len(i.snap) :
           /\ KeyAt(i.d, i.snap, a) \in Contents /\ KeyAt(i.d, i.snap, a) \in Nat
           /\ i.node # HeadNode => Start(i.node) <= KeyAt(i.d, i.snap, a)
      /\ i.node # HeadNode => Start(i.node) \in Nat
      /\ \A a, c \in 1..Len(i.snap) : a < c => KeyAt(i.d, i.snap, a) < KeyAt(i.d, i.snap, c)
  BY <1>1, ShownFacts
<1>3. PICK p : p = i.pos - 1
  OBVIOUS
<1>4. p \in 1..Len(i.snap) /\ p \in Nat /\ p \in DOMAIN i.snap /\ p < i.pos /\ i.pos \in Nat
  BY <1>1, <1>2, <1>3
<1>5. /\ j \in ReaderState /\ SameHand(i, j) /\ SameCallOf(i, j) /\ j.found = i.found
      /\ j.pc = "idle" /\ j.pos = p /\ j.aim = i.aim /\ j.rule = i.rule
  <2>1. i \in ReaderState /\ p \in Nat /\ j = Resting(i, p)
    BY <1>1, <1>3, <1>4 DEF Prev, Resting
  <2> QED
    BY <2>1, PosIs
<1>6. /\ Valid(j) /\ KeyOf(j) = KeyAt(i.d, i.snap, p) /\ KeyOf(i) = KeyAt(i.d, i.snap, i.pos)
      /\ KeyOf(j) < KeyOf(i) /\ KeyOf(j) \in Nat /\ KeyOf(i) \in Nat /\ KeyOf(j) \in Contents
  BY <1>1, <1>2, <1>4, <1>5 DEF Valid, KeyOf, SameHand
<1>7. HandSound(j, s, b)
  BY <1>1, <1>4, <1>5, SameHandSound DEF SameHand, HandSound
<1>8. ASSUME NEW k \in b, Earlier(i, m, k) PROVE k <= KeyOf(j)
  <2>1. k \in Nat /\ \/ i.node # HeadNode /\ k < Start(i.node)
                     \/ \E a \in 1..(i.pos - 1) : k = KeyAt(i.d, i.snap, a)
    BY <1>8, EarlierIsBefore
  <2>2. CASE i.node # HeadNode /\ k < Start(i.node)
    BY <1>2, <1>4, <1>6, <2>1, <2>2
  <2>3. CASE \E a \in 1..(i.pos - 1) : k = KeyAt(i.d, i.snap, a)
    <3>1. PICK a \in 1..p : k = KeyAt(i.d, i.snap, a)
      BY <1>3, <2>3
    <3>2. a \in 1..Len(i.snap) /\ (a = p \/ a < p)
      BY <1>2, <1>4
    <3> QED
      BY <1>2, <1>4, <1>6, <3>1, <3>2
  <2> QED
    BY <2>1, <2>2, <2>3
<1>9. CASE i.op = "prev"
  <2>1. m = KeyOf(i) /\ j.op = "prev"
    BY <1>5, <1>9 DEF Perched, SameCallOf
  <2>2. AnswerSound(j, b, m)
    BY <1>6, <2>1 DEF AnswerSound
  <2>3. Contents = b => OnGreatest(j, {k \in Contents : k < m})
    BY <1>6, <1>8, <1>9, <2>1 DEF OnGreatest, Earlier
  <2>4. Contents = b => QuietAnswer(j, m)
    BY <2>1, <2>3 DEF QuietAnswer
  <2> QED
    BY <1>1, <1>5, <1>7, <2>1, <2>2, <2>4, AtRest DEF SameCallOf
<1>10. CASE i.op = "seekForPrev"
  <2>1. /\ j.op = "seekForPrev" /\ j.target = i.target /\ i.target \in Nat
        /\ KeyOf(i) > i.target /\ (Contents = b => \A k \in b : i.target <= k => KeyOf(i) <= k)
    BY <1>5, <1>10, SizeFacts DEF Perched, SameCallOf
  <2>2. AnswerSound(j, b, m)
    BY <2>1 DEF AnswerSound
  <2>3. Contents = b => KeyOf(j) <= i.target
    BY <1>6, <2>1
  <2>4. Contents = b => OnGreatest(j, {k \in Contents : k <= i.target})
    BY <1>6, <1>8, <1>10, <2>3 DEF OnGreatest, Earlier
  <2>5. Contents = b => QuietAnswer(j, m)
    BY <2>1, <2>4 DEF QuietAnswer
  <2> QED
    BY <1>1, <1>5, <1>7, <2>1, <2>2, <2>5, AtRest DEF SameCallOf
<1> QED
  BY <1>1, <1>9, <1>10

\* prev off the front of the list.
LEMMA FallsOff ==
  ASSUME IndexSound, NEW i, NEW s, NEW b, NEW m, Perched(i, s, b, m),
         i.pos <= 1, i.node = HeadNode, NEW j, j = Prev(i)
  PROVE  ReaderSound(j, s, b, m)
<1>1. /\ i \in ReaderState /\ s \subseteq Contents /\ b \subseteq Contents
      /\ i.pos \in 1..Len(i.snap) /\ (i.found => i.target \in Contents)
      /\ i.op \in {"prev", "seekForPrev"} /\ (i.op \in Targeted => i.target \in Key)
      /\ i.found \in BOOLEAN /\ i.pos \in Nat /\ WasOf(i.d, i.node) /\ SnapSound(i)
  BY DEF Perched, Targeted, ReaderState
<1>2. ASSUME NEW k \in b PROVE k \in Nat /\ ~Earlier(i, m, k)
  <2>1. ~Earlier(i, m, k)
    BY <1>1, <1>2, EarlierIsBefore
  <2>2. s \subseteq Contents /\ Covers(i, Shown(i), s) /\ k \in s
    BY DEF Perched
  <2> QED
    BY <2>1, <2>2, Whereabouts
<1>3. j = Ended(i)
  BY <1>1 DEF Prev, SkipBackward
<1>4. /\ j \in ReaderState /\ SameCallOf(i, j) /\ j.found = i.found
      /\ j.pc = "idle" /\ j.d = Null
  BY <1>1, <1>3, EndedIs
<1>5. ~Valid(j) /\ j.op = i.op /\ j.target = i.target
  BY <1>4 DEF Valid, SameCallOf
<1>6. i.op = "prev" => m \in Nat
  BY <1>1, ShownFacts DEF Perched, KeyOf
<1>7. AnswerSound(j, b, m)
  BY <1>1, <1>2, <1>5, <1>6 DEF AnswerSound, Earlier
<1>8. Contents = b => QuietAnswer(j, m)
  BY <1>1, <1>2, <1>5 DEF QuietAnswer, OnGreatest, Earlier
<1> QED
  BY <1>1, <1>4, <1>5, <1>7, <1>8, AtRest

\* prev to the node before.
LEMMA TurnsBack ==
  ASSUME IndexSound, NEW i, NEW s, NEW b, NEW m, Perched(i, s, b, m),
         i.pos <= 1, i.node # HeadNode, NEW j, j = Prev(i)
  PROVE  ReaderSound(j, s, b, m)
<1>1. /\ i \in ReaderState /\ i.d # Null /\ WasOf(i.d, i.node)
      /\ SnapSound(i) /\ Covers(i, Shown(i), s) /\ s \subseteq Contents /\ b \subseteq Contents
      /\ i.pos \in 1..Len(i.snap) /\ (i.found => i.target \in Contents)
      /\ i.op \in {"prev", "seekForPrev"} /\ (i.op \in Targeted => i.target \in Key)
  BY DEF Perched, Targeted
<1>2. /\ Len(i.snap) \in Nat /\ Len(i.snap) # 0 /\ i.snap # <<>> /\ i.pos = 1
      /\ Start(i.node) \in Nat /\ KeyOf(i) = Start(i.node)
  BY <1>1, ShownFacts DEF KeyOf
<1>3. j = Walking(i, "below", "back")
  BY <1>2 DEF Prev, SkipBackward
<1>4. /\ j \in ReaderState /\ SameHand(i, j) /\ SameCallOf(i, j) /\ j.found = i.found
      /\ j.pc = "walk" /\ j.rule = "below" /\ j.aim = "back"
      /\ j.cur = HeadNode /\ j.lv = MaxHeight - 1
  <2>1. "below" \in Rules /\ "back" \in Aims
    BY DEF Rules, Aims
  <2> QED
    BY <1>1, <1>3, <2>1, WalkingIs
<1>5. HeadNode \in Linked /\ MaxHeight - 1 \in 0..(MaxHeight - 1)
  BY HeadLinked, SizeFacts
<1>6. UseSound(j)
  BY <1>1, <1>4, <1>5 DEF UseSound, SameCallOf
<1>7. HandSound(j, s, b)
  BY <1>1, <1>4, SameHandSound DEF HandSound, SameHand
<1>8. i.op = "prev" => m = Start(i.node)
  BY <1>2 DEF Perched
<1>9. PlaceSound(j, m)
  BY <1>1, <1>4, <1>8 DEF PlaceSound, SameHand, SameCallOf, Behind
<1>10. UpSound(j, b, m) /\ AnswerSound(j, b, m) /\ QuietAnswer(j, m)
  BY <1>4 DEF UpSound, AnswerSound, QuietAnswer
<1>11. ASSUME Contents = b, i.op = "seekForPrev"
       PROVE  Before(i.target, i.node) /\ \A k \in Past(i) : ~Before(k, i.node)
  <2>1. i.target \in Nat /\ KeyOf(i) > i.target /\ \A k \in b : i.target <= k => KeyOf(i) <= k
    BY <1>11, SizeFacts DEF Perched
  <2>2. ASSUME NEW k \in Past(i) PROVE ~Before(k, i.node)
    <3>1. k \in b /\ i.target <= k /\ k \in Nat
      <4>1. k \in Contents /\ k >= i.target
        BY DEF Past
      <4>2. k \in s /\ Covers(i, Shown(i), s) /\ s \subseteq Contents
        BY <1>11, <4>1 DEF Perched
      <4> QED
        BY <1>11, <2>1, <4>1, <4>2, Whereabouts
    <3> QED
      BY <1>2, <2>1, <3>1 DEF Before
  <2> QED
    BY <1>2, <2>1, <2>2 DEF Before
<1>12. Contents = b => QuietSound(j, m)
  BY <1>1, <1>4, <1>11 DEF QuietSound, SameHand, SameCallOf, Past
<1> QED
  BY <1>1, <1>4, <1>6, <1>7, <1>9, <1>10, <1>12 DEF ReaderSound, SameCallOf

LEMMA PrevLands ==
  ASSUME IndexSound, NEW i, NEW s, NEW b, NEW m, Perched(i, s, b, m), NEW j, j = Prev(i)
  PROVE  ReaderSound(j, s, b, m)
<1>1. i.pos \in Nat
  BY DEF Perched, ReaderState
<1> QED
  BY <1>1, StepsBack, FallsOff, TurnsBack
-----------------------------------------------------------------------------
(* seek_for_prev, once its seek has come to rest.                          *)

LEMMA TurnsAtKey ==
  ASSUME IndexSound, NEW i, NEW s, NEW b, NEW m, Poised(i, s, b, m), i.op = "seekForPrev",
         i.pos <= Len(i.snap), NEW j, j = SkipForward(i), NEW g, g = AfterSeek(j)
  PROVE  ReaderSound(g, s, b, m)
<1>1. /\ s \subseteq Contents /\ b \subseteq Contents /\ b \subseteq s
      /\ (i.found => i.target \in Contents) /\ i.target \in Key /\ i.target \in Nat
      /\ WasOf(i.d, i.node) /\ SnapSound(i) /\ Covers(i, Shown(i), s)
  BY SizeFacts DEF Poised, Targeted
<1>2. /\ j \in ReaderState /\ SameHand(i, j) /\ SameCallOf(i, j) /\ j.found = i.found
      /\ j.pc = "idle" /\ Valid(j) /\ KeyOf(j) \in Contents /\ KeyOf(j) \in Key
      /\ HandSound(j, s, b) /\ Rested(j, b, m)
  BY StaysThere
<1>3. j.op = "seekForPrev" /\ j.target = i.target
  BY <1>2 DEF SameCallOf
<1>4. KeyOf(j) \in Nat
  BY <1>2, SizeFacts
<1>5. Contents = b =>
        /\ i.target <= KeyOf(j)
        /\ \A k \in b : i.target <= k => KeyOf(j) <= k
  BY <1>2, <1>3 DEF Rested, OnLeast, Wanted
<1>6. CASE KeyOf(j) > j.target
  <2>1. g = Prev(j)
    BY <1>2, <1>3, <1>6 DEF AfterSeek
  <2>2. j.d # Null /\ j.pos \in 1..Len(j.snap)
    BY <1>2 DEF Valid, ReaderState
  <2>3. WasOf(j.d, j.node) /\ SnapSound(j) /\ Covers(j, Shown(j), s)
    BY <1>1, <1>2, SameHandSound
  <2>4. Perched(j, s, b, m)
    BY <1>1, <1>2, <1>3, <1>5, <1>6, <2>2, <2>3 DEF Perched
  <2> QED
    BY <2>1, <2>4, PrevLands
<1>7. CASE ~(KeyOf(j) > j.target)
  <2>1. g = j
    BY <1>2, <1>3, <1>7 DEF AfterSeek
  <2>2. KeyOf(j) <= j.target
    BY <1>1, <1>3, <1>4, <1>7
  <2>3. AnswerSound(j, b, m)
    BY <1>3 DEF AnswerSound
  <2>4. Contents = b => KeyOf(j) = j.target
    BY <1>1, <1>3, <1>4, <1>5, <2>2
  <2>5. Contents = b => OnGreatest(j, {k \in Contents : k <= j.target})
    BY <1>2, <1>4, <2>2, <2>4 DEF OnGreatest
  <2>6. Contents = b => QuietAnswer(j, m)
    BY <1>3, <2>5 DEF QuietAnswer
  <2>7. j \in ReaderState /\ j.pc = "idle" /\ (j.found => j.target \in Contents)
        /\ (j.op \in Targeted => j.target \in Key) /\ (j.d # Null => HandSound(j, s, b))
    BY <1>1, <1>2, <1>3
  <2> QED
    BY <1>1, <2>1, <2>3, <2>6, <2>7, AtRest
<1> QED
  BY <1>6, <1>7

LEMMA TurnsAtEnd ==
  ASSUME IndexSound, NEW i, NEW s, NEW b, NEW m, Poised(i, s, b, m), i.op = "seekForPrev",
         i.pos > Len(i.snap), next[i.d] = Null, NEW j, j = SkipForward(i), NEW g, g = AfterSeek(j)
  PROVE  ReaderSound(g, s, b, m)
<1>1. /\ s \subseteq Contents /\ b \subseteq Contents
      /\ (i.found => i.target \in Contents) /\ i.target \in Key
  BY DEF Poised, Targeted
<1>2. /\ j \in ReaderState /\ SameCallOf(i, j) /\ j.found = i.found
      /\ j.pc = "idle" /\ j.d = Null /\ ~Valid(j) /\ \A k \in b : ~Wanted(i, m, k)
  BY EndsThere
<1>3. j.op = "seekForPrev" /\ j.target = i.target
  BY <1>2 DEF SameCallOf
<1>4. g = Walking(j, "any", "back") /\ "any" \in Rules /\ "back" \in Aims
  BY <1>2, <1>3 DEF AfterSeek, Rules, Aims
<1>5. /\ g \in ReaderState /\ SameHand(j, g) /\ SameCallOf(j, g) /\ g.found = j.found
      /\ g.pc = "walk" /\ g.rule = "any" /\ g.aim = "back"
      /\ g.cur = HeadNode /\ g.lv = MaxHeight - 1
  BY <1>2, <1>4, WalkingIs
<1>6. g.op = "seekForPrev" /\ g.target = i.target /\ g.d = Null
  BY <1>2, <1>3, <1>5 DEF SameCallOf, SameHand
<1>7. HeadNode \in Linked /\ MaxHeight - 1 \in 0..(MaxHeight - 1)
  BY HeadLinked, SizeFacts
<1>8. UseSound(g)
  BY <1>1, <1>5, <1>6, <1>7 DEF UseSound
<1>9. HandSound(g, s, b) /\ PlaceSound(g, m) /\ UpSound(g, b, m)
      /\ AnswerSound(g, b, m) /\ QuietAnswer(g, m)
  BY <1>5, <1>6 DEF HandSound, PlaceSound, UpSound, AnswerSound, QuietAnswer
<1>10. Contents = b => QuietSound(g, m)
  BY <1>2, <1>5, <1>6 DEF QuietSound, Past, Wanted
<1> QED
  BY <1>1, <1>2, <1>5, <1>6, <1>8, <1>9, <1>10 DEF ReaderSound

LEMMA SeekLands ==
  ASSUME IndexSound, NEW i, NEW s, NEW b, NEW m, Poised(i, s, b, m), i.op = "seekForPrev",
         NEW j, j = SkipForward(i), NEW g, g = AfterSeek(j)
  PROVE  ReaderSound(g, s, b, m)
<1>1. i.pos \in Nat /\ Len(i.snap) \in Nat
  BY DEF Poised, ReaderState
<1>2. CASE i.pos > Len(i.snap) /\ next[i.d] # Null
  <2>1. j.pc = "load" /\ ReaderSound(j, s, b, m)
    BY <1>2, GoesOn
  <2>2. g = j
    BY <2>1 DEF AfterSeek
  <2> QED
    BY <2>1, <2>2
<1> QED
  BY <1>1, <1>2, TurnsAtKey, TurnsAtEnd

\* skip_forward and what follows it, in every call.
LEMMA Lands ==
  ASSUME IndexSound, NEW i, NEW s, NEW b, NEW m, Poised(i, s, b, m),
         NEW g, g = AfterSeek(SkipForward(i))
  PROVE  ReaderSound(g, s, b, m)
<1>1. PICK j : j = SkipForward(i)
  OBVIOUS
<1>2. g = AfterSeek(j)
  BY <1>1
<1>3. CASE i.op = "seekForPrev"
  BY <1>1, <1>2, <1>3, SeekLands
<1>4. CASE i.op # "seekForPrev"
  <2>1. j.op = i.op
    BY <1>1 DEF SkipForward, Ended, Adopting, Poised, ReaderState
  <2>2. g = j
    BY <1>2, <1>4, <2>1 DEF AfterSeek
  <2> QED
    BY <1>1, <1>4, <2>2, ForwardLands
<1> QED
  BY <1>3, <1>4


-----------------------------------------------------------------------------
(* Calls.                                                                  *)

LEMMA LookupStarts ==
  ASSUME IndexSound, NEW c \in Targeted, NEW k \in Key,
         NEW s, s \subseteq Contents, NEW m,
         NEW j, j = Walking(Asking(c, k), "atOrBelow", "find")
  PROVE  ReaderSound(j, s, Contents, m)
<1>1. PICK i : i = Asking(c, k)
  OBVIOUS
<1>2. i \in ReaderState /\ i.op = c /\ i.target = k /\ i.d = Null /\ ~i.found
  <2>1. c \in Ops /\ k \in Key /\ i = Asking(c, k)
    BY <1>1 DEF Ops, Targeted
  <2> QED
    BY <2>1, AskingIs
<1>3. /\ j \in ReaderState /\ SameHand(i, j) /\ SameCallOf(i, j) /\ j.found = i.found
      /\ j.pc = "walk" /\ j.rule = "atOrBelow" /\ j.aim = "find"
      /\ j.cur = HeadNode /\ j.lv = MaxHeight - 1
  <2>1. "atOrBelow" \in Rules /\ "find" \in Aims /\ j = Walking(i, "atOrBelow", "find")
    BY <1>1 DEF Rules, Aims
  <2> QED
    BY <1>2, <2>1, WalkingIs
<1>4. j.op = c /\ j.target = k /\ j.d = Null /\ ~j.found
  BY <1>2, <1>3 DEF SameHand, SameCallOf
<1>5. HeadNode \in Linked /\ MaxHeight - 1 \in 0..(MaxHeight - 1)
  BY HeadLinked, SizeFacts
<1>6. UseSound(j)
  BY <1>3, <1>4, <1>5 DEF UseSound, Targeted
<1>7. HandSound(j, s, Contents) /\ PlaceSound(j, m) /\ UpSound(j, Contents, m)
      /\ AnswerSound(j, Contents, m) /\ QuietSound(j, m) /\ QuietAnswer(j, m)
  BY <1>3, <1>4
     DEF HandSound, PlaceSound, AtOrBelow, UpSound, AnswerSound, QuietSound, QuietAnswer
<1> QED
  BY <1>4, <1>6, <1>7 DEF ReaderSound

LEMMA FirstStarts ==
  ASSUME IndexSound, NEW s, s \subseteq Contents, NEW m,
         NEW j, j = Adopting(Turning("seekToFirst"), HeadNode, "front")
  PROVE  ReaderSound(j, s, Contents, m)
<1>1. PICK i : i = Turning("seekToFirst")
  OBVIOUS
<1>2. i \in ReaderState /\ i.op = "seekToFirst" /\ i.d = Null /\ ~i.found
  <2>1. "seekToFirst" \in Ops
    BY DEF Ops
  <2> QED
    BY <1>1, <2>1, TurningIs
<1>3. /\ j \in ReaderState /\ SameHand(i, j) /\ SameCallOf(i, j) /\ j.found = i.found
      /\ j.pc = "load" /\ j.aim = "front" /\ j.cur = HeadNode
  <2>1. "front" \in Aims /\ HeadNode \in Nat /\ j = Adopting(i, HeadNode, "front")
    BY <1>1 DEF Aims, HeadNode
  <2> QED
    BY <1>2, <2>1, AdoptingIs
<1>4. j.op = "seekToFirst" /\ j.d = Null /\ ~j.found
  BY <1>2, <1>3 DEF SameHand, SameCallOf
<1>5. UseSound(j)
  BY <1>3, <1>4, HeadLinked DEF UseSound, Targeted, Upward
<1>6. HandSound(j, s, Contents) /\ PlaceSound(j, m) /\ UpSound(j, Contents, m)
      /\ AnswerSound(j, Contents, m) /\ QuietSound(j, m) /\ QuietAnswer(j, m)
  BY <1>3, <1>4
     DEF HandSound, PlaceSound, Before, UpSound, AnswerSound, QuietSound, QuietAnswer
<1> QED
  BY <1>4, <1>5, <1>6 DEF ReaderSound

LEMMA LastStarts ==
  ASSUME IndexSound, NEW s, s \subseteq Contents, NEW m,
         NEW j, j = Walking(Turning("seekToLast"), "any", "back")
  PROVE  ReaderSound(j, s, Contents, m)
<1>1. PICK i : i = Turning("seekToLast")
  OBVIOUS
<1>2. i \in ReaderState /\ i.op = "seekToLast" /\ i.d = Null /\ ~i.found
  <2>1. "seekToLast" \in Ops
    BY DEF Ops
  <2> QED
    BY <1>1, <2>1, TurningIs
<1>3. /\ j \in ReaderState /\ SameHand(i, j) /\ SameCallOf(i, j) /\ j.found = i.found
      /\ j.pc = "walk" /\ j.rule = "any" /\ j.aim = "back"
      /\ j.cur = HeadNode /\ j.lv = MaxHeight - 1
  <2>1. "any" \in Rules /\ "back" \in Aims /\ j = Walking(i, "any", "back")
    BY <1>1 DEF Rules, Aims
  <2> QED
    BY <1>2, <2>1, WalkingIs
<1>4. j.op = "seekToLast" /\ j.d = Null /\ ~j.found
  BY <1>2, <1>3 DEF SameHand, SameCallOf
<1>5. HeadNode \in Linked /\ MaxHeight - 1 \in 0..(MaxHeight - 1)
  BY HeadLinked, SizeFacts
<1>6. UseSound(j)
  BY <1>3, <1>4, <1>5 DEF UseSound, Targeted
<1>7. HandSound(j, s, Contents) /\ PlaceSound(j, m) /\ UpSound(j, Contents, m)
      /\ AnswerSound(j, Contents, m) /\ QuietSound(j, m) /\ QuietAnswer(j, m)
  BY <1>3, <1>4
     DEF HandSound, PlaceSound, UpSound, AnswerSound, QuietSound, QuietAnswer
<1> QED
  BY <1>4, <1>6, <1>7 DEF ReaderSound

\* What an iterator at rest on a key has.
LEMMA AtKey ==
  ASSUME IndexSound, NEW i, NEW s, NEW b, NEW m, ReaderSound(i, s, b, m),
         i.pc = "idle", Valid(i)
  PROVE  /\ i \in ReaderState /\ i.d # Null /\ WasOf(i.d, i.node)
         /\ SnapSound(i) /\ Covers(i, Shown(i), s) /\ s \subseteq Contents
         /\ i.found => i.target \in Contents
         /\ i.pos \in 1..Len(i.snap)
<1>1. /\ i \in ReaderState /\ s \subseteq Contents /\ HandSound(i, s, b)
      /\ i.found => i.target \in Contents
  BY DEF ReaderSound, UseSound
<1>2. i.d # Null /\ i.pos \in DOMAIN i.snap /\ i.snap \in Seq(Slot)
  BY <1>1 DEF Valid, ReaderState
<1> QED
  BY <1>1, <1>2 DEF HandSound

LEMMA NextStarts ==
  ASSUME IndexSound, NEW i, NEW s, NEW b, NEW m, ReaderSound(i, s, b, m),
         i.pc = "idle", Valid(i),
         NEW j, j = SkipForward(Stepping(i, "next", i.pos + 1))
  PROVE  ReaderSound(j, s, s, KeyOf(i))
<1>1. /\ i \in ReaderState /\ i.d # Null /\ WasOf(i.d, i.node)
      /\ SnapSound(i) /\ Covers(i, Shown(i), s) /\ s \subseteq Contents
      /\ i.found => i.target \in Contents
      /\ i.pos \in 1..Len(i.snap)
  BY AtKey
<1>2. /\ Len(i.snap) \in Nat /\ DOMAIN i.snap = 1..Len(i.snap)
      /\ \A a \in 1..Len(i.snap) :
           /\ KeyAt(i.d, i.snap, a) \in Nat
           /\ next[i.d] # Null => KeyAt(i.d, i.snap, a) < Start(next[i.d])
           /\ i.node # HeadNode => Start(i.node) <= KeyAt(i.d, i.snap, a)
      /\ i.node # HeadNode => Start(i.node) \in Nat
      /\ \A a, c \in 1..Len(i.snap) : a < c => KeyAt(i.d, i.snap, a) < KeyAt(i.d, i.snap, c)
  BY <1>1, ShownFacts
<1>3. PICK p, g : p = i.pos + 1 /\ g = Stepping(i, "next", p)
  OBVIOUS
<1>4. p \in Nat /\ p \in 1..(Len(i.snap) + 1) /\ p - 1 = i.pos
  BY <1>1, <1>2, <1>3
<1>5. j = SkipForward(g)
  BY <1>3
<1>6. /\ g \in ReaderState /\ SameHand(i, g) /\ g.op = "next" /\ g.target = i.target
      /\ g.found = i.found /\ g.pos = p
  <2>1. i \in ReaderState /\ "next" \in Ops /\ p \in Nat /\ g = Stepping(i, "next", p)
    BY <1>1, <1>3, <1>4 DEF Ops
  <2> QED
    BY <2>1, MovedIs
<1>7. g.d = i.d /\ g.node = i.node /\ g.snap = i.snap
  BY <1>6 DEF SameHand
<1>8. WasOf(g.d, g.node) /\ SnapSound(g) /\ Covers(g, Shown(g), s)
  BY <1>1, <1>6, SameHandSound
<1>9. PICK m0 : m0 = KeyOf(i)
  OBVIOUS
<1>10. m0 = KeyAt(i.d, i.snap, i.pos) /\ m0 \in Nat
  BY <1>1, <1>2, <1>9 DEF KeyOf
<1>11. ASSUME NEW k \in s, Wanted(g, m0, k)
       PROVE  ~Before(k, g.node) /\ \A a \in 1..(g.pos - 1) : KeyAt(g.d, g.snap, a) < k
  <2>1. k \in Nat /\ k > m0
    BY <1>1, <1>6, <1>11, Whereabouts DEF Wanted
  <2>2. ~Before(k, g.node)
    BY <1>1, <1>2, <1>7, <1>10, <2>1 DEF Before
  <2>3. ASSUME NEW a \in 1..i.pos PROVE KeyAt(i.d, i.snap, a) < k
    <3>1. a \in 1..Len(i.snap) /\ (a = i.pos \/ a < i.pos)
      BY <1>1, <1>2
    <3> QED
      BY <1>1, <1>2, <1>10, <2>1, <3>1
  <2> QED
    BY <1>4, <1>6, <1>7, <2>2, <2>3
<1>12. g.pos <= Len(g.snap) => KeyOf(g) > m0
  <2>1. g.pos <= Len(g.snap) => p \in 1..Len(i.snap) /\ i.pos < p
    BY <1>1, <1>2, <1>4, <1>6, <1>7
  <2> QED
    BY <1>1, <1>2, <1>6, <1>7, <1>10, <2>1 DEF KeyOf
<1>13. next[g.d] # Null => Before(m0, next[g.d])
  <2>1. next[i.d] # Null => next[i.d] # HeadNode
    BY <1>1 DEF WasOf
  <2> QED
    BY <1>1, <1>2, <1>7, <1>10, <2>1 DEF Before
<1>14. Poised(g, s, s, m0)
  BY <1>1, <1>4, <1>6, <1>7, <1>8, <1>11, <1>12, <1>13 DEF Poised, Wanted, Upward, Targeted
<1> QED
  BY <1>5, <1>6, <1>9, <1>14, ForwardLands

LEMMA PrevStarts ==
  ASSUME IndexSound, NEW i, NEW s, NEW b, NEW m, ReaderSound(i, s, b, m),
         i.pc = "idle", Valid(i),
         NEW j, j = Prev(Stepping(i, "prev", i.pos))
  PROVE  ReaderSound(j, s, s, KeyOf(i))
<1>1. /\ i \in ReaderState /\ i.d # Null /\ WasOf(i.d, i.node)
      /\ SnapSound(i) /\ Covers(i, Shown(i), s) /\ s \subseteq Contents
      /\ i.found => i.target \in Contents
      /\ i.pos \in 1..Len(i.snap)
  BY AtKey
<1>2. PICK g : g = Stepping(i, "prev", i.pos)
  OBVIOUS
<1>3. j = Prev(g) /\ i.pos \in Nat
  BY <1>1, <1>2 DEF ReaderState
<1>4. /\ g \in ReaderState /\ SameHand(i, g) /\ g.op = "prev" /\ g.target = i.target
      /\ g.found = i.found /\ g.pos = i.pos
  <2>1. "prev" \in Ops
    BY DEF Ops
  <2> QED
    BY <1>1, <1>2, <1>3, <2>1, MovedIs
<1>5. g.d = i.d /\ g.node = i.node /\ g.snap = i.snap /\ KeyOf(g) = KeyOf(i)
  BY <1>4 DEF SameHand, KeyOf
<1>6. WasOf(g.d, g.node) /\ SnapSound(g) /\ Covers(g, Shown(g), s)
  BY <1>1, <1>4, SameHandSound
<1>7. Perched(g, s, s, KeyOf(i))
  BY <1>1, <1>4, <1>5, <1>6 DEF Perched
<1> QED
  BY <1>3, <1>7, PrevLands


-----------------------------------------------------------------------------
(* Walks.                                                                  *)

\* An iterator at work, of a call that is on its way to some node.
LEMMA AtWalk ==
  ASSUME IndexSound, NEW i, NEW s, NEW b, NEW m, ReaderSound(i, s, b, m), i.pc = "walk"
  PROVE  /\ i \in ReaderState /\ i.cur \in Linked /\ i.cur \in Node /\ i.lv \in AnyLevel
         /\ i.lv \in 0..(MaxHeight - 1)
         /\ i.aim = "find" =>
              i.rule = "atOrBelow" /\ i.target \in Key /\ AtOrBelow(i.cur, i.target)
         /\ i.aim = "back" => i.rule \in {"any", "below"}
         /\ i.rule = "below" =>
              /\ i.node \in Linked /\ i.node \in Node /\ i.node # HeadNode
              /\ Start(i.node) \in Key /\ Start(i.node) \in Nat
              /\ KeyAt(i.d, i.snap, 1) = Start(i.node)
              /\ Behind(i.cur, Start(i.node))
         /\ i.aim \in {"find", "back"}
<1>1. UseSound(i) /\ HandSound(i, s, b) /\ PlaceSound(i, m)
  BY DEF ReaderSound
<1>2. /\ i \in ReaderState /\ i.cur \in Linked /\ i.lv \in 0..(MaxHeight - 1)
      /\ i.aim \in {"find", "back"} /\ (i.op \in Targeted => i.target \in Key)
      /\ i.aim = "find" => i.op \in Targeted /\ i.rule = "atOrBelow"
      /\ i.aim = "back" => i.rule \in {"any", "below"}
  BY <1>1 DEF UseSound, ReaderState
<1>3. i.aim = "find" => AtOrBelow(i.cur, i.target)
  BY <1>1 DEF PlaceSound
<1>4. ASSUME i.rule = "below"
      PROVE  /\ i.node \in Linked /\ i.node \in Node /\ i.node # HeadNode
             /\ Start(i.node) \in Key /\ Start(i.node) \in Nat
             /\ KeyAt(i.d, i.snap, 1) = Start(i.node)
             /\ Behind(i.cur, Start(i.node))
  <2>1. i.aim = "back"
    BY <1>2, <1>4
  <2>2. i.d # Null /\ i.node # HeadNode /\ Behind(i.cur, Start(i.node))
    BY <1>1, <1>4, <2>1 DEF PlaceSound
  <2>3. WasOf(i.d, i.node) /\ SnapSound(i)
    BY <1>1, <2>2 DEF HandSound
  <2>4. i.node \in Linked /\ i.node \in Node /\ KeyAt(i.d, i.snap, 1) = Start(i.node)
    BY <2>2, <2>3 DEF WasOf, SnapSound, Linked
  <2> QED
    BY <2>2, <2>4, NodeFacts DEF IndexSound
<1>5. i.cur \in Node /\ i.lv \in AnyLevel
  BY <1>2 DEF Linked, AnyLevel
<1> QED
  BY <1>2, <1>3, <1>4, <1>5

\* What a walk that has arrived knows of the link it did not follow.
Arrived(i) ==
  /\ i.aim = "find" => ~AtOrAfter(i.target, next[data[i.cur]])
  /\ i.aim = "back" /\ i.rule = "any" => next[data[i.cur]] = Null
  /\ i.aim = "back" /\ i.rule = "below" => next[data[i.cur]] = i.node

LEMMA WalkGoesOn ==
  ASSUME IndexSound, NEW i, NEW s, NEW b, NEW m, ReaderSound(i, s, b, m), i.pc = "walk",
         NEW j, Strides(i, j), j.pc \in {"walk", "load"},
         j.cur \in Linked, j.lv \in 0..(MaxHeight - 1),
         i.aim = "find" => AtOrBelow(j.cur, i.target),
         i.rule = "below" => Behind(j.cur, Start(i.node)),
         j.pc = "load" => Arrived(j)
  PROVE  ReaderSound(j, s, b, m)
<1>1. /\ s \subseteq Contents /\ b \subseteq Contents /\ (i.found => i.target \in Contents)
      /\ UseSound(i) /\ HandSound(i, s, b) /\ PlaceSound(i, m)
      /\ Contents = b => QuietSound(i, m)
  BY DEF ReaderSound
<1>2. /\ j \in ReaderState /\ j.d = i.d /\ j.node = i.node /\ j.snap = i.snap
      /\ j.op = i.op /\ j.target = i.target /\ j.found = i.found
      /\ j.rule = i.rule /\ j.aim = i.aim /\ SameHand(i, j)
  BY DEF Strides, SameHand, SameCallOf
<1>3. i.aim # "front"
  BY <1>1 DEF UseSound
<1>4. UseSound(j)
  BY <1>1, <1>2, <1>3 DEF UseSound
<1>5. HandSound(j, s, b)
  BY <1>1, <1>2, SameHandSound DEF HandSound
<1>6. PlaceSound(j, m)
  BY <1>1, <1>2 DEF PlaceSound
<1>7. UpSound(j, b, m) /\ AnswerSound(j, b, m) /\ QuietAnswer(j, m)
  BY <1>2, <1>3 DEF UpSound, AnswerSound, QuietAnswer
<1>8. QuietSound(i, m) => QuietSound(j, m)
  BY <1>2, <1>3 DEF QuietSound, Past, Arrived
<1> QED
  BY <1>1, <1>2, <1>4, <1>5, <1>6, <1>7, <1>8 DEF ReaderSound

\* The rules of a walk in terms of first keys.
LEMMA MayEnterMeans ==
  ASSUME IndexSound, NEW i, NEW s, NEW b, NEW m, ReaderSound(i, s, b, m), i.pc = "walk",
         NEW nx, nx # Null => nx \in Linked \ {HeadNode}
  PROVE  /\ MayEnter(i, nx) => /\ nx \in Linked
                               /\ i.aim = "find" => AtOrBelow(nx, i.target)
                               /\ i.rule = "below" => Behind(nx, Start(i.node))
         /\ ~MayEnter(i, nx) =>
              /\ i.aim = "find" => ~AtOrAfter(i.target, nx)
              /\ i.aim = "back" /\ i.rule = "any" => nx = Null
              /\ i.aim = "back" /\ i.rule = "below" =>
                   nx = Null \/ nx = i.node \/ ~(Start(nx) < Start(i.node))
<1>1. /\ i.aim = "find" =>
           i.rule = "atOrBelow" /\ i.target \in Key /\ AtOrBelow(i.cur, i.target)
      /\ i.rule = "below" => Start(i.node) \in Key /\ KeyAt(i.d, i.snap, 1) = Start(i.node)
      /\ i.aim \in {"find", "back"}
      /\ i.aim = "back" => i.rule \in {"any", "below"}
  BY AtWalk
<1>2. CASE nx = Null
  BY <1>1, <1>2 DEF MayEnter, AtOrAfter
<1>3. CASE nx # Null
  <2>1. nx \in Linked /\ nx \in Node \ {HeadNode} /\ ListSound
    BY <1>3 DEF Linked, IndexSound
  <2>2. i.aim = "find" => (StartsAtOrBelow(nx, i.target) <=> Start(nx) <= i.target)
    BY <1>1, <2>1, StartsMeansFirst DEF Start
  <2>3. i.rule = "below" =>
          (StartsStrictlyBelow(nx, KeyAt(i.d, i.snap, 1)) <=> Start(nx) < Start(i.node))
    BY <1>1, <2>1, StrictMeansFirst
  <2>4. MayEnter(i, nx) => /\ i.aim = "find" => AtOrBelow(nx, i.target)
                           /\ i.rule = "below" => Behind(nx, Start(i.node))
    BY <1>1, <2>2, <2>3 DEF MayEnter, AtOrBelow, Behind
  <2>5. ~MayEnter(i, nx) =>
          /\ i.aim = "find" => ~AtOrAfter(i.target, nx)
          /\ ~(i.aim = "back" /\ i.rule = "any")
          /\ i.aim = "back" /\ i.rule = "below" => nx = i.node \/ ~(Start(nx) < Start(i.node))
    BY <1>1, <1>3, <2>2, <2>3 DEF MayEnter, AtOrAfter
  <2> QED
    BY <2>1, <2>4, <2>5
<1> QED
  BY <1>2, <1>3

LEMMA HopLands ==
  ASSUME IndexSound, NEW i, NEW s, NEW b, NEW m, ReaderSound(i, s, b, m), i.pc = "walk",
         NEW nx, nx = LinkOf(i.cur, i.lv), MayEnter(i, nx), NEW j, j = [i EXCEPT !.cur = nx]
  PROVE  ReaderSound(j, s, b, m)
<1>1. i \in ReaderState /\ i.cur \in Node /\ i.lv \in AnyLevel /\ i.lv \in 0..(MaxHeight - 1)
  BY AtWalk
<1>2. nx # Null
  BY DEF MayEnter
<1>3. nx \in Linked \ {HeadNode} /\ nx \in Nat
  BY <1>1, <1>2, LinkFacts DEF Node
<1>4. /\ i.aim = "find" => AtOrBelow(nx, i.target)
      /\ i.rule = "below" => Behind(nx, Start(i.node))
  BY <1>3, MayEnterMeans
<1>5. Strides(i, j) /\ j.pc = i.pc /\ j.cur = nx /\ j.lv = i.lv
  <2>1. i.lv \in Nat
    BY <1>1 DEF ReaderState
  <2> QED
    BY <1>1, <1>3, <2>1, StridesAre
<1> QED
  BY <1>1, <1>3, <1>4, <1>5, WalkGoesOn

LEMMA DownLands ==
  ASSUME IndexSound, NEW i, NEW s, NEW b, NEW m, ReaderSound(i, s, b, m), i.pc = "walk",
         i.lv > 0, NEW l, l = i.lv - 1, NEW j, j = [i EXCEPT !.lv = l]
  PROVE  ReaderSound(j, s, b, m)
<1>1. /\ i \in ReaderState /\ i.cur \in Linked /\ i.lv \in 0..(MaxHeight - 1)
      /\ i.aim = "find" => AtOrBelow(i.cur, i.target)
      /\ i.rule = "below" => Behind(i.cur, Start(i.node))
  BY AtWalk
<1>2. l \in Nat /\ l \in 0..(MaxHeight - 1)
  BY <1>1, SizeFacts
<1>3. Strides(i, j) /\ j.pc = i.pc /\ j.cur = i.cur /\ j.lv = l
  <2>1. i.cur \in Nat
    BY <1>1 DEF ReaderState
  <2> QED
    BY <1>1, <1>2, <2>1, StridesAre
<1> QED
  BY <1>1, <1>2, <1>3, WalkGoesOn

LEMMA ArriveLands ==
  ASSUME IndexSound, NEW i, NEW s, NEW b, NEW m, ReaderSound(i, s, b, m), i.pc = "walk",
         i.lv = 0, ~MayEnter(i, LinkOf(i.cur, i.lv)), NEW j, j = [i EXCEPT !.pc = "load"]
  PROVE  ReaderSound(j, s, b, m)
<1>1. /\ i \in ReaderState /\ i.cur \in Linked /\ i.cur \in Node /\ i.lv \in 0..(MaxHeight - 1)
      /\ i.aim = "find" => AtOrBelow(i.cur, i.target)
      /\ i.rule = "below" => /\ Behind(i.cur, Start(i.node))
                             /\ i.node \in Linked /\ i.node # HeadNode
                             /\ Start(i.node) \in Nat
  BY AtWalk
<1>2. PICK nx : nx = next[data[i.cur]]
  OBVIOUS
<1>3. nx = LinkOf(i.cur, i.lv) /\ ListSound
  BY <1>2 DEF LinkOf, IndexSound
<1>4. nx # Null => nx \in Linked \ {HeadNode} /\ nx \in Node \ {HeadNode} /\ Start(nx) \in Nat
  BY <1>1, <1>2, <1>3, NextFacts, NodeFacts
<1>5. /\ i.aim = "find" => ~AtOrAfter(i.target, nx)
      /\ i.aim = "back" /\ i.rule = "any" => nx = Null
      /\ i.aim = "back" /\ i.rule = "below" =>
           nx = Null \/ nx = i.node \/ ~(Start(nx) < Start(i.node))
  BY <1>3, <1>4, MayEnterMeans
<1>6. ASSUME i.aim = "back", i.rule = "below" PROVE nx = i.node
  <2>1. nx # Null /\ Start(nx) <= Start(i.node)
    BY <1>1, <1>2, <1>6 DEF IndexSound, TowerOrder, Gapless
  <2>2. nx = i.node \/ Start(nx) = Start(i.node)
    BY <1>1, <1>4, <1>5, <1>6, <2>1
  <2> QED
    BY <1>1, <1>3, <1>4, <1>6, <2>1, <2>2, StartsApart
<1>7. Strides(i, j) /\ j.pc = "load" /\ j.cur = i.cur /\ j.lv = i.lv
  BY <1>1, ArrivesAre
<1>8. Arrived(j)
  BY <1>2, <1>5, <1>6, <1>7 DEF Arrived, Strides, SameHand, SameCallOf
<1> QED
  BY <1>1, <1>7, <1>8, WalkGoesOn


-----------------------------------------------------------------------------
(* Loads.                                                                  *)

LEMMA LoadLands ==
  ASSUME IndexSound, NEW i, NEW s, NEW b, NEW m, ReaderSound(i, s, b, m), i.pc = "load",
         NEW j, j = [i EXCEPT !.pc = "snap", !.node = i.cur, !.d = data[i.cur]]
  PROVE  ReaderSound(j, Contents, b, m)
<1>1. /\ b \subseteq Contents /\ (i.found => i.target \in Contents)
      /\ UseSound(i) /\ HandSound(i, s, b) /\ PlaceSound(i, m) /\ UpSound(i, b, m)
      /\ Contents = b => QuietSound(i, m)
  BY DEF ReaderSound
<1>2. /\ i \in ReaderState /\ i.cur \in Linked /\ i.cur \in Nat
      /\ i.op \in Targeted => i.target \in Key
      /\ i.aim = "find" => i.op \in Targeted /\ i.rule = "atOrBelow"
      /\ i.aim = "front" => i.op \in Upward
      /\ i.aim = "back" => \/ i.op = "prev" /\ i.rule = "below"
                           \/ i.op = "seekToLast" /\ i.rule = "any"
                           \/ i.op = "seekForPrev" /\ i.rule \in {"any", "below"}
      /\ i.aim \in {"find", "front", "back"}
  BY <1>1 DEF UseSound, ReaderState
<1>3. PICK p : p = data[i.cur]
  OBVIOUS
<1>4. i.cur \in Node /\ p \in Payload /\ p \in Nat /\ p # Null /\ WasOf(p, i.cur)
  <2>1. i.cur \in Node
    BY <1>2 DEF Linked
  <2>2. p \in Payload
    BY <1>3, <2>1, NodeFacts DEF IndexSound
  <2>3. p \in Nat /\ p # Null
    BY <2>2 DEF Payload, Null
  <2> QED
    BY <1>2, <1>3, <2>1, <2>2, <2>3, IsOf
<1>5. /\ j \in ReaderState /\ SameCallOf(i, j) /\ j.found = i.found
      /\ j.pc = "snap" /\ j.rule = i.rule /\ j.aim = i.aim /\ j.node = i.cur /\ j.d = p
  BY <1>2, <1>3, <1>4 DEF ReaderState, SameCallOf
<1>6. j.op = i.op /\ j.target = i.target
  BY <1>5 DEF SameCallOf
<1>7. UseSound(j)
  BY <1>2, <1>4, <1>5, <1>6 DEF UseSound
<1>8. HandSound(j, Contents, b)
  <2>1. Covers(j, held[p], Contents)
    BY <1>2, <1>3, <1>5, CoversAll
  <2> QED
    BY <1>1, <1>4, <1>5, <2>1 DEF HandSound
<1>9. ASSUME i.aim = "back", i.rule = "below"
      PROVE  /\ i.d # Null /\ i.node # HeadNode /\ Behind(i.cur, Start(i.node))
             /\ i.node \in Linked /\ i.node # Null /\ (i.op = "prev" => m = Start(i.node))
  <2>1. /\ i.d # Null /\ i.node # HeadNode /\ Behind(i.cur, Start(i.node))
        /\ i.op = "prev" => m = Start(i.node)
    BY <1>1, <1>9 DEF PlaceSound
  <2>2. i.node \in Linked
    BY <1>1, <2>1 DEF HandSound, WasOf
  <2>3. i.node # Null
    BY <2>2 DEF Linked, Node, Null
  <2> QED
    BY <2>1, <2>2, <2>3
<1>10. PlaceSound(j, m)
  <2>1. i.aim = "find" => AtOrBelow(i.cur, i.target)
    BY <1>1 DEF PlaceSound
  <2>2. ASSUME i.op = "prev" PROVE m \in Key /\ AtOrAfter(m, next[p])
    <3>1. i.aim = "back" /\ i.rule = "below"
      BY <1>2, <2>2 DEF Targeted, Upward
    <3>2. next[p] # Null /\ Start(next[p]) <= Start(i.node)
      BY <1>2, <1>3, <1>9, <3>1 DEF IndexSound, TowerOrder, Gapless
    <3>3. Start(i.node) \in Key
      BY <1>9, <3>1, NodeFacts DEF Linked, IndexSound
    <3> QED
      BY <1>9, <2>2, <3>1, <3>2, <3>3 DEF AtOrAfter
  <2> QED
    BY <1>5, <1>6, <2>1, <2>2 DEF PlaceSound
<1>11. UpSound(j, b, m) /\ AnswerSound(j, b, m) /\ QuietAnswer(j, m)
  BY <1>1, <1>5, <1>6 DEF UpSound, AnswerSound, QuietAnswer, Wanted
<1>12. QuietSound(i, m) => QuietSound(j, m)
  BY <1>3, <1>5, <1>6, <1>9 DEF QuietSound, Past
<1> QED
  BY <1>1, <1>5, <1>6, <1>7, <1>8, <1>10, <1>11, <1>12 DEF ReaderSound


-----------------------------------------------------------------------------
(* Snapshots.                                                              *)

\* Iterator i has its payload and is about to take its snapshot; j has taken it.
Shoots(i, j, s, b, m) ==
  /\ ReaderSound(i, s, b, m) /\ i.pc = "snap"
  /\ j \in ReaderState /\ SameCallOf(i, j) /\ j.found = i.found
  /\ j.rule = i.rule /\ j.aim = i.aim /\ j.node = i.node /\ j.d = i.d
  /\ j.snap = order[i.d]

\* A snapshot shows the keys of the payload.
LEMMA SnapTaken ==
  ASSUME IndexSound, NEW i, NEW j, NEW s, NEW b, NEW m, Shoots(i, j, s, b, m)
  PROVE  /\ j.d # Null /\ WasOf(j.d, j.node) /\ SnapSound(j) /\ Covers(j, Shown(j), s)
         /\ s \subseteq Contents /\ b \subseteq s /\ (j.found => j.target \in Contents)
         /\ j.op \in Targeted => j.target \in Key
         /\ Shown(j) = held[j.d] /\ held[j.d] \subseteq Contents
<1>1. /\ s \subseteq Contents /\ (i.found => i.target \in Contents)
      /\ UseSound(i) /\ HandSound(i, s, b) /\ i.pc = "snap"
      /\ j \in ReaderState /\ j.node = i.node /\ j.d = i.d /\ j.snap = order[i.d]
      /\ j.op = i.op /\ j.target = i.target /\ j.found = i.found
  BY DEF Shoots, ReaderSound, SameCallOf
<1>2. /\ i.d # Null /\ WasOf(i.d, i.node) /\ Covers(i, held[i.d], s) /\ b \subseteq s
      /\ i.op \in Targeted => i.target \in Key
  BY <1>1 DEF UseSound, HandSound
<1>3. /\ i.d \in Payload /\ held[i.d] \subseteq Contents /\ Ownership /\ RunsAscend
      /\ i.node # HeadNode => order[i.d] # <<>> /\ first[i.d] = Start(i.node)
  BY <1>2 DEF WasOf, IndexSound, ListSound, ListOrder
<1>4. Shown(j) = held[j.d]
  BY <1>1, <1>3 DEF Shown, held, KeysOf, KeyAt
<1>5. SnapSound(j)
  <2>1. \A a, c \in DOMAIN j.snap : a < c => KeyAt(j.d, j.snap, a) < KeyAt(j.d, j.snap, c)
    BY <1>1, <1>3 DEF RunsAscend
  <2>2. j.node # HeadNode => j.snap # <<>> /\ KeyAt(j.d, j.snap, 1) = Start(j.node)
    BY <1>1, <1>3 DEF first
  <2>3. ToSet(j.snap) \subseteq ToSet(order[j.d])
    BY <1>1
  <2> QED
    BY <2>1, <2>2, <2>3 DEF SnapSound
<1>6. Covers(j, Shown(j), s)
  BY <1>1, <1>2, <1>4 DEF Covers
<1> QED
  BY <1>1, <1>2, <1>3, <1>4, <1>5, <1>6

\* What sorted_position finds in a snapshot.
LEMMA FindsPlace ==
  ASSUME IndexSound, NEW i, NEW j, NEW s, NEW b, NEW m, Shoots(i, j, s, b, m),
         j.target \in Key, NEW p, p = SortedPosition(j.d, j.snap, j.target) + 1
  PROVE  /\ p \in 1..(Len(j.snap) + 1) /\ p \in Nat /\ j.target \in Nat
         /\ \A a \in 1..(p - 1) : KeyAt(j.d, j.snap, a) < j.target
         /\ p <= Len(j.snap) => KeyAt(j.d, j.snap, p) >= j.target
         /\ j.target \in Shown(j) => p <= Len(j.snap) /\ KeyAt(j.d, j.snap, p) = j.target
<1>1. /\ j \in ReaderState /\ WasOf(j.d, j.node) /\ SnapSound(j) /\ j.snap = order[j.d]
      /\ j.d \in Payload /\ Ownership /\ RunsAscend /\ j.target \in Nat
  BY SnapTaken, SizeFacts DEF Shoots, WasOf, IndexSound, ListSound, ListOrder
<1>2. /\ Len(j.snap) \in Nat /\ DOMAIN j.snap = 1..Len(j.snap)
      /\ \A a \in 1..Len(j.snap) : KeyAt(j.d, j.snap, a) \in Nat
      /\ \A a, c \in 1..Len(j.snap) : a < c => KeyAt(j.d, j.snap, a) < KeyAt(j.d, j.snap, c)
  BY <1>1, ShownFacts
<1>3. PICK c : c = SortedPosition(j.d, order[j.d], j.target)
  OBVIOUS
<1>4. /\ c \in 0..Len(order[j.d])
      /\ \A r \in 1..Len(order[j.d]) : KeyAt(j.d, order[j.d], r) < j.target <=> r <= c
  BY <1>1, <1>3, PositionCuts
<1>5. /\ c \in 0..Len(j.snap) /\ c \in Nat /\ p = c + 1
      /\ \A r \in 1..Len(j.snap) : KeyAt(j.d, j.snap, r) < j.target <=> r <= c
  BY <1>1, <1>2, <1>3, <1>4
<1>6. p \in 1..(Len(j.snap) + 1) /\ p \in Nat /\ p - 1 = c
  BY <1>2, <1>5
<1>7. \A a \in 1..(p - 1) : KeyAt(j.d, j.snap, a) < j.target
  BY <1>2, <1>5, <1>6
<1>8. p <= Len(j.snap) => KeyAt(j.d, j.snap, p) >= j.target
  <2>1. p <= Len(j.snap) => p \in 1..Len(j.snap) /\ ~(p <= c)
    BY <1>2, <1>5, <1>6
  <2> QED
    BY <1>1, <1>2, <1>5, <2>1
<1>9. ASSUME j.target \in Shown(j)
      PROVE  p <= Len(j.snap) /\ KeyAt(j.d, j.snap, p) = j.target
  <2>1. PICK a \in 1..Len(j.snap) : j.target = KeyAt(j.d, j.snap, a)
    BY <1>2, <1>9 DEF Shown
  <2>2. ~(a <= c)
    BY <1>1, <1>2, <1>5, <2>1
  <2>3. p <= Len(j.snap) /\ p \in 1..Len(j.snap) /\ (p = a \/ p < a)
    BY <1>2, <1>5, <2>1, <2>2
  <2> QED
    BY <1>1, <1>2, <1>8, <2>1, <2>3
<1> QED
  BY <1>1, <1>6, <1>7, <1>8, <1>9

\* contains_target answers.
LEMMA ContainsLands ==
  ASSUME IndexSound, NEW i, NEW j, NEW s, NEW b, NEW m, Shoots(i, j, s, b, m),
         i.aim = "find", i.op = "contains",
         NEW p, p = SortedPosition(j.d, j.snap, j.target) + 1,
         NEW g, g = Answered(j, p <= Len(j.snap) /\ KeyAt(j.d, j.snap, p) = j.target)
  PROVE  ReaderSound(g, s, b, m)
<1>1. /\ j \in ReaderState /\ WasOf(j.d, j.node) /\ SnapSound(j) /\ Covers(j, Shown(j), s)
      /\ s \subseteq Contents /\ b \subseteq s /\ j.target \in Key
      /\ Shown(j) = held[j.d] /\ held[j.d] \subseteq Contents
      /\ j.op = "contains" /\ j.target = i.target /\ j.node = i.node /\ j.d = i.d
  BY SnapTaken DEF Shoots, SameCallOf, Targeted
<1>2. /\ p \in 1..(Len(j.snap) + 1) /\ p \in Nat /\ j.target \in Nat
      /\ j.target \in Shown(j) => p <= Len(j.snap) /\ KeyAt(j.d, j.snap, p) = j.target
  BY <1>1, FindsPlace
<1>3. PICK f \in BOOLEAN : f = (p <= Len(j.snap) /\ KeyAt(j.d, j.snap, p) = j.target)
  OBVIOUS
<1>4. /\ g \in ReaderState /\ SameCallOf(j, g) /\ g.found = f
      /\ g.pc = "idle" /\ g.d = Null
  <2>1. g = Answered(j, f)
    BY <1>3
  <2> QED
    BY <1>1, <2>1, AnsweredIs
<1>5. g.op = "contains" /\ g.target = j.target
  BY <1>1, <1>4 DEF SameCallOf
<1>6. f => j.target \in Contents
  <2>1. Len(j.snap) \in Nat /\ DOMAIN j.snap = 1..Len(j.snap)
    BY <1>1, ShownFacts
  <2>2. f => p <= Len(j.snap) /\ KeyAt(j.d, j.snap, p) = j.target
    BY <1>3
  <2>3. p <= Len(j.snap) => p \in DOMAIN j.snap
    BY <1>2, <2>1
  <2> QED
    BY <1>1, <2>2, <2>3 DEF Shown
<1>7. ASSUME Contents = b, j.target \in Contents PROVE f
  <2>1. QuietSound(i, m) /\ PlaceSound(i, m) /\ i.pc = "snap"
    BY <1>7 DEF Shoots, ReaderSound
  <2>2. ~AtOrAfter(j.target, next[j.d]) /\ AtOrBelow(j.node, j.target)
    BY <1>1, <2>1 DEF QuietSound, PlaceSound
  <2>3. ~Before(j.target, j.node)
    <3>1. j.node # HeadNode => Start(j.node) \in Nat
      BY <1>1, ShownFacts
    <3> QED
      BY <1>2, <2>2, <3>1 DEF Before, AtOrBelow
  <2>4. j.target \in Shown(j)
    BY <1>1, <1>7, <2>2, <2>3 DEF Covers
  <2> QED
    BY <1>2, <1>3, <2>4
<1>8. AnswerSound(g, b, m) /\ (Contents = b => QuietAnswer(g, m))
  BY <1>4, <1>5, <1>7 DEF AnswerSound, QuietAnswer
<1> QED
  BY <1>1, <1>4, <1>5, <1>6, <1>8, AtRest


\* seek and seek_for_prev find their place.
LEMMA FindLands ==
  ASSUME IndexSound, NEW i, NEW j, NEW s, NEW b, NEW m, Shoots(i, j, s, b, m),
         i.aim = "find", i.op # "contains",
         NEW p, p = SortedPosition(j.d, j.snap, j.target) + 1,
         NEW g, g = AfterSeek(SkipForward(Placed(j, p)))
  PROVE  ReaderSound(g, s, b, m)
<1>1. /\ j \in ReaderState /\ j.d # Null /\ WasOf(j.d, j.node)
      /\ SnapSound(j) /\ Covers(j, Shown(j), s)
      /\ s \subseteq Contents /\ b \subseteq s /\ (j.found => j.target \in Contents)
      /\ j.target = i.target /\ j.node = i.node /\ j.d = i.d
      /\ j.op \in {"seek", "seekForPrev"} /\ j.target \in Key
  <2>1. UseSound(i) /\ i.pc = "snap" /\ j.op = i.op
    BY DEF Shoots, SameCallOf, ReaderSound
  <2>2. j.op \in {"seek", "seekForPrev"} /\ j.op \in Targeted
    BY <2>1 DEF UseSound, Targeted
  <2> QED
    BY <2>2, SnapTaken DEF Shoots, SameCallOf
<1>2. /\ p \in 1..(Len(j.snap) + 1) /\ p \in Nat /\ j.target \in Nat
      /\ \A a \in 1..(p - 1) : KeyAt(j.d, j.snap, a) < j.target
      /\ p <= Len(j.snap) => KeyAt(j.d, j.snap, p) >= j.target
  BY <1>1, FindsPlace
<1>3. PICK h : h = Placed(j, p)
  OBVIOUS
<1>4. /\ h \in ReaderState /\ SameHand(j, h) /\ SameCallOf(j, h) /\ h.found = j.found /\ h.pos = p
  BY <1>1, <1>2, <1>3, PlacedIs
<1>5. h.d = j.d /\ h.node = j.node /\ h.snap = j.snap /\ h.op = j.op /\ h.target = j.target
  BY <1>4 DEF SameHand, SameCallOf
<1>6. WasOf(h.d, h.node) /\ SnapSound(h) /\ Covers(h, Shown(h), s)
  BY <1>1, <1>4, SameHandSound
<1>7. /\ Len(j.snap) \in Nat
      /\ \A a \in 1..Len(j.snap) : KeyAt(j.d, j.snap, a) \in Nat
      /\ next[j.d] # Null => Start(next[j.d]) \in Nat
      /\ j.node # HeadNode => Start(j.node) \in Nat
  BY <1>1, ShownFacts
<1>8. i.pc = "snap" /\ PlaceSound(i, m) /\ (Contents = b => QuietSound(i, m))
  BY DEF Shoots, ReaderSound
<1>9. ASSUME NEW k \in b, Wanted(h, m, k)
      PROVE  ~Before(k, h.node) /\ \A a \in 1..(h.pos - 1) : KeyAt(h.d, h.snap, a) < k
  <2>1. k \in Nat /\ j.target <= k
    BY <1>1, <1>5, <1>9, Whereabouts DEF Wanted
  <2>2. AtOrBelow(j.node, j.target)
    BY <1>1, <1>8 DEF PlaceSound
  <2>3. ~Before(k, j.node)
    BY <1>2, <1>7, <2>1, <2>2 DEF Before, AtOrBelow
  <2>4. ASSUME NEW a \in 1..(p - 1) PROVE KeyAt(j.d, j.snap, a) < k
    <3>1. a \in 1..Len(j.snap)
      BY <1>2, <1>7
    <3> QED
      BY <1>2, <1>7, <2>1, <3>1
  <2> QED
    BY <1>4, <1>5, <2>3, <2>4
<1>10. ASSUME Contents = b
       PROVE  IF h.pos <= Len(h.snap) THEN Wanted(h, m, KeyOf(h))
              ELSE h.op \in {"seek", "seekForPrev"} /\ next[h.d] # Null =>
                     Before(h.target, next[h.d])
  <2>1. ~AtOrAfter(j.target, next[j.d])
    BY <1>1, <1>8, <1>10 DEF QuietSound
  <2>2. next[j.d] # Null => Before(j.target, next[j.d])
    <3>1. next[j.d] # Null => next[j.d] # HeadNode
      BY <1>1 DEF WasOf
    <3> QED
      BY <1>2, <1>7, <2>1, <3>1 DEF AtOrAfter, Before
  <2>3. h.pos <= Len(h.snap) => Wanted(h, m, KeyOf(h))
    BY <1>1, <1>2, <1>4, <1>5 DEF Wanted, KeyOf
  <2> QED
    BY <1>5, <2>2, <2>3
<1>11. Poised(h, s, b, m)
  BY <1>1, <1>2, <1>4, <1>5, <1>6, <1>9, <1>10 DEF Poised, Upward
<1>12. g = AfterSeek(SkipForward(h))
  BY <1>3
<1> QED
  BY <1>11, <1>12, Lands

\* A call on its way up comes to the front of a node.
LEMMA FrontLands ==
  ASSUME IndexSound, NEW i, NEW j, NEW s, NEW b, NEW m, Shoots(i, j, s, b, m),
         i.aim = "front", NEW g, g = AfterSeek(SkipForward(Placed(j, 1)))
  PROVE  ReaderSound(g, s, b, m)
<1>1. /\ j \in ReaderState /\ j.d # Null /\ WasOf(j.d, j.node)
      /\ SnapSound(j) /\ Covers(j, Shown(j), s)
      /\ s \subseteq Contents /\ b \subseteq s /\ (j.found => j.target \in Contents)
      /\ j.target = i.target /\ j.node = i.node /\ j.d = i.d /\ j.op = i.op
      /\ j.op \in Upward /\ (j.op \in Targeted => j.target \in Key)
  <2>1. UseSound(i) /\ i.pc = "snap" /\ j.op = i.op
    BY DEF Shoots, SameCallOf, ReaderSound
  <2>2. j.op \in Upward
    BY <2>1 DEF UseSound
  <2> QED
    BY <2>1, <2>2, SnapTaken DEF Shoots, SameCallOf
<1>2. PICK h : h = Placed(j, 1)
  OBVIOUS
<1>3. /\ h \in ReaderState /\ SameHand(j, h) /\ SameCallOf(j, h) /\ h.found = j.found /\ h.pos = 1
  BY <1>1, <1>2, PlacedIs
<1>4. h.d = j.d /\ h.node = j.node /\ h.snap = j.snap /\ h.op = j.op /\ h.target = j.target
  BY <1>3 DEF SameHand, SameCallOf
<1>5. WasOf(h.d, h.node) /\ SnapSound(h) /\ Covers(h, Shown(h), s)
  BY <1>1, <1>3, SameHandSound
<1>6. /\ Len(j.snap) \in Nat
      /\ j.node # HeadNode => Len(j.snap) # 0 /\ KeyAt(j.d, j.snap, 1) = Start(j.node)
  BY <1>1, ShownFacts
<1>7. i.pc = "snap" /\ UpSound(i, b, m) /\ (Contents = b => QuietSound(i, m))
  BY DEF Shoots, ReaderSound
<1>8. /\ \A k \in b : Wanted(i, m, k) => ~Before(k, j.node)
      /\ j.op = "next" => Before(m, j.node)
      /\ Contents = b /\ j.op \in {"seek", "seekForPrev"} => Before(j.target, j.node)
  BY <1>1, <1>7 DEF UpSound, QuietSound
<1>9. ASSUME NEW k, Before(k, j.node)
      PROVE  1 <= Len(j.snap) /\ KeyOf(h) > k
  <2>1. j.node # HeadNode /\ k < Start(j.node)
    BY <1>9 DEF Before
  <2> QED
    BY <1>3, <1>4, <1>6, <2>1 DEF KeyOf
<1>10. j.op = "next" =>
         IF h.pos <= Len(h.snap) THEN KeyOf(h) > m ELSE next[h.d] # Null => Before(m, next[h.d])
  BY <1>3, <1>4, <1>8, <1>9
<1>11. ASSUME Contents = b
       PROVE  IF h.pos <= Len(h.snap) THEN Wanted(h, m, KeyOf(h))
              ELSE h.op \in {"seek", "seekForPrev"} /\ next[h.d] # Null =>
                     Before(h.target, next[h.d])
  <2>1. CASE h.op = "next"
    BY <1>3, <1>4, <1>8, <1>9, <2>1 DEF Wanted
  <2>2. CASE h.op \in {"seek", "seekForPrev"}
    <3>1. 1 <= Len(j.snap) /\ KeyOf(h) > j.target
      BY <1>4, <1>8, <1>9, <1>11, <2>2
    <3>2. KeyOf(h) \in Nat /\ j.target \in Nat
      <4>1. 1 \in 1..Len(j.snap)
        BY <1>6, <3>1
      <4>2. KeyAt(j.d, j.snap, 1) \in Nat /\ j.target \in Key
        BY <1>1, <1>4, <2>2, <4>1, ShownFacts DEF Targeted
      <4> QED
        BY <1>3, <1>4, <4>2, SizeFacts DEF KeyOf
    <3> QED
      BY <1>3, <1>4, <2>2, <3>1, <3>2 DEF Wanted
  <2>3. CASE h.op = "seekToFirst"
    BY <2>3 DEF Wanted
  <2> QED
    BY <1>1, <1>4, <2>1, <2>2, <2>3 DEF Upward
<1>12. \A k : Wanted(h, m, k) <=> Wanted(i, m, k)
  BY <1>1, <1>4 DEF Wanted
<1>13. h.pos \in 1..(Len(h.snap) + 1) /\ 1..(h.pos - 1) = {}
  BY <1>3, <1>4, <1>6
<1>14. \A k \in b : Wanted(h, m, k) =>
         ~Before(k, h.node) /\ \A a \in 1..(h.pos - 1) : KeyAt(h.d, h.snap, a) < k
  BY <1>4, <1>8, <1>12, <1>13
<1>15. Poised(h, s, b, m)
  BY <1>1, <1>3, <1>4, <1>5, <1>10, <1>11, <1>13, <1>14 DEF Poised
<1>16. g = AfterSeek(SkipForward(h))
  BY <1>2
<1> QED
  BY <1>15, <1>16, Lands


\* What a call on its way back has, at the node it came to.
LEMMA BackFacts ==
  ASSUME IndexSound, NEW i, NEW j, NEW s, NEW b, NEW m, Shoots(i, j, s, b, m), i.aim = "back"
  PROVE  /\ \/ j.op = "prev" /\ j.rule = "below"
            \/ j.op = "seekToLast" /\ j.rule = "any"
            \/ j.op = "seekForPrev" /\ j.rule \in {"any", "below"}
         /\ j.op = "prev" => m \in Key /\ AtOrAfter(m, next[j.d])
         /\ Contents = b =>
              /\ j.rule = "any" => next[j.d] = Null
              /\ j.rule = "any" /\ j.op = "seekForPrev" => Past(j) = {}
              /\ j.rule = "below" => next[j.d] # Null
              /\ j.rule = "below" /\ j.op = "prev" => m = Start(next[j.d])
              /\ j.rule = "below" /\ j.op = "seekForPrev" =>
                   Before(j.target, next[j.d]) /\ \A k \in Past(j) : ~Before(k, next[j.d])
<1>1. /\ i.pc = "snap" /\ UseSound(i) /\ PlaceSound(i, m) /\ (Contents = b => QuietSound(i, m))
      /\ j.op = i.op /\ j.target = i.target /\ j.rule = i.rule /\ j.d = i.d
  BY DEF Shoots, ReaderSound, SameCallOf
<1>2. \/ j.op = "prev" /\ j.rule = "below"
      \/ j.op = "seekToLast" /\ j.rule = "any"
      \/ j.op = "seekForPrev" /\ j.rule \in {"any", "below"}
  BY <1>1 DEF UseSound
<1>3. j.op = "prev" => m \in Key /\ AtOrAfter(m, next[j.d])
  BY <1>1 DEF PlaceSound
<1>4. Past(j) = Past(i)
  BY <1>1 DEF Past
<1>5. QuietSound(i, m) =>
        /\ j.rule = "any" => next[j.d] = Null
        /\ j.rule = "any" /\ j.op = "seekForPrev" => Past(j) = {}
        /\ j.rule = "below" => next[j.d] # Null
        /\ j.rule = "below" /\ j.op = "prev" => m = Start(next[j.d])
        /\ j.rule = "below" /\ j.op = "seekForPrev" =>
             Before(j.target, next[j.d]) /\ \A k \in Past(j) : ~Before(k, next[j.d])
  BY <1>1, <1>4 DEF QuietSound
<1> QED
  BY <1>1, <1>2, <1>3, <1>5

\* It comes to rest at the back of the node.
LEMMA BackLands ==
  ASSUME IndexSound, NEW i, NEW j, NEW s, NEW b, NEW m, Shoots(i, j, s, b, m),
         i.aim = "back", j.snap # <<>>, NEW g, g = Resting(j, Len(j.snap))
  PROVE  ReaderSound(g, s, b, m)
<1>1. /\ j \in ReaderState /\ j.d # Null /\ WasOf(j.d, j.node)
      /\ SnapSound(j) /\ Covers(j, Shown(j), s)
      /\ s \subseteq Contents /\ b \subseteq s /\ b \subseteq Contents
      /\ j.found => j.target \in Contents
      /\ j.op \in Targeted => j.target \in Key
  BY SnapTaken DEF Shoots
<1>2. PICK n : n = Len(j.snap)
  OBVIOUS
<1>3. /\ n \in Nat /\ n \in 1..n /\ DOMAIN j.snap = 1..n
      /\ next[j.d] # Null => Start(next[j.d]) \in Nat
      /\ j.node # HeadNode => Start(j.node) \in Nat
      /\ \A a \in 1..n :
           /\ KeyAt(j.d, j.snap, a) \in Contents /\ KeyAt(j.d, j.snap, a) \in Nat
           /\ next[j.d] # Null => KeyAt(j.d, j.snap, a) < Start(next[j.d])
           /\ j.node # HeadNode => Start(j.node) <= KeyAt(j.d, j.snap, a)
      /\ \A a, c \in 1..n : a < c => KeyAt(j.d, j.snap, a) < KeyAt(j.d, j.snap, c)
  BY <1>1, <1>2, ShownFacts
<1>4. /\ g \in ReaderState /\ SameHand(j, g) /\ SameCallOf(j, g) /\ g.found = j.found
      /\ g.pc = "idle" /\ g.pos = n
  <2>1. j \in ReaderState /\ n \in Nat /\ g = Resting(j, n)
    BY <1>1, <1>2, <1>3
  <2> QED
    BY <2>1, PosIs
<1>5. g.d = j.d /\ g.node = j.node /\ g.snap = j.snap /\ g.op = j.op /\ g.target = j.target
  BY <1>4 DEF SameHand, SameCallOf
<1>6. PICK x : x = KeyOf(g)
  OBVIOUS
<1>7. Valid(g) /\ x = KeyAt(j.d, j.snap, n) /\ x \in Contents /\ x \in Nat
  BY <1>1, <1>3, <1>4, <1>5, <1>6 DEF Valid, KeyOf
<1>8. HandSound(g, s, b)
  BY <1>1, <1>3, <1>4, <1>5, SameHandSound DEF HandSound
<1>9. ASSUME NEW k \in b, ~AtOrAfter(k, next[j.d]) PROVE k <= x
  <2>1. k \in Nat /\ \/ j.node # HeadNode /\ k < Start(j.node)
                     \/ \E a \in DOMAIN j.snap : k = KeyAt(j.d, j.snap, a)
    BY <1>1, <1>9, Whereabouts DEF AtOrAfter
  <2>2. CASE j.node # HeadNode /\ k < Start(j.node)
    BY <1>3, <1>7, <2>1, <2>2
  <2>3. CASE \E a \in DOMAIN j.snap : k = KeyAt(j.d, j.snap, a)
    <3>1. PICK a \in 1..n : k = KeyAt(j.d, j.snap, a)
      BY <1>3, <2>3
    <3>2. a = n \/ a < n
      BY <1>3
    <3> QED
      BY <1>3, <1>7, <3>1, <3>2
  <2> QED
    BY <2>1, <2>2, <2>3
<1>10. /\ \/ j.op = "prev" /\ j.rule = "below"
          \/ j.op = "seekToLast" /\ j.rule = "any"
          \/ j.op = "seekForPrev" /\ j.rule \in {"any", "below"}
       /\ j.op = "prev" => m \in Key /\ AtOrAfter(m, next[j.d])
       /\ Contents = b =>
            /\ j.rule = "any" => next[j.d] = Null
            /\ j.rule = "any" /\ j.op = "seekForPrev" => Past(j) = {}
            /\ j.rule = "below" => next[j.d] # Null
            /\ j.rule = "below" /\ j.op = "prev" => m = Start(next[j.d])
            /\ j.rule = "below" /\ j.op = "seekForPrev" =>
                 Before(j.target, next[j.d]) /\ \A k \in Past(j) : ~Before(k, next[j.d])
  BY BackFacts
<1>11. next[j.d] # Null => x < Start(next[j.d]) /\ next[j.d] # HeadNode
  BY <1>1, <1>3, <1>7 DEF WasOf
<1>12. \A k \in b : k \in Nat
  BY <1>1, Whereabouts
<1>13. CASE j.op = "seekToLast"
  <2>1. AnswerSound(g, b, m)
    BY <1>5, <1>13 DEF AnswerSound
  <2>2. Contents = b => OnGreatest(g, Contents)
    BY <1>6, <1>7, <1>9, <1>10, <1>13 DEF OnGreatest, AtOrAfter
  <2>3. Contents = b => QuietAnswer(g, m)
    BY <1>5, <1>13, <2>2 DEF QuietAnswer
  <2> QED
    BY <1>1, <1>4, <1>5, <1>8, <2>1, <2>3, AtRest
<1>14. CASE j.op = "prev"
  <2>1. AtOrAfter(m, next[j.d]) /\ m \in Nat
    BY <1>10, <1>14, SizeFacts
  <2>2. x < Start(next[j.d]) /\ Start(next[j.d]) <= m /\ next[j.d] # Null
    BY <1>11, <2>1 DEF AtOrAfter
  <2>3. PICK w : w = Start(next[j.d])
    OBVIOUS
  <2>4. ReaderSound(i, s, b, m) /\ w \in Nat
    BY <1>3, <2>2, <2>3 DEF Shoots
  <2>5. Contents = b => OnGreatest(g, {k \in Contents : k < m})
    <3> SUFFICES ASSUME Contents = b PROVE OnGreatest(g, {k \in Contents : k < m})
      OBVIOUS
    <3>1. m = Start(next[j.d])
      BY <1>10, <1>14
    <3>2. ASSUME NEW k \in Contents, k < m PROVE k <= x
      <4>1. k \in Nat /\ ~AtOrAfter(k, next[j.d])
        BY <1>12, <2>3, <2>4, <3>1, <3>2 DEF AtOrAfter
      <4> QED
        BY <1>9, <4>1
    <3> QED
      BY <1>6, <1>7, <2>2, <3>1, <3>2 DEF OnGreatest
  <2>6. AnswerSound(g, b, m)
    <3>1. x < m
      BY <1>7, <2>1, <2>2, <2>3, <2>4
    <3> QED
      BY <1>5, <1>6, <1>7, <1>14, <3>1 DEF AnswerSound
  <2>7. Contents = b => QuietAnswer(g, m)
    BY <1>5, <1>14, <2>5 DEF QuietAnswer
  <2> QED
    BY <1>1, <1>4, <1>5, <1>8, <2>6, <2>7, AtRest
<1>15. CASE j.op = "seekForPrev"
  <2>1. AnswerSound(g, b, m)
    BY <1>5, <1>15 DEF AnswerSound
  <2>2. j.target \in Nat
    BY <1>1, <1>15, SizeFacts DEF Targeted
  <2>3. Contents = b => OnGreatest(g, {k \in Contents : k <= j.target})
    <3> SUFFICES ASSUME Contents = b PROVE OnGreatest(g, {k \in Contents : k <= j.target})
      OBVIOUS
    <3>1. x <= j.target
      <4>1. x \notin Past(j)
        BY <1>7, <1>10, <1>11, <1>15 DEF Before
      <4> QED
        BY <1>7, <2>2, <4>1 DEF Past
    <3>2. ASSUME NEW k \in Contents, k <= j.target PROVE k <= x
      <4>1. k \in Nat
        BY <1>12
      <4>2. ~AtOrAfter(k, next[j.d])
        BY <1>3, <1>10, <1>15, <2>2, <3>2, <4>1 DEF AtOrAfter, Before
      <4> QED
        BY <1>9, <4>2
    <3> QED
      BY <1>6, <1>7, <3>1, <3>2 DEF OnGreatest
  <2>4. Contents = b => QuietAnswer(g, m)
    BY <1>5, <1>15, <2>3 DEF QuietAnswer
  <2> QED
    BY <1>1, <1>4, <1>5, <1>8, <2>1, <2>4, AtRest
<1> QED
  BY <1>10, <1>13, <1>14, <1>15

\* Or the list is empty.
LEMMA NothingThere ==
  ASSUME IndexSound, NEW i, NEW j, NEW s, NEW b, NEW m, Shoots(i, j, s, b, m),
         i.aim = "back", j.snap = <<>>, NEW g, g = SkipBackward(Placed(j, 0))
  PROVE  ReaderSound(g, s, b, m)
<1>1. /\ j \in ReaderState /\ j.d # Null /\ WasOf(j.d, j.node) /\ Covers(j, Shown(j), s)
      /\ s \subseteq Contents /\ b \subseteq s /\ b \subseteq Contents
      /\ j.found => j.target \in Contents
      /\ j.op \in Targeted => j.target \in Key
      /\ order[j.d] = <<>>
  BY SnapTaken DEF Shoots
<1>2. j.node = HeadNode /\ next[j.d] = Null
  BY <1>1 DEF WasOf
<1>3. b = {}
  <2>1. Shown(j) = {}
    BY DEF Shown
  <2> QED
    BY <1>1, <1>2, <2>1 DEF Covers, Before, AtOrAfter
<1>4. PICK h : h = Placed(j, 0)
  OBVIOUS
<1>5. /\ h \in ReaderState /\ SameHand(j, h) /\ SameCallOf(j, h) /\ h.found = j.found
  BY <1>1, <1>4, PlacedIs
<1>6. g = Ended(h)
  <2>1. h.snap = <<>>
    BY <1>5 DEF SameHand
  <2> QED
    BY <1>4, <2>1 DEF SkipBackward
<1>7. /\ g \in ReaderState /\ SameCallOf(h, g) /\ g.found = h.found /\ g.pc = "idle" /\ g.d = Null
  BY <1>5, <1>6, EndedIs
<1>8. g.op = j.op /\ g.target = j.target /\ g.found = j.found /\ ~Valid(g)
  BY <1>5, <1>7 DEF SameCallOf, Valid
<1>9. /\ \/ j.op = "prev" /\ j.rule = "below"
         \/ j.op = "seekToLast" /\ j.rule = "any"
         \/ j.op = "seekForPrev" /\ j.rule \in {"any", "below"}
      /\ j.op = "prev" => m \in Key /\ AtOrAfter(m, next[j.d])
  BY BackFacts
<1>10. j.op \in {"seekToLast", "seekForPrev"}
  BY <1>2, <1>9 DEF AtOrAfter
<1>11. AnswerSound(g, b, m)
  BY <1>8, <1>10 DEF AnswerSound
<1>12. Contents = b => QuietAnswer(g, m)
  BY <1>3, <1>8, <1>10 DEF QuietAnswer, OnGreatest
<1> QED
  BY <1>1, <1>7, <1>8, <1>11, <1>12, AtRest


-----------------------------------------------------------------------------
(* Steps of a reader.                                                      *)

\* The reader of ReadSound that takes a step, and what it is afterwards.
LEMMA LookupSound ==
  ASSUME ReadSound, NEW r \in Reader, NEW c \in Targeted, NEW k \in Key, Lookup(r, c, k),
         NEW i, i = it'[r], NEW s, s = seen'[r], NEW b, b = base'[r], NEW m
  PROVE  ReaderSound(i, s, b, m)
<1>1. IndexSound /\ DOMAIN it = Reader /\ DOMAIN base = Reader /\ seen[r] \subseteq Contents
  BY DEF ReadSound, ReaderSound
<1>2. PICK j : j = Walking(Asking(c, k), "atOrBelow", "find")
  OBVIOUS
<1>3. it' = [it EXCEPT ![r] = j] /\ base' = [base EXCEPT ![r] = Contents] /\ seen' = seen
  BY <1>2 DEF Lookup, Begin, Asking
<1>4. i = j /\ b = Contents /\ s = seen[r]
  BY <1>1, <1>3
<1>5. ReaderSound(j, s, Contents, m)
  BY <1>1, <1>2, <1>4, LookupStarts
<1> QED
  BY <1>4, <1>5

LEMMA EndsSound ==
  ASSUME ReadSound, NEW r \in Reader, SeekToFirst(r) \/ SeekToLast(r),
         NEW i, i = it'[r], NEW s, s = seen'[r], NEW b, b = base'[r], NEW m
  PROVE  ReaderSound(i, s, b, m)
<1>1. IndexSound /\ DOMAIN it = Reader /\ DOMAIN base = Reader /\ seen[r] \subseteq Contents
  BY DEF ReadSound, ReaderSound
<1>2. PICK f, g : /\ f = Adopting(Turning("seekToFirst"), HeadNode, "front")
                  /\ g = Walking(Turning("seekToLast"), "any", "back")
  OBVIOUS
<1>3. /\ it' = [it EXCEPT ![r] = f] \/ it' = [it EXCEPT ![r] = g]
      /\ base' = [base EXCEPT ![r] = Contents] /\ seen' = seen
  BY <1>2 DEF SeekToFirst, SeekToLast, Begin, Turning
<1>4. (i = f \/ i = g) /\ b = Contents /\ s = seen[r]
  BY <1>1, <1>3
<1>5. ReaderSound(f, s, Contents, m) /\ ReaderSound(g, s, Contents, m)
  BY <1>1, <1>2, <1>4, FirstStarts, LastStarts
<1> QED
  BY <1>4, <1>5

LEMMA StepsSound ==
  ASSUME ReadSound, NEW r \in Reader, NextKey(r) \/ PrevKey(r),
         NEW i, i = it'[r], NEW s, s = seen'[r], NEW b, b = base'[r], NEW m, m = mark'[r]
  PROVE  ReaderSound(i, s, b, m)
<1>1. /\ IndexSound /\ DOMAIN it = Reader /\ DOMAIN base = Reader /\ DOMAIN mark = Reader
      /\ ReaderSound(it[r], seen[r], base[r], mark[r])
  BY DEF ReadSound
<1>2. PICK h, b0, m0 : h = it[r] /\ b0 = base[r] /\ m0 = mark[r]
  OBVIOUS
<1>3. PICK f, g : /\ f = SkipForward(Stepping(h, "next", h.pos + 1))
                  /\ g = Prev(Stepping(h, "prev", h.pos))
  OBVIOUS
<1>4. h.pc = "idle" /\ Valid(h)
  BY <1>2 DEF NextKey, PrevKey, Ready
<1>5. /\ seen' = seen /\ base' = [base EXCEPT ![r] = seen[r]]
      /\ mark' = [mark EXCEPT ![r] = KeyOf(h)]
  BY <1>2, <1>4 DEF NextKey, PrevKey, Begin
<1>6. s = seen[r] /\ b = s /\ m = KeyOf(h)
  BY <1>1, <1>5
<1>7. ReaderSound(h, s, b0, m0)
  BY <1>1, <1>2, <1>6
<1>8. CASE NextKey(r)
  <2>1. it' = [it EXCEPT ![r] = f]
    BY <1>2, <1>3, <1>8 DEF NextKey, Begin, Stepping
  <2>2. i = f
    BY <1>1, <2>1
  <2>3. ReaderSound(f, s, s, KeyOf(h))
    BY <1>1, <1>3, <1>4, <1>7, NextStarts
  <2> QED
    BY <1>6, <2>2, <2>3
<1>9. CASE PrevKey(r)
  <2>1. UseSound(h)
    BY <1>7 DEF ReaderSound
  <2>2. [h EXCEPT !.op = "prev"] = Stepping(h, "prev", h.pos)
    BY <2>1 DEF UseSound, ReaderState, Stepping
  <2>3. it' = [it EXCEPT ![r] = g]
    BY <1>2, <1>3, <1>9, <2>2 DEF PrevKey, Begin
  <2>4. i = g
    BY <1>1, <2>3
  <2>5. ReaderSound(g, s, s, KeyOf(h))
    BY <1>1, <1>3, <1>4, <1>7, PrevStarts
  <2> QED
    BY <1>6, <2>4, <2>5
<1> QED
  BY <1>8, <1>9


LEMMA WalkSound ==
  ASSUME ReadSound, NEW r \in Reader, WalkHop(r) \/ WalkDown(r) \/ WalkArrive(r) \/ Load(r),
         NEW i, i = it'[r], NEW s, s = seen'[r], NEW b, b = base'[r], NEW m, m = mark'[r]
  PROVE  ReaderSound(i, s, b, m)
<1>1. /\ IndexSound /\ DOMAIN it = Reader /\ DOMAIN seen = Reader
      /\ ReaderSound(it[r], seen[r], base[r], mark[r])
  BY DEF ReadSound
<1>2. PICK h, s0 : h = it[r] /\ s0 = seen[r]
  OBVIOUS
<1>3. b = base[r] /\ m = mark[r]
  BY DEF WalkHop, WalkDown, WalkArrive, Load
<1>4. ReaderSound(h, s0, b, m)
  BY <1>1, <1>2, <1>3
<1>5. PICK nx, l : nx = LinkOf(h.cur, h.lv) /\ l = h.lv - 1
  OBVIOUS
<1>6. CASE WalkHop(r)
  <2>1. PICK j : j = [h EXCEPT !.cur = nx]
    OBVIOUS
  <2>2. /\ h.pc = "walk" /\ MayEnter(h, nx) /\ seen' = seen
        /\ it' = [it EXCEPT ![r] = j]
    BY <1>2, <1>5, <1>6, <2>1 DEF WalkHop, Becomes
  <2>3. i = j /\ s = s0
    BY <1>1, <1>2, <2>2
  <2>4. ReaderSound(j, s0, b, m)
    BY <1>1, <1>4, <1>5, <2>1, <2>2, HopLands
  <2> QED
    BY <2>3, <2>4
<1>7. CASE WalkDown(r)
  <2>1. PICK j : j = [h EXCEPT !.lv = l]
    OBVIOUS
  <2>2. /\ h.pc = "walk" /\ h.lv > 0 /\ seen' = seen
        /\ it' = [it EXCEPT ![r] = j]
    BY <1>2, <1>5, <1>7, <2>1 DEF WalkDown, Becomes
  <2>3. i = j /\ s = s0
    BY <1>1, <1>2, <2>2
  <2>4. ReaderSound(j, s0, b, m)
    BY <1>1, <1>4, <1>5, <2>1, <2>2, DownLands
  <2> QED
    BY <2>3, <2>4
<1>8. CASE WalkArrive(r)
  <2>1. PICK j : j = [h EXCEPT !.pc = "load"]
    OBVIOUS
  <2>2. /\ h.pc = "walk" /\ h.lv = 0 /\ ~MayEnter(h, LinkOf(h.cur, h.lv)) /\ seen' = seen
        /\ it' = [it EXCEPT ![r] = j]
    BY <1>2, <1>8, <2>1 DEF WalkArrive, Becomes
  <2>3. i = j /\ s = s0
    BY <1>1, <1>2, <2>2
  <2>4. ReaderSound(j, s0, b, m)
    BY <1>1, <1>4, <2>1, <2>2, ArriveLands
  <2> QED
    BY <2>3, <2>4
<1>9. CASE Load(r)
  <2>1. PICK j : j = [h EXCEPT !.pc = "snap", !.node = h.cur, !.d = data[h.cur]]
    OBVIOUS
  <2>2. /\ h.pc = "load" /\ seen' = [seen EXCEPT ![r] = Contents]
        /\ it' = [it EXCEPT ![r] = j]
    BY <1>2, <1>9, <2>1 DEF Load, Becomes
  <2>3. i = j /\ s = Contents
    BY <1>1, <1>2, <2>2
  <2>4. ReaderSound(j, Contents, b, m)
    BY <1>1, <1>4, <2>1, <2>2, LoadLands
  <2> QED
    BY <2>3, <2>4
<1> QED
  BY <1>6, <1>7, <1>8, <1>9

\* The order word an iterator reads is one.
LEMMA ShotShoots ==
  ASSUME IndexSound, NEW i, NEW s, NEW b, NEW m, ReaderSound(i, s, b, m), i.pc = "snap",
         NEW j, j = Shot(i, order[i.d])
  PROVE  Shoots(i, j, s, b, m)
<1>1. i \in ReaderState /\ WasOf(i.d, i.node)
  BY DEF ReaderSound, UseSound, HandSound
<1>2. order[i.d] \in Seq(Slot)
  BY <1>1, PayloadFacts DEF WasOf, IndexSound, ListSound
<1>3. /\ j \in ReaderState /\ SameCallOf(i, j) /\ j.found = i.found
      /\ j.rule = i.rule /\ j.aim = i.aim /\ j.node = i.node /\ j.d = i.d
      /\ j.snap = order[i.d]
  BY <1>1, <1>2, ShotIs
<1> QED
  BY <1>3 DEF Shoots

LEMMA SnapSounds ==
  ASSUME ReadSound, NEW r \in Reader, Snap(r),
         NEW i, i = it'[r], NEW s, s = seen'[r], NEW b, b = base'[r], NEW m, m = mark'[r]
  PROVE  ReaderSound(i, s, b, m)
<1>1. /\ IndexSound /\ DOMAIN it = Reader
      /\ ReaderSound(it[r], seen[r], base[r], mark[r])
  BY DEF ReadSound
<1>2. PICK h : h = it[r]
  OBVIOUS
<1>3. s = seen[r] /\ b = base[r] /\ m = mark[r] /\ h.pc = "snap"
  BY <1>2 DEF Snap
<1>4. ReaderSound(h, s, b, m)
  BY <1>1, <1>2, <1>3
<1>5. PICK o, j : o = order[h.d] /\ j = Shot(h, order[h.d])
  OBVIOUS
<1>6. Shoots(h, j, s, b, m)
  BY <1>1, <1>3, <1>4, <1>5, ShotShoots
<1>7. j.op = h.op /\ j.target = h.target /\ j.d = h.d /\ j.aim = h.aim /\ j.snap = o
  BY <1>5, <1>6 DEF Shoots, SameCallOf
<1>8. PICK p : p = SortedPosition(j.d, j.snap, j.target) + 1
  OBVIOUS
<1>9. PICK g1, g2, g3, g4, g5 :
        /\ g1 = Answered(j, p <= Len(j.snap) /\ KeyAt(j.d, j.snap, p) = j.target)
        /\ g2 = AfterSeek(SkipForward(Placed(j, p)))
        /\ g3 = AfterSeek(SkipForward(Placed(j, 1)))
        /\ g4 = Resting(j, Len(j.snap))
        /\ g5 = SkipBackward(Placed(j, 0))
  OBVIOUS
<1>10. \/ h.aim = "find" /\ h.op = "contains" /\ it' = [it EXCEPT ![r] = g1]
       \/ h.aim = "find" /\ h.op # "contains" /\ it' = [it EXCEPT ![r] = g2]
       \/ h.aim = "front" /\ it' = [it EXCEPT ![r] = g3]
       \/ h.aim = "back" /\ o # <<>> /\ it' = [it EXCEPT ![r] = g4]
       \/ h.aim = "back" /\ o = <<>> /\ it' = [it EXCEPT ![r] = g5]
  <2>1. LET x == Shot(h, o)
            q == SortedPosition(x.d, o, x.target) + 1
        IN  \/ /\ x.aim = "find" /\ x.op = "contains"
               /\ it' = [it EXCEPT ![r] = Answered(x, q <= Len(o) /\ KeyAt(x.d, o, q) = x.target)]
            \/ /\ x.aim = "find" /\ x.op # "contains"
               /\ it' = [it EXCEPT ![r] = AfterSeek(SkipForward(Placed(x, q)))]
            \/ /\ x.aim = "front"
               /\ it' = [it EXCEPT ![r] = AfterSeek(SkipForward(Placed(x, 1)))]
            \/ /\ x.aim = "back" /\ o # <<>>
               /\ it' = [it EXCEPT ![r] = Resting(x, Len(o))]
            \/ /\ x.aim = "back" /\ o = <<>>
               /\ it' = [it EXCEPT ![r] = SkipBackward(Placed(x, 0))]
    BY <1>2, <1>5, Zenon DEF Snap, Becomes, Shot, Answered, Placed, Resting
  <2> QED
    BY <1>5, <1>7, <1>8, <1>9, <2>1
<1>11. ASSUME NEW g, it' = [it EXCEPT ![r] = g] PROVE i = g
  BY <1>1, <1>11
<1>12. CASE h.aim = "find" /\ h.op = "contains" /\ it' = [it EXCEPT ![r] = g1]
  BY <1>1, <1>6, <1>8, <1>9, <1>11, <1>12, ContainsLands
<1>13. CASE h.aim = "find" /\ h.op # "contains" /\ it' = [it EXCEPT ![r] = g2]
  BY <1>1, <1>6, <1>8, <1>9, <1>11, <1>13, FindLands
<1>14. CASE h.aim = "front" /\ it' = [it EXCEPT ![r] = g3]
  BY <1>1, <1>6, <1>9, <1>11, <1>14, FrontLands
<1>15. CASE h.aim = "back" /\ o # <<>> /\ it' = [it EXCEPT ![r] = g4]
  BY <1>1, <1>6, <1>7, <1>9, <1>11, <1>15, BackLands
<1>16. CASE h.aim = "back" /\ o = <<>> /\ it' = [it EXCEPT ![r] = g5]
  BY <1>1, <1>6, <1>7, <1>9, <1>11, <1>16, NothingThere
<1> QED
  BY <1>10, <1>12, <1>13, <1>14, <1>15, <1>16


LEMMA CallSound ==
  ASSUME ReadSound, NEW r \in Reader, Call(r) \/ ReadStep(r),
         NEW i, i = it'[r], NEW s, s = seen'[r], NEW b, b = base'[r], NEW m, m = mark'[r]
  PROVE  ReaderSound(i, s, b, m)
<1>1. CASE ContainsTarget(r) \/ Seek(r) \/ SeekForPrev(r)
  <2>1. PICK c \in Targeted, k \in Key : Lookup(r, c, k)
    BY <1>1 DEF ContainsTarget, Seek, SeekForPrev, Targeted
  <2> QED
    BY <2>1, LookupSound
<1>2. CASE SeekToFirst(r) \/ SeekToLast(r)
  BY <1>2, EndsSound
<1>3. CASE NextKey(r) \/ PrevKey(r)
  BY <1>3, StepsSound
<1>4. CASE ReadStep(r)
  BY <1>4, WalkSound, SnapSounds DEF ReadStep
<1> QED
  BY <1>1, <1>2, <1>3, <1>4 DEF Call

\* A step of a reader is its own affair.
LEMMA OwnAffair ==
  ASSUME ReadSound, NEW r \in Reader, Call(r) \/ ReadStep(r)
  PROVE  /\ UNCHANGED vars
         /\ DOMAIN it' = Reader /\ DOMAIN seen' = Reader
         /\ DOMAIN base' = Reader /\ DOMAIN mark' = Reader
         /\ \A q \in Reader \ {r} : /\ it'[q] = it[q] /\ seen'[q] = seen[q]
                                    /\ base'[q] = base[q] /\ mark'[q] = mark[q]
<1>1. DOMAIN it = Reader /\ DOMAIN seen = Reader /\ DOMAIN base = Reader /\ DOMAIN mark = Reader
  BY DEF ReadSound
<1>2. ASSUME NEW i, NEW c, Begin(r, i, c)
      PROVE  /\ UNCHANGED vars
             /\ DOMAIN it' = Reader /\ DOMAIN seen' = Reader
             /\ DOMAIN base' = Reader /\ DOMAIN mark' = Reader
             /\ \A q \in Reader \ {r} : /\ it'[q] = it[q] /\ seen'[q] = seen[q]
                                        /\ base'[q] = base[q] /\ mark'[q] = mark[q]
  BY <1>1, <1>2 DEF Begin
<1>3. CASE Call(r)
  <2>1. \E i, c : Begin(r, i, c)
    BY <1>3, Zenon
       DEF Call, ContainsTarget, Seek, SeekForPrev, Lookup, SeekToFirst, SeekToLast, NextKey, PrevKey
  <2> QED
    BY <1>2, <2>1
<1>4. CASE ReadStep(r)
  <2>1. /\ \E i : it' = [it EXCEPT ![r] = i]
        /\ UNCHANGED <<vars, base, mark>>
        /\ seen' = seen \/ seen' = [seen EXCEPT ![r] = Contents]
    BY <1>4, Zenon DEF ReadStep, WalkHop, WalkDown, WalkArrive, Load, Snap, Becomes
  <2> QED
    BY <1>1, <2>1
<1> QED
  BY <1>3, <1>4

LEMMA NextIsNext == [NextReader]_allVars /\ ReadSound => [Next]_vars
<1> SUFFICES ASSUME [NextReader]_allVars, ReadSound PROVE [Next]_vars
  OBVIOUS
<1>1. CASE \E r \in Reader : Call(r) \/ ReadStep(r)
  BY <1>1, OwnAffair
<1>2. CASE Next \/ UNCHANGED allVars
  BY <1>2 DEF allVars
<1> QED
  BY <1>1, <1>2 DEF NextReader

LEMMA ReadInit == InitReader => ReadSound
<1> SUFFICES ASSUME InitReader PROVE ReadSound
  OBVIOUS
<1>1. IndexSound
  BY OwnershipInit, ListOrderInit, TowerInit DEF InitReader, IndexSound, ListSound
<1>2. PICK i : i = Fresh
  OBVIOUS
<1>3. /\ i \in ReaderState /\ i.op = "none" /\ i.pc = "idle" /\ i.d = Null /\ ~i.found
  <2>1. <<>> \in Seq(Slot) /\ 0 \in Nat /\ Null \in Nat
    BY DEF Null
  <2> QED
    BY <1>2, <2>1 DEF Fresh, ReaderState, Ops
<1>4. i.op \notin Targeted
  BY <1>3 DEF Targeted
<1>5. AnswerSound(i, {}, Null) /\ QuietAnswer(i, Null)
  BY <1>3 DEF AnswerSound, QuietAnswer
<1>6. ReaderSound(i, {}, {}, Null)
  BY <1>3, <1>4, <1>5, AtRest
<1> QED
  BY <1>1, <1>2, <1>6 DEF ReadSound, InitReader

LEMMA ReadStays ==
  ASSUME ReadSound, [NextReader]_allVars
  PROVE  ReadSound'
<1>1. IndexSound /\ [Next]_vars /\ IndexSound'
  BY NextIsNext, TowerStep DEF ReadSound
<1>2. DOMAIN it' = Reader /\ DOMAIN seen' = Reader /\ DOMAIN base' = Reader /\ DOMAIN mark' = Reader
  <2>1. CASE \E r \in Reader : Call(r) \/ ReadStep(r)
    BY <2>1, OwnAffair
  <2>2. CASE UNCHANGED readerVars
    BY <2>2 DEF readerVars, ReadSound
  <2> QED
    BY <2>1, <2>2 DEF NextReader, allVars
<1>3. ASSUME NEW q \in Reader PROVE ReaderSound(it[q], seen[q], base[q], mark[q])'
  <2>1. PICK i, s, b, m : i = it'[q] /\ s = seen'[q] /\ b = base'[q] /\ m = mark'[q]
    OBVIOUS
  <2>2. ReaderSound(it[q], seen[q], base[q], mark[q])
    BY DEF ReadSound
  <2>3. ReaderSound(i, s, b, m)
    <3>1. CASE Call(q) \/ ReadStep(q)
      BY <2>1, <3>1, CallSound
    <3>2. CASE \E r \in Reader \ {q} : Call(r) \/ ReadStep(r)
      <4>1. it'[q] = it[q] /\ seen'[q] = seen[q] /\ base'[q] = base[q] /\ mark'[q] = mark[q]
        BY <3>2, OwnAffair
      <4> QED
        BY <2>1, <2>2, <4>1
    <3>3. CASE UNCHANGED readerVars
      BY <2>1, <2>2, <3>3 DEF readerVars
    <3> QED
      BY <3>1, <3>2, <3>3 DEF NextReader, allVars
  <2>4. ReaderSound(i, s, b, m)'
    BY <1>1, <2>3, ReaderStays
  <2> QED
    BY <2>1, <2>4
<1> QED
  BY <1>1, <1>2, <1>3 DEF ReadSound

\* Every iterator is sound, whatever writers and other readers do: its payload is
\* or was that of its node, its snapshot shows the payload's keys in order, and
\* with the payload's link accounts for all keys there were from the node on.
THEOREM ReadSoundHolds == SpecReader => []ReadSound
<1>1. InitReader => ReadSound
  BY ReadInit
<1>2. ReadSound /\ [NextReader]_allVars => ReadSound'
  BY ReadStays
<1> QED
  BY <1>1, <1>2, PTL DEF SpecReader


-----------------------------------------------------------------------------
(* What readers answer.                                                    *)

LEMMA ContentsAreKeys ==
  ASSUME IndexSound
  PROVE  Contents \subseteq Key /\ Contents \subseteq Nat /\ Null \notin Contents
<1>1. ASSUME NEW k \in Contents PROVE k \in Key
  <2>1. PICK n \in Linked : k \in held[data[n]]
    BY ContentsHeld DEF IndexSound, ListSound
  <2>2. data[n] \in Payload /\ Ownership
    BY NodeFacts DEF Linked, IndexSound, ListSound
  <2> QED
    BY <2>1, <2>2, PayloadFacts
<1> QED
  BY <1>1, SizeFacts

\* A key an iterator rests on is in the table.
LEMMA AtRestSeen == ASSUME ReadSound PROVE NoPhantoms
<1> SUFFICES ASSUME ReadSound, NEW r \in Reader, it[r].pc = "idle"
             PROVE  /\ Valid(it[r]) => KeyOf(it[r]) \in Contents \ {Null}
                    /\ it[r].found => it[r].target \in Contents
  BY DEF NoPhantoms
<1>1. IndexSound /\ ReaderSound(it[r], seen[r], base[r], mark[r])
  BY DEF ReadSound
<1>2. it[r].found => it[r].target \in Contents
  BY <1>1 DEF ReaderSound
<1>3. ASSUME Valid(it[r]) PROVE KeyOf(it[r]) \in Contents
  <2>1. /\ it[r] \in ReaderState /\ WasOf(it[r].d, it[r].node) /\ SnapSound(it[r])
        /\ it[r].pos \in 1..Len(it[r].snap)
    BY <1>1, <1>3, AtKey
  <2> QED
    BY <1>1, <2>1, ShownFacts DEF KeyOf
<1> QED
  BY <1>1, <1>2, <1>3, ContentsAreKeys

\* A key a reader reports has been inserted, and so has one it says is present,
\* at any moment and among any writers.
THEOREM ReadersSeeNoPhantoms == SpecReader => []NoPhantoms
BY AtRestSeen, ReadSoundHolds, PTL

\* The least of a set is its minimum, the greatest its maximum.
LEMMA LeastIsMin ==
  ASSUME NEW r \in Reader, NEW S, S \subseteq Nat
  PROVE  /\ OnLeast(it[r], S) => AtLeast(r, S)
         /\ OnGreatest(it[r], S) => AtGreatest(r, S)
<1>1. PICK x : x = KeyOf(it[r])
  OBVIOUS
<1>2. ASSUME Valid(it[r]), OnLeast(it[r], S) PROVE AtLeast(r, S)
  <2>1. x \in S /\ \A y \in S : x <= y
    BY <1>1, <1>2 DEF OnLeast
  <2>2. \A z \in S : (\A y \in S : z <= y) => z = x
    BY <2>1
  <2>3. x = Min(S)
    BY <2>1, <2>2 DEF Min
  <2> QED
    BY <1>1, <1>2, <2>1, <2>3 DEF AtLeast
<1>3. ASSUME Valid(it[r]), OnGreatest(it[r], S) PROVE AtGreatest(r, S)
  <2>1. x \in S /\ \A y \in S : x >= y
    BY <1>1, <1>3 DEF OnGreatest
  <2>2. \A z \in S : (\A y \in S : z >= y) => z = x
    BY <2>1
  <2>3. x = Max(S)
    BY <2>1, <2>2 DEF Max
  <2> QED
    BY <1>1, <1>3, <2>1, <2>3 DEF AtGreatest
<1>4. CASE ~Valid(it[r])
  BY <1>4 DEF OnLeast, OnGreatest, AtLeast, AtGreatest
<1> QED
  BY <1>2, <1>3, <1>4

\* When no insert took effect during a call, the answer is exact, whatever half
\* done inserts and linking it met.
THEOREM QuietAnswersAreExact == SpecReader => []ExactWhenQuiet
<1>1. ReadSound => ExactWhenQuiet
  <2> SUFFICES ASSUME ReadSound, NEW r \in Reader, Contents = base[r], it[r].pc = "idle"
               PROVE  /\ it[r].op = "contains" => it[r].found = (it[r].target \in Contents)
                      /\ it[r].op = "seek" => AtLeast(r, {k \in Contents : k >= it[r].target})
                      /\ it[r].op = "seekForPrev" =>
                           AtGreatest(r, {k \in Contents : k <= it[r].target})
                      /\ it[r].op = "seekToFirst" => AtLeast(r, Contents)
                      /\ it[r].op = "seekToLast" => AtGreatest(r, Contents)
                      /\ it[r].op = "next" => AtLeast(r, {k \in Contents : k > mark[r]})
                      /\ it[r].op = "prev" => AtGreatest(r, {k \in Contents : k < mark[r]})
    BY DEF ExactWhenQuiet, Done
  <2>1. IndexSound /\ ReaderSound(it[r], seen[r], base[r], mark[r])
    BY DEF ReadSound
  <2>2. QuietAnswer(it[r], mark[r]) /\ (it[r].found => it[r].target \in Contents)
        /\ it[r].found \in BOOLEAN
    BY <2>1 DEF ReaderSound, UseSound, ReaderState
  <2>3. Contents \subseteq Nat
    BY <2>1, ContentsAreKeys
  <2>4. it[r].op = "contains" => it[r].found = (it[r].target \in Contents)
    <3>1. it[r].op = "contains" => (it[r].found <=> it[r].target \in Contents)
      BY <2>2 DEF QuietAnswer
    <3> QED
      BY <2>2, <3>1
  <2>5. /\ it[r].op = "seek" => OnLeast(it[r], {k \in Contents : k >= it[r].target})
        /\ it[r].op = "seekForPrev" => OnGreatest(it[r], {k \in Contents : k <= it[r].target})
        /\ it[r].op = "seekToFirst" => OnLeast(it[r], Contents)
        /\ it[r].op = "seekToLast" => OnGreatest(it[r], Contents)
        /\ it[r].op = "next" => OnLeast(it[r], {k \in Contents : k > mark[r]})
        /\ it[r].op = "prev" => OnGreatest(it[r], {k \in Contents : k < mark[r]})
    BY <2>2 DEF QuietAnswer, Past
  <2>6. ASSUME NEW P(_)
        PROVE  /\ OnLeast(it[r], {k \in Contents : P(k)}) => AtLeast(r, {k \in Contents : P(k)})
               /\ OnGreatest(it[r], {k \in Contents : P(k)}) =>
                    AtGreatest(r, {k \in Contents : P(k)})
    <3>1. {k \in Contents : P(k)} \subseteq Nat
      BY <2>3
    <3> QED
      BY <3>1, LeastIsMin
  <2> QED
    BY <2>3, <2>4, <2>5, <2>6, LeastIsMin
<1> QED
  BY <1>1, ReadSoundHolds, PTL

\* Moving forward never leaves a key out, also while nodes split under the reader.
THEOREM NothingSkippedForward == SpecReader => []ForwardSkipsNothing
<1>1. ReadSound => ForwardSkipsNothing
  <2> SUFFICES ASSUME ReadSound, NEW r \in Reader, it[r].pc = "idle",
                      it[r].op \in {"next", "seek", "seekToFirst"},
                      NEW k \in base[r], Passed(r, k)
               PROVE  Valid(it[r]) /\ KeyOf(it[r]) <= k
    BY DEF ForwardSkipsNothing, Done
  <2>1. AnswerSound(it[r], base[r], mark[r])
    BY DEF ReadSound, ReaderSound
  <2>2. Wanted(it[r], mark[r], k)
    BY DEF Passed, Wanted
  <2> QED
    BY <2>1, <2>2 DEF AnswerSound
<1> QED
  BY <1>1, ReadSoundHolds, PTL

\* next only moves up, prev only down, and prev runs off the front only when
\* nothing is below.
THEOREM StepsMoveTheirWay == SpecReader => []StepsAreMonotone
<1>1. ReadSound => StepsAreMonotone
  BY DEF ReadSound, ReaderSound, AnswerSound, StepsAreMonotone, Done
<1> QED
  BY <1>1, ReadSoundHolds, PTL

\* The key of an iterator stays while the iterator does.
LEMMA KeyRests ==
  ASSUME ReadSound, [NextReader]_allVars, NEW r \in Reader,
         it[r].pc = "idle", Valid(it[r]), it'[r] = it[r]
  PROVE  KeyOf(it[r])' = KeyOf(it[r])
<1>1. PICK i, s, b, m : i = it[r] /\ s = seen[r] /\ b = base[r] /\ m = mark[r]
  OBVIOUS
<1>2. IndexSound /\ [Next]_vars /\ ReaderSound(i, s, b, m)
  BY <1>1, NextIsNext DEF ReadSound
<1>3. /\ i.d # Null /\ i.snap \in Seq(Slot) /\ i.pos \in DOMAIN i.snap /\ i.pc # "snap"
      /\ s \subseteq Contents /\ HandSound(i, s, b)
  BY <1>1, <1>2 DEF Valid, ReaderSound, UseSound, ReaderState
<1>4. KeyAt(i.d, i.snap, i.pos)' = KeyAt(i.d, i.snap, i.pos)
  BY <1>2, <1>3, HandStays
<1> QED
  BY <1>1, <1>4 DEF KeyOf

\* The key of a resting iterator changes only by its own calls.
THEOREM RestingKeysStay == SpecReader => RestingKeyIsStable
<1>1. ReadSound /\ [NextReader]_allVars =>
        [\A r \in Reader :
           it[r].pc = "idle" /\ Valid(it[r]) /\ it'[r] = it[r] => KeyOf(it[r])' = KeyOf(it[r])]_allVars
  BY KeyRests
<1> QED
  BY <1>1, ReadSoundHolds, PTL DEF SpecReader, RestingKeyIsStable
=============================================================================
