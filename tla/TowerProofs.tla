---------------------------- MODULE TowerProofs -----------------------------
(***************************************************************************)
(* For every number of writers, every set of keys and every capacity and   *)
(* height: the tower of Memtable leads forward between nodes of the list,  *)
(* linking a sibling never unlinks another node, every node of the list is *)
(* reached, and a descent ends at the node that holds its key, whatever    *)
(* splits and links meanwhile (TowerInvariant has the inductive            *)
(* invariant).                                                             *)
(***************************************************************************)
EXTENDS ListProofs, TowerInvariant, FiniteSetTheorems, WellFoundedInduction

-----------------------------------------------------------------------------
(* Nodes and their first keys.                                             *)

\* A node other than the head has a payload, and keys in it.
LEMMA NodeFacts ==
  ASSUME ListSound, NEW n \in Node
  PROVE  /\ data[n] \in Payload
         /\ n # HeadNode => /\ order[data[n]] # <<>> /\ Start(n) \in held[data[n]]
                            /\ Start(n) \in Key /\ Start(n) \in Nat
                            /\ \A k \in held[data[n]] : Start(n) <= k
<1>1. data[n] \in Payload /\ (n # HeadNode => order[data[n]] # <<>>)
  BY DEF ListSound, ListOrder, LinksForward, Ownership, PointersOK
<1> QED
  BY <1>1, FirstIsLeast, SizeFacts DEF ListSound, ListOrder, Start

LEMMA HeightRange ==
  ASSUME Ownership, NEW n \in Node
  PROVE  height[n] \in 1..MaxHeight /\ height[n] \in Nat
<1>1. height \in Seq(1..MaxHeight) /\ n \in 1..Len(height)
  BY DEF Ownership, TypeOK, PointersOK, Node
<1> QED
  BY <1>1, ElementOfSeq, SizeFacts

\* The next node of level 0 is a node of the list, and begins above this one.
LEMMA NextFacts ==
  ASSUME ListSound, NEW n \in Node, next[data[n]] # Null
  PROVE  /\ next[data[n]] \in Linked /\ next[data[n]] \in Node \ {HeadNode}
         /\ Behind(n, Start(next[data[n]]))
         /\ \A k \in held[data[n]] : k < Start(next[data[n]])
<1>1. next[data[n]] \in Node \ {HeadNode}
  BY DEF ListSound, ListOrder, LinksForward, Ownership, PointersOK
<1>2. next[data[n]] \in Linked
  <2>1. ASSUME NEW v \in Writer, pc[v] \in Building PROVE next[data[n]] # loc[v].sib
    BY <2>1, NodeFacts DEF ListSound, ListOrder, SiblingsHidden, Ownership, PayloadsOK
  <2> QED
    BY <1>1, <2>1 DEF Linked
<1>3. \A k \in held[data[n]] : k < Start(next[data[n]])
  BY DEF ListSound, ListOrder, LinksForward, Start
<1>4. Behind(n, Start(next[data[n]]))
  BY <1>3, NodeFacts DEF Behind
<1> QED
  BY <1>1, <1>2, <1>3, <1>4

\* Nodes of the list that begin with the same key are one.
LEMMA StartsApart ==
  ASSUME ListSound, NEW m \in Linked \ {HeadNode}, NEW n \in Linked \ {HeadNode},
         Start(m) = Start(n)
  PROVE  m = n
<1>1. m \in Node /\ n \in Node
  BY DEF Linked
<1>2. Start(m) \in held[data[m]] /\ Start(n) \in held[data[n]]
  BY <1>1, NodeFacts
<1> QED
  BY <1>2 DEF ListSound, ListOrder, NodesDisjoint

\* No step moves the start of a node but the head's.
LEMMA StartStays ==
  ASSUME ListSound, [Next]_vars, NEW n \in Node \ {HeadNode}
  PROVE  Start(n)' = Start(n)
BY NodeFacts, FirstKeyStep DEF Start

\* Nor what is behind a key.
LEMMA BehindStays ==
  ASSUME ListSound, [Next]_vars, NEW n \in Node, NEW k
  PROVE  Behind(n, k)' <=> Behind(n, k)
BY StartStays DEF Behind

-----------------------------------------------------------------------------
(* Steps that leave the links alone.                                       *)

\* No link changes, nobody begins or ends a split, and whoever is in one stays
\* where he is.
Aside ==
  /\ UNCHANGED <<next, data, height, tower>>
  /\ \A v \in Writer :
       /\ pc'[v] \in Building <=> pc[v] \in Building
       /\ pc'[v] \in Linking <=> pc[v] \in Linking
       /\ pc[v] \in Linking => pc'[v] = pc[v]
       /\ pc[v] \in Splitting => loc'[v] = loc[v]

\* The sibling of a split keeps the first key it was built with.
LEMMA SiblingStays ==
  ASSUME IndexSound, [Next]_vars, NEW v \in Writer, pc[v] \in Splitting,
         loc'[v].sib = loc[v].sib, loc'[v].right = loc[v].right
  PROVE  /\ \E r \in DOMAIN order'[loc'[v].right] : order'[loc'[v].right][r] = 1
         /\ LinkKey(v)' = Start(loc[v].sib)'
         /\ LinkKey(v)' = LinkKey(v)
<1>1. loc[v].right \in Payload /\ loc[v].sib \in Node \ {HeadNode}
  BY DEF IndexSound, ListSound, ListOrder, LinksForward, Ownership, LocalOK
<1>2. PICK r \in DOMAIN order[loc[v].right] : order[loc[v].right][r] = 1
  BY DEF IndexSound, TowerOrder, SiblingsApart
<1>3. Frozen(loc[v].right)
  BY <1>1, SnapshotStep DEF IndexSound, ListSound
<1>4. LinkKey(v)' = LinkKey(v)
  BY <1>2, <1>3 DEF Frozen, LinkKey
<1>5. \E s \in DOMAIN order'[loc[v].right] : order'[loc[v].right][s] = 1
  BY <1>2, <1>3 DEF Frozen, ToSet
<1>6. LinkKey(v) = Start(loc[v].sib) /\ Start(loc[v].sib)' = Start(loc[v].sib)
  BY <1>1, StartStays DEF IndexSound, TowerOrder, SiblingsApart
<1> QED
  BY <1>4, <1>5, <1>6 DEF Start

\* What is said of the nodes and links stays true.
LEMMA AsideNodes ==
  ASSUME IndexSound, [Next]_vars, Aside
  PROVE  Node' = Node /\ Linked' = Linked /\ Gapless' /\ TowerForward'
<1>1. Node' = Node /\ Linked' = Linked /\ Linked \subseteq Node
  <2>1. \A v \in Writer : /\ pc'[v] \in Building <=> pc[v] \in Building
                          /\ pc[v] \in Building => loc'[v].sib = loc[v].sib
    BY DEF Aside, Building, Splitting
  <2> QED
    BY <2>1 DEF Aside, Node, Linked, Building
<1>2. Gapless'
  <2> SUFFICES ASSUME NEW m \in Linked, NEW n \in Linked, m # HeadNode, Behind(n, Start(m))'
               PROVE  (next[data[n]] # Null /\ Start(next[data[n]]) <= Start(m))'
    BY <1>1 DEF Gapless
  <2>1. Start(m)' = Start(m) /\ Behind(n, Start(m))
    BY <1>1, StartStays DEF Behind, IndexSound
  <2>2. next[data[n]] # Null /\ Start(next[data[n]]) <= Start(m)
    BY <2>1 DEF IndexSound, TowerOrder, Gapless
  <2>3. Start(next[data[n]])' = Start(next[data[n]])
    <3>1. PICK x : x = next[data[n]]
      OBVIOUS
    <3>2. x \in Node \ {HeadNode} /\ next'[data'[n]] = x
      BY <1>1, <2>2, <3>1, NextFacts DEF IndexSound, Aside
    <3>3. Start(x)' = Start(x)
      BY <3>2, StartStays DEF IndexSound
    <3> QED
      BY <3>1, <3>2, <3>3 DEF Start
  <2> QED
    BY <2>1, <2>2, <2>3 DEF Aside
<1>3. TowerForward'
  <2>1. height'[HeadNode] = MaxHeight
    BY DEF IndexSound, TowerOrder, TowerForward, Aside
  <2>2. ASSUME NEW n \in Node, NEW l \in Level, NEW m, m = tower[n][l], m # Null
        PROVE  m \in Linked /\ l < height[n] /\ l < height[m] /\ Behind(n, Start(m))'
    <3>1. m \in Linked /\ l < height[n] /\ l < height[m] /\ Behind(n, Start(m))
      BY <2>2 DEF IndexSound, TowerOrder, TowerForward
    <3>2. m \in Node \ {HeadNode}
      BY <1>1, <2>2, <3>1 DEF IndexSound, ListSound, ListOrder, LinksForward
    <3>3. Start(m)' = Start(m)
      BY <3>2, StartStays DEF IndexSound
    <3> QED
      BY <3>1, <3>3, StartStays DEF Behind, IndexSound
  <2> QED
    BY <1>1, <2>1, <2>2 DEF TowerForward, Aside, Level, Behind, Start
<1> QED
  BY <1>1, <1>2, <1>3


\* So does what is said of those who split and link.
LEMMA AsideLinkers ==
  ASSUME IndexSound, [Next]_vars, Aside
  PROVE  SiblingsApart' /\ LinkersPlaced'
<1>1. \A v \in Writer : /\ pc'[v] \in Splitting <=> pc[v] \in Splitting
                        /\ pc'[v] \in Linking <=> pc[v] \in Linking
                        /\ pc[v] \in Linking => pc[v] \in Splitting /\ pc'[v] = pc[v]
                        /\ pc[v] \in Splitting => loc'[v] = loc[v]
  BY DEF Aside, Building, Splitting, Linking
<1>2. SiblingsApart'
  <2> SUFFICES ASSUME NEW w \in Writer, pc'[w] \in Splitting
               PROVE  /\ \A v \in Writer : pc'[v] \in Splitting /\ loc'[v].sib = loc'[w].sib => v = w
                      /\ \E r \in DOMAIN order'[loc'[w].right] : order'[loc'[w].right][r] = 1
                      /\ LinkKey(w)' = Start(loc[w].sib)'
    BY DEF SiblingsApart, Splitting, Building, Linking, Start
  <2>1. pc[w] \in Splitting /\ loc'[w] = loc[w]
    BY <1>1
  <2>2. \A v \in Writer : pc'[v] \in Splitting /\ loc'[v].sib = loc'[w].sib => v = w
    BY <1>1, <2>1 DEF IndexSound, TowerOrder, SiblingsApart
  <2> QED
    BY <2>1, <2>2, SiblingStays
<1>3. LinkersPlaced'
  <2> SUFFICES ASSUME NEW w \in Writer, pc'[w] \in Linking,
                      NEW l, l = loc'[w].lv
               PROVE  /\ loc'[w].goal <= l /\ (pc'[w] # "find" => l = loc'[w].goal)
                      /\ loc'[w].goal < height'[loc'[w].sib]
                      /\ \A n \in Node', k \in Level : tower'[n][k] = loc'[w].sib => k < loc'[w].goal
                      /\ loc'[w].pred \in Linked' /\ l < height'[loc'[w].pred]
                      /\ Behind(loc[w].pred, LinkKey(w))'
                      /\ \A v \in Writer : pc'[v] \in Linking /\ loc'[v].sib = loc'[w].pred =>
                           l < loc'[v].goal
                      /\ pc'[w] = "cas" => tower'[loc'[w].sib][loc'[w].goal] = loc'[w].nx
    BY DEF LinkersPlaced, Linking, Level
  <2>1. pc[w] \in Linking /\ pc'[w] = pc[w] /\ loc'[w] = loc[w] /\ pc[w] \in Splitting
    BY <1>1
  <2>2. /\ loc[w].goal <= l /\ (pc[w] # "find" => l = loc[w].goal)
        /\ loc[w].goal < height[loc[w].sib]
        /\ \A n \in Node, k \in Level : tower[n][k] = loc[w].sib => k < loc[w].goal
        /\ loc[w].pred \in Linked /\ l < height[loc[w].pred]
        /\ Behind(loc[w].pred, LinkKey(w))
        /\ \A v \in Writer : pc[v] \in Linking /\ loc[v].sib = loc[w].pred => l < loc[v].goal
        /\ pc[w] = "cas" => tower[loc[w].sib][loc[w].goal] = loc[w].nx
    BY <2>1, Zenon DEF IndexSound, TowerOrder, LinkersPlaced
  <2>3. UNCHANGED <<height, tower>> /\ Node' = Node /\ Linked' = Linked
    BY AsideNodes DEF Aside
  <2>4. Behind(loc[w].pred, LinkKey(w))'
    <3>1. LinkKey(w)' = LinkKey(w)
      BY <2>1, SiblingStays
    <3>2. PICK n, k : n = loc[w].pred /\ k = LinkKey(w)
      OBVIOUS
    <3>3. n \in Node /\ Behind(n, k)
      BY <2>2, <3>2 DEF Linked
    <3>4. Behind(n, k)'
      BY <3>3, BehindStays DEF IndexSound
    <3> QED
      BY <2>1, <3>1, <3>2, <3>4 DEF Behind, Start
  <2>5. \A v \in Writer : pc'[v] \in Linking /\ loc'[v].sib = loc'[w].pred => l < loc'[v].goal
    BY <1>1, <2>1, <2>2
  <2> QED
    BY <2>1, <2>2, <2>3, <2>4, <2>5
<1> QED
  BY <1>2, <1>3


\* Every step but those of a split and of linking.
LEMMA AsideSteps ==
  ASSUME IndexSound, NEW w \in Writer,
         \/ HopForward(w) \/ HopDown(w) \/ Arrive(w) \/ Acquire(w) \/ Backout(w) \/ Admit(w)
         \/ AppendSlot(w) \/ AppendHint(w) \/ AppendOrder(w) \/ SplitHint(w) \/ Unlock(w)
         \/ AllocationThrows(w) \/ \E k \in Key : Insert(w, k)
  PROVE  Aside
<1>1. pc \in [Writer -> Label] /\ loc \in [Writer -> Local]
  BY DEF IndexSound, ListSound, Ownership, TypeOK
<1>2. UNCHANGED <<next, data, height, tower>>
  BY DEF HopForward, HopDown, Arrive, Acquire, Backout, Admit, AppendSlot, AppendHint, AppendOrder,
         SplitHint, Unlock, AllocationThrows, Insert, payloadVars, nodeVars
<1>3. /\ \A v \in Writer \ {w} : pc'[v] = pc[v]
      /\ pc[w] \notin Linking /\ pc'[w] \notin Linking
      /\ pc[w] \in Building <=> pc[w] = "splitHint"
      /\ pc'[w] \in Building <=> pc[w] = "splitHint"
  <2>1. CASE HopForward(w) \/ HopDown(w) \/ Arrive(w) \/ Acquire(w) \/ Backout(w) \/ Admit(w)
    BY <1>1, <2>1 DEF HopForward, HopDown, Arrive, Acquire, Backout, Admit, Goto, Linking, Building
  <2>2. CASE AppendSlot(w) \/ AppendHint(w) \/ AppendOrder(w) \/ SplitHint(w) \/ Unlock(w)
    BY <1>1, <2>2 DEF AppendSlot, AppendHint, AppendOrder, SplitHint, Unlock, Goto, Linking, Building
  <2>3. CASE AllocationThrows(w) \/ \E k \in Key : Insert(w, k)
    BY <1>1, <2>3 DEF AllocationThrows, Insert, Goto, Linking, Building, NoCall
  <2> QED
    BY <2>1, <2>2, <2>3
<1>4. /\ \A v \in Writer \ {w} : loc'[v] = loc[v]
      /\ pc[w] = "splitHint" => loc' = loc
  BY <1>1 DEF HopForward, HopDown, Arrive, Acquire, Backout, Admit, AppendSlot, AppendHint,
     AppendOrder, SplitHint, Unlock, AllocationThrows, Insert, NoCall
<1> QED
  BY <1>2, <1>3, <1>4 DEF Aside, Splitting, Building, Linking

LEMMA AsideStutter ==
  ASSUME UNCHANGED vars
  PROVE  Aside
BY DEF vars, payloadVars, nodeVars, threadVars, Aside, Building, Linking, Splitting

-----------------------------------------------------------------------------
(* A split.                                                                *)

\* The sibling is built out of sight, and has no links yet.
LEMMA SplitBuildTower ==
  ASSUME IndexSound, [Next]_vars, NEW w \in Writer, NEW h \in 1..MaxHeight, SplitBuild(w, h)
  PROVE  Gapless' /\ TowerForward' /\ SiblingsApart' /\ LinkersPlaced'
<1>1. PICK sib, right : sib = Len(data) + 1 /\ right = Len(order) + 1
  OBVIOUS
<1>2. /\ pc[w] = "split" /\ pc'[w] = "splitHint"
      /\ loc'[w].sib = sib /\ loc'[w].right = right
      /\ \A v \in Writer \ {w} : pc'[v] = pc[v] /\ loc'[v] = loc[v]
      /\ Node' = Node \union {sib} /\ sib \notin Node
      /\ \A p \in Payload : next'[p] = next[p]
      /\ \A n \in Node : data'[n] = data[n] /\ height'[n] = height[n] /\ tower'[n] = tower[n]
      /\ tower'[sib] = [l \in Level |-> Null] /\ data'[sib] = right
      /\ keys'[right] = FilledKeys(RightRun(w)) /\ order'[right] = FilledOrder(RightRun(w))
  BY <1>1, SplitBuildMemory DEF IndexSound, ListSound
<1>3. /\ ListSound /\ HeadNode \in Node /\ HeadNode # sib
      /\ \A n \in Node : data[n] \in Payload
  BY <1>2 DEF IndexSound, ListSound, Ownership, PointersOK
<1>4. Linked' = Linked /\ Linked \subseteq Node
  <2>1. \A v \in Writer : /\ pc'[v] \in Building <=> v = w \/ pc[v] \in Building
                          /\ pc[v] \in Building => v # w
    BY <1>2 DEF Building
  <2>2. Linked' = Node' \ {loc'[v].sib : v \in {u \in Writer : pc'[u] \in Building}}
    BY DEF Linked, Node, Building
  <2>3. ASSUME NEW n PROVE n \in Linked' <=> n \in Linked
    BY <1>2, <2>1, <2>2 DEF Linked
  <2> QED
    BY <2>3 DEF Linked
<1>5. \A n \in Node \ {HeadNode} : first'[data'[n]] = Start(n)
  BY <1>3, StartStays DEF Start
<1>6. Gapless'
  <2> SUFFICES ASSUME NEW m \in Linked, NEW n \in Linked, m # HeadNode,
                      n = HeadNode \/ first'[data'[n]] < first'[data'[m]],
                      NEW x, x = next'[data'[n]]
               PROVE  x # Null /\ first'[data'[x]] <= first'[data'[m]]
    BY <1>4 DEF Gapless, Behind, Start
  <2>1. x = next[data[n]]
    BY <1>2, <1>3, <1>4
  <2>2. Behind(n, Start(m)) /\ first'[data'[m]] = Start(m)
    BY <1>4, <1>5 DEF Behind
  <2>3. x # Null /\ Start(x) <= Start(m)
    BY <2>1, <2>2 DEF IndexSound, TowerOrder, Gapless
  <2>4. x \in Node \ {HeadNode}
    BY <1>3, <1>4, <2>1, <2>3, NextFacts
  <2> QED
    BY <1>5, <2>2, <2>3, <2>4
<1>7. TowerForward'
  <2>1. height'[HeadNode] = MaxHeight
    BY <1>2, <1>3 DEF IndexSound, TowerOrder, TowerForward
  <2>2. ASSUME NEW n \in Node', NEW l \in Level, NEW m, m = tower'[n][l], m # Null
        PROVE  /\ m \in Linked /\ l < height'[n] /\ l < height'[m]
               /\ n = HeadNode \/ first'[data'[n]] < first'[data'[m]]
    <3>1. n \in Node /\ m = tower[n][l]
      BY <1>2, <2>2
    <3>2. m \in Linked /\ l < height[n] /\ l < height[m] /\ Behind(n, Start(m))
      BY <2>2, <3>1 DEF IndexSound, TowerOrder, TowerForward
    <3>3. m \in Node \ {HeadNode}
      BY <1>3, <1>4, <2>2, <3>1, <3>2 DEF ListSound, ListOrder, LinksForward
    <3> QED
      BY <1>2, <1>5, <3>1, <3>2, <3>3 DEF Behind
  <2> QED
    BY <1>4, <2>1, <2>2 DEF TowerForward, Level, Behind, Start
<1>8. \A v \in Writer : /\ pc'[v] \in Splitting <=> v = w \/ pc[v] \in Splitting
                        /\ pc'[v] \in Linking <=> pc[v] \in Linking
                        /\ pc[v] \in Linking => pc[v] \in Splitting
                        /\ pc[v] \in Splitting => v # w /\ pc'[v] = pc[v] /\ loc'[v] = loc[v]
                        /\ pc[v] \in Splitting => loc[v].sib \in Node
  BY <1>2, <1>3 DEF Building, Splitting, Linking, ListSound, Ownership, LocalOK
<1>9. SiblingsApart'
  <2> SUFFICES ASSUME NEW u \in Writer, pc'[u] \in Splitting
               PROVE  /\ \A v \in Writer : pc'[v] \in Splitting /\ loc'[v].sib = loc'[u].sib => v = u
                      /\ \E r \in DOMAIN order'[loc'[u].right] : order'[loc'[u].right][r] = 1
                      /\ keys'[loc'[u].right][1] = first'[data'[loc'[u].sib]]
    BY DEF SiblingsApart, Splitting, Building, Linking, Start, LinkKey
  <2>1. CASE u # w
    <3>1. \A v \in Writer : pc'[v] \in Splitting /\ loc'[v].sib = loc'[u].sib => v = u
      BY <1>2, <1>8, <2>1 DEF IndexSound, TowerOrder, SiblingsApart
    <3> QED
      BY <1>8, <2>1, <3>1, SiblingStays DEF Start, LinkKey
  <2>2. CASE u = w
    <3>1. \A v \in Writer : pc'[v] \in Splitting /\ loc'[v].sib = sib => v = w
      BY <1>2, <1>8
    <3>2. RightRun(w) \in Seq(Key) /\ Len(RightRun(w)) \in 1..Capacity
      BY <1>3, <1>2, SplitBuildMemory, Halves DEF ListSound
    <3>3. order'[right][1] = 1 /\ 1 \in DOMAIN order'[right] /\ keys'[right][1] = RightRun(w)[1]
      BY <1>2, <3>2, SizeFacts DEF FilledOrder, FilledKeys, Slot
    <3>4. first'[right] = RightRun(w)[1]
      BY <1>1, <1>3, SplitBuildHeld
    <3> QED
      BY <1>2, <2>2, <3>1, <3>3, <3>4
  <2> QED
    BY <2>1, <2>2
<1>10. LinkersPlaced'
  <2> SUFFICES ASSUME NEW u \in Writer, pc'[u] \in Linking,
                      NEW l, l = loc'[u].lv
               PROVE  /\ loc'[u].goal <= l /\ (pc'[u] # "find" => l = loc'[u].goal)
                      /\ loc'[u].goal < height'[loc'[u].sib]
                      /\ \A n \in Node', k \in Level : tower'[n][k] = loc'[u].sib => k < loc'[u].goal
                      /\ loc'[u].pred \in Linked' /\ l < height'[loc'[u].pred]
                      /\ Behind(loc[u].pred, LinkKey(u))'
                      /\ \A v \in Writer : pc'[v] \in Linking /\ loc'[v].sib = loc'[u].pred =>
                           l < loc'[v].goal
                      /\ pc'[u] = "cas" => tower'[loc'[u].sib][loc'[u].goal] = loc'[u].nx
    BY DEF LinkersPlaced, Linking, Level
  <2>1. pc[u] \in Linking /\ pc'[u] = pc[u] /\ loc'[u] = loc[u] /\ pc[u] \in Splitting
    BY <1>8
  <2>2. /\ loc[u].goal <= l /\ (pc[u] # "find" => l = loc[u].goal)
        /\ loc[u].goal < height[loc[u].sib]
        /\ \A n \in Node, k \in Level : tower[n][k] = loc[u].sib => k < loc[u].goal
        /\ loc[u].pred \in Linked /\ l < height[loc[u].pred]
        /\ Behind(loc[u].pred, LinkKey(u))
        /\ \A v \in Writer : pc[v] \in Linking /\ loc[v].sib = loc[u].pred => l < loc[v].goal
        /\ pc[u] = "cas" => tower[loc[u].sib][loc[u].goal] = loc[u].nx
    BY <2>1, Zenon DEF IndexSound, TowerOrder, LinkersPlaced
  <2>3. loc[u].sib \in Node /\ loc[u].pred \in Node /\ Null \notin Node
    <3>1. Null \notin Node
      BY DEF Node, Null
    <3> QED
      BY <1>4, <1>8, <2>1, <2>2, <3>1
  <2>4. Behind(loc[u].pred, LinkKey(u))'
    <3>1. LinkKey(u)' = LinkKey(u)
      BY <2>1, SiblingStays
    <3>2. PICK n, k : n = loc[u].pred /\ k = LinkKey(u)
      OBVIOUS
    <3>3. n \in Node /\ Behind(n, k)
      BY <2>2, <2>3, <3>2
    <3>4. Behind(n, k)'
      BY <1>3, <3>3, BehindStays
    <3> QED
      BY <2>1, <3>1, <3>2, <3>4 DEF Behind, Start
  <2>5. \A v \in Writer : pc'[v] \in Linking /\ loc'[v].sib = loc'[u].pred => l < loc'[v].goal
    BY <1>8, <2>1, <2>2
  <2>6. \A n \in Node', k \in Level : tower'[n][k] = loc[u].sib => k < loc[u].goal
    BY <1>2, <2>2, <2>3
  <2> QED
    BY <1>2, <1>4, <2>1, <2>2, <2>3, <2>4, <2>5, <2>6
<1> QED
  BY <1>6, <1>7, <1>9, <1>10


\* Where the sibling enters level 0: after the node that split, before the next.
LEMMA SplitDataPlaces ==
  ASSUME ListSound, NEW w \in Writer, SplitData(w),
         NEW c, c = loc[w].cur, NEW sib, sib = loc[w].sib
  PROVE  /\ c \in Linked /\ sib \in Node \ {HeadNode} /\ sib \notin Linked /\ sib # c
         /\ Linked' = Linked \union {sib} /\ Node' = Node /\ Linked \subseteq Node
         /\ next'[data'[c]] = sib /\ next'[data'[sib]] = next[data[c]]
         /\ \A n \in Node \ {c, sib} : next'[data'[n]] = next[data[n]]
         /\ Behind(c, Start(sib))
         /\ next[data[c]] # Null => Start(sib) < Start(next[data[c]])
<1>1. PICK left, right, d, k : /\ left = loc[w].left /\ right = loc[w].right
                               /\ d = loc[w].d /\ k = loc[w].key
  OBVIOUS
<1>2. /\ pc[w] = "splitData" /\ next' = next /\ Node' = Node
      /\ \A n \in Node : data'[n] = IF n = c THEN left ELSE data[n]
  BY <1>1, SplitDataLocals DEF ListSound
<1>3. /\ c \in Linked /\ sib \in Node \ {HeadNode} /\ sib \notin Linked /\ sib # c
      /\ Linked' = Linked \union {sib} /\ data[sib] = right /\ Linked \subseteq Node
  <2>1. Linked \subseteq Node
    BY DEF Linked
  <2> QED
    BY <1>1, <2>1, SplitDataLinked
<1>4. data[c] = d /\ left \in Payload /\ (c # HeadNode => first[left] = first[d])
  BY <1>1, <1>2, LeftKeepsFirst DEF Building
<1>5. /\ next[left] = sib /\ next[right] = next[d] /\ order[left] # <<>>
      /\ held[left] \union held[right] = held[d] \union {k}
      /\ \A i \in held[left], j \in held[right] : i < j
  BY <1>1, <1>2, Zenon DEF ListSound, ListOrder, HalvesOK, Building
<1>6. Start(sib) \in held[right]
  BY <1>3, NodeFacts
<1>7. Behind(c, Start(sib))
  <2>1. first[left] \in held[left]
    BY <1>4, <1>5, FirstIsLeast DEF ListSound, ListOrder
  <2> QED
    BY <1>4, <1>5, <1>6, <2>1 DEF Behind, Start
<1>8. next[data[c]] # Null => Start(sib) < Start(next[data[c]])
  <2>1. HAVE next[data[c]] # Null
  <2>2. \A i \in held[d] : i < Start(next[data[c]])
    BY <1>3, <1>4, <2>1, NextFacts
  <2>3. k < Start(next[data[c]])
    BY <1>1, <1>2, <1>4, <2>1, Zenon DEF ListSound, ListOrder, WritersPlaced, Pending, Working, Start
  <2> QED
    BY <1>5, <1>6, <2>2, <2>3
<1> QED
  BY <1>2, <1>3, <1>4, <1>5, <1>7, <1>8

\* Level 0 still passes over no node.
LEMMA SplitDataGapless ==
  ASSUME IndexSound, [Next]_vars, NEW w \in Writer, SplitData(w)
  PROVE  Gapless'
<1>1. PICK c, sib, nx : c = loc[w].cur /\ sib = loc[w].sib /\ nx = next[data[c]]
  OBVIOUS
<1>2. /\ c \in Linked /\ sib \in Node \ {HeadNode} /\ sib \notin Linked /\ sib # c
      /\ Linked' = Linked \union {sib} /\ Node' = Node /\ Linked \subseteq Node
      /\ next'[data'[c]] = sib /\ next'[data'[sib]] = nx
      /\ \A n \in Node \ {c, sib} : next'[data'[n]] = next[data[n]]
      /\ Behind(c, Start(sib))
      /\ nx # Null => Start(sib) < Start(nx)
  BY <1>1, SplitDataPlaces DEF IndexSound
<1>3. /\ ListSound /\ Gapless
      /\ \A n \in Node \ {HeadNode} : Start(n) \in Nat /\ first'[data'[n]] = Start(n)
  BY NodeFacts, StartStays DEF IndexSound, TowerOrder, Start
<1>4. \A n \in Node : next[data[n]] # Null => next[data[n]] \in Node \ {HeadNode}
  BY <1>3, NextFacts
<1> SUFFICES ASSUME NEW m \in Linked \union {sib}, NEW n \in Linked \union {sib}, m # HeadNode,
                    n = HeadNode \/ Start(n) < Start(m), NEW x, x = next'[data'[n]]
             PROVE  x # Null /\ x \in Node \ {HeadNode} /\ Start(x) <= Start(m)
  BY <1>2, <1>3 DEF Gapless, Behind, Start
<1>5. \A i, j \in Linked : i # HeadNode /\ (j = HeadNode \/ Start(j) < Start(i)) =>
        next[data[j]] # Null /\ Start(next[data[j]]) <= Start(i)
  BY <1>3 DEF Gapless, Behind
<1>6. Null \notin Node
  BY DEF Node, Null
<1>7. CASE n = c
  <2>1. x = sib
    BY <1>2, <1>7
  <2>2. CASE m = sib
    BY <1>2, <1>3, <1>6, <2>1, <2>2
  <2>3. CASE m # sib
    <3>1. nx # Null /\ Start(nx) <= Start(m)
      BY <1>1, <1>2, <1>5, <1>7, <2>3
    <3>2. nx \in Node \ {HeadNode}
      BY <1>1, <1>2, <1>4, <3>1
    <3> QED
      BY <1>2, <1>3, <1>6, <2>1, <3>1, <3>2
  <2> QED
    BY <2>2, <2>3
<1>8. CASE n = sib
  <2>1. x = nx /\ m # sib
    BY <1>2, <1>3, <1>8
  <2>2. c = HeadNode \/ Start(c) < Start(m)
    BY <1>2, <1>3, <1>8, <2>1 DEF Behind
  <2>3. nx # Null /\ Start(nx) <= Start(m)
    BY <1>1, <1>2, <1>5, <2>1, <2>2
  <2> QED
    BY <1>1, <1>2, <1>4, <2>1, <2>3
<1>9. CASE n \notin {c, sib}
  <2>1. x = next[data[n]] /\ n \in Linked
    BY <1>2, <1>9
  <2>2. CASE m # sib
    BY <1>2, <1>4, <1>5, <2>1, <2>2
  <2>3. CASE m = sib
    <3>1. CASE c = HeadNode \/ (n # HeadNode /\ Start(n) > Start(c))
      <4>1. n # HeadNode
        BY <1>9, <3>1
      <4>2. nx # Null /\ Start(nx) <= Start(n)
        BY <1>1, <1>2, <1>5, <2>1, <3>1, <4>1
      <4>3. nx \in Node \ {HeadNode}
        BY <1>1, <1>2, <1>4, <4>2
      <4> QED
        BY <1>2, <1>3, <2>1, <2>3, <4>1, <4>2, <4>3
    <3>2. CASE c # HeadNode /\ (n = HeadNode \/ Start(n) < Start(c))
      <4>1. x # Null /\ Start(x) <= Start(c)
        BY <1>2, <1>5, <2>1, <3>2
      <4>2. x \in Node \ {HeadNode}
        BY <1>2, <1>4, <2>1, <4>1
      <4> QED
        BY <1>2, <1>3, <2>3, <3>2, <4>1, <4>2 DEF Behind
    <3>3. CASE c # HeadNode /\ n # HeadNode /\ Start(n) = Start(c)
      BY <1>2, <1>3, <1>9, <2>1, <3>3, StartsApart
    <3> QED
      BY <1>2, <1>3, <2>1, <3>1, <3>2, <3>3
  <2> QED
    BY <2>2, <2>3
<1> QED
  BY <1>7, <1>8, <1>9


\* The links of the tower lead where they did, and forward, to the sibling none yet.
LEMMA SplitDataTower ==
  ASSUME IndexSound, [Next]_vars, NEW w \in Writer, SplitData(w)
  PROVE  TowerForward' /\ SiblingsApart' /\ LinkersPlaced'
<1>1. PICK sib : sib = loc[w].sib
  OBVIOUS
<1>2. /\ sib \in Node \ {HeadNode} /\ Linked' = Linked \union {sib} /\ Node' = Node
      /\ Linked \subseteq Node /\ sib \notin Linked /\ HeadNode \in Linked
  <2>1. HeadNode \in Linked
    BY DEF Linked, IndexSound, ListSound, ListOrder, LinksForward, Ownership, PointersOK,
           Building, Splitting
  <2> QED
    BY <1>1, <2>1, SplitDataPlaces DEF IndexSound
<1>3. /\ pc[w] = "splitData" /\ pc'[w] \in {"find", "unlock"}
      /\ loc'[w].sib = sib /\ loc'[w].right = loc[w].right
      /\ pc'[w] = "find" =>
           /\ loc'[w].pred = HeadNode /\ loc'[w].lv = MaxHeight - 1 /\ loc'[w].goal = 1
           /\ 1 \in Level /\ 1 < height[sib]
      /\ \A v \in Writer \ {w} : pc'[v] = pc[v] /\ loc'[v] = loc[v]
      /\ UNCHANGED <<order, height, tower>>
  BY <1>1, SplitDataLocals DEF IndexSound, ListSound
<1>4. /\ ListSound /\ TowerForward /\ SiblingsApart /\ LinkersPlaced
      /\ \A n \in Node \ {HeadNode} : first'[data'[n]] = Start(n)
  BY StartStays DEF IndexSound, TowerOrder, Start
<1>5. TowerForward'
  <2>1. ASSUME NEW n \in Node, NEW l \in Level, NEW m, m = tower[n][l], m # Null
        PROVE  /\ m \in Linked /\ l < height[n] /\ l < height[m]
               /\ n = HeadNode \/ first'[data'[n]] < first'[data'[m]]
    <3>1. m \in Linked /\ l < height[n] /\ l < height[m] /\ Behind(n, Start(m))
      BY <1>4, <2>1 DEF TowerForward
    <3>2. m \in Node \ {HeadNode}
      BY <1>2, <1>4, <2>1, <3>1 DEF ListSound, ListOrder, LinksForward
    <3> QED
      BY <1>4, <3>1, <3>2 DEF Behind
  <2> QED
    BY <1>2, <1>3, <1>4, <2>1 DEF TowerForward, Level, Behind, Start
<1>6. \A v \in Writer : /\ pc'[v] \in Splitting => pc[v] \in Splitting
                        /\ pc'[v] \in Linking <=> (pc[v] \in Linking \/ (v = w /\ pc'[v] = "find"))
                        /\ pc[v] \in Linking => pc[v] \in Splitting /\ v # w
                        /\ pc[v] \in Splitting => /\ loc'[v].sib = loc[v].sib
                                                  /\ loc'[v].right = loc[v].right
  BY <1>1, <1>3 DEF Building, Splitting, Linking
<1>7. SiblingsApart'
  <2> SUFFICES ASSUME NEW u \in Writer, pc'[u] \in Splitting
               PROVE  /\ \A v \in Writer : pc'[v] \in Splitting /\ loc'[v].sib = loc'[u].sib => v = u
                      /\ \E r \in DOMAIN order'[loc'[u].right] : order'[loc'[u].right][r] = 1
                      /\ LinkKey(u)' = Start(loc[u].sib)'
    <3>1. \A u \in Writer : pc'[u] \in Splitting => loc'[u].sib = loc[u].sib
      BY <1>6
    <3> QED
      BY <3>1 DEF SiblingsApart, Splitting, Building, Linking, Start
  <2>1. pc[u] \in Splitting /\ loc'[u].sib = loc[u].sib /\ loc'[u].right = loc[u].right
    BY <1>6
  <2>2. \A v \in Writer : pc'[v] \in Splitting /\ loc'[v].sib = loc'[u].sib => v = u
    BY <1>4, <1>6, <2>1 DEF SiblingsApart
  <2> QED
    BY <2>1, <2>2, SiblingStays
<1>8. LinkersPlaced'
  <2> SUFFICES ASSUME NEW u \in Writer, pc'[u] \in Linking,
                      NEW l, l = loc'[u].lv
               PROVE  /\ loc'[u].goal <= l /\ (pc'[u] # "find" => l = loc'[u].goal)
                      /\ loc'[u].goal < height'[loc'[u].sib]
                      /\ \A n \in Node', k \in Level : tower'[n][k] = loc'[u].sib => k < loc'[u].goal
                      /\ loc'[u].pred \in Linked' /\ l < height'[loc'[u].pred]
                      /\ loc'[u].pred = HeadNode \/ first'[data'[loc'[u].pred]] < LinkKey(u)'
                      /\ \A v \in Writer : pc'[v] \in Linking /\ loc'[v].sib = loc'[u].pred =>
                           l < loc'[v].goal
                      /\ pc'[u] = "cas" => tower'[loc'[u].sib][loc'[u].goal] = loc'[u].nx
    BY DEF LinkersPlaced, Linking, Level, Behind, Start
  <2>1. CASE u = w
    <3>1. pc'[w] = "find" /\ l = MaxHeight - 1 /\ loc'[w].goal = 1 /\ 1 <= l
      BY <1>3, <1>6, <2>1, SizeFacts DEF Linking, Level
    <3>2. \A n \in Node, k \in Level : tower[n][k] # sib
      BY <1>1, <1>3, <1>4 DEF ListSound, ListOrder, SiblingsHidden, Building
    <3>3. MaxHeight - 1 < height[HeadNode]
      BY <1>4, SizeFacts DEF TowerForward
    <3>4. \A v \in Writer : pc'[v] \in Linking => loc'[v].sib # HeadNode
      BY <1>1, <1>2, <1>3, <1>4, <1>6 DEF ListSound, ListOrder, LinksForward
    <3> QED
      BY <1>2, <1>3, <2>1, <3>1, <3>2, <3>3, <3>4
  <2>2. CASE u # w
    <3>1. pc[u] \in Linking /\ pc'[u] = pc[u] /\ loc'[u] = loc[u] /\ pc[u] \in Splitting
      BY <1>3, <1>6, <2>2
    <3>2. /\ loc[u].goal <= l /\ (pc[u] # "find" => l = loc[u].goal)
          /\ loc[u].goal < height[loc[u].sib]
          /\ \A n \in Node, k \in Level : tower[n][k] = loc[u].sib => k < loc[u].goal
          /\ loc[u].pred \in Linked /\ l < height[loc[u].pred]
          /\ Behind(loc[u].pred, LinkKey(u))
          /\ \A v \in Writer : pc[v] \in Linking /\ loc[v].sib = loc[u].pred => l < loc[v].goal
          /\ pc[u] = "cas" => tower[loc[u].sib][loc[u].goal] = loc[u].nx
      BY <1>4, <3>1, Zenon DEF LinkersPlaced
    <3>3. LinkKey(u)' = LinkKey(u)
      BY <3>1, SiblingStays
    <3>4. loc[u].pred = HeadNode \/ first'[data'[loc[u].pred]] < LinkKey(u)
      BY <1>2, <1>4, <3>2 DEF Behind
    <3>5. \A v \in Writer : pc'[v] \in Linking /\ loc'[v].sib = loc[u].pred => l < loc'[v].goal
      BY <1>2, <1>3, <1>6, <3>2
    <3>6. loc'[u].pred \in Linked'
      BY <1>2, <3>1, <3>2
    <3> QED
      BY <1>2, <1>3, <3>1, <3>2, <3>3, <3>4, <3>5, <3>6
  <2> QED
    BY <2>1, <2>2
<1> QED
  BY <1>5, <1>7, <1>8


-----------------------------------------------------------------------------
(* Linking a sibling.                                                      *)

\* A step of the linker w, which makes a lead to m at the level w links.
LinkStep(w, a, m) ==
  /\ UNCHANGED <<payloadVars, data, height>>
  /\ \A v \in Writer \ {w} : pc'[v] = pc[v] /\ loc'[v] = loc[v]
  /\ pc[w] \in Linking /\ pc'[w] \in Linking \union {"unlock"}
  /\ pc'[w] \in Linking => /\ loc'[w].sib = loc[w].sib /\ loc'[w].right = loc[w].right
                           /\ loc[w].goal <= loc'[w].goal /\ loc'[w].goal \in Level
  /\ a \in {loc[w].sib, loc[w].pred}
  /\ \A n \in Node, k \in Level :
       tower'[n][k] = IF n = a /\ k = loc[w].goal THEN m ELSE tower[n][k]

\* The new link leads forward, and to nobody's sibling at a level not linked yet.
LinkFits(w, a, m) ==
  /\ m # Null => /\ m \in Linked /\ loc[w].goal < height[a] /\ loc[w].goal < height[m]
                 /\ Behind(a, Start(m))
  /\ \A v \in Writer \ {w} : pc[v] \in Linking /\ m = loc[v].sib => loc[w].goal < loc[v].goal

\* Where the step leaves its own writer, if it has more to link.
LinkerFits(w) ==
  pc'[w] \in Linking =>
    LET l == loc'[w].lv
    IN  /\ loc'[w].goal <= l /\ (pc'[w] # "find" => l = loc'[w].goal)
        /\ loc'[w].goal < height[loc[w].sib]
        /\ \A n \in Node, k \in Level : tower'[n][k] = loc[w].sib => k < loc'[w].goal
        /\ loc'[w].pred \in Linked /\ l < height[loc'[w].pred]
        /\ Behind(loc'[w].pred, LinkKey(w))
        /\ \A v \in Writer \ {w} : pc[v] \in Linking /\ loc[v].sib = loc'[w].pred => l < loc[v].goal
        /\ pc'[w] = "cas" => tower'[loc[w].sib][loc'[w].goal] = loc'[w].nx

\* What is known of a writer that links.
LEMMA LinkerFacts ==
  ASSUME IndexSound, NEW w \in Writer, pc[w] \in Linking
  PROVE  /\ loc[w].sib \in Node \ {HeadNode} /\ loc[w].sib \in Linked
         /\ loc[w].goal \in Level /\ loc[w].goal <= loc[w].lv /\ loc[w].lv \in Level
         /\ pc[w] # "find" => loc[w].lv = loc[w].goal
         /\ loc[w].goal < height[loc[w].sib]
         /\ \A n \in Node, k \in Level : tower[n][k] = loc[w].sib => k < loc[w].goal
         /\ loc[w].pred \in Linked /\ loc[w].pred \in Node /\ loc[w].lv < height[loc[w].pred]
         /\ Behind(loc[w].pred, LinkKey(w)) /\ loc[w].pred # loc[w].sib
         /\ \A v \in Writer : pc[v] \in Linking /\ loc[v].sib = loc[w].pred =>
              loc[w].lv < loc[v].goal
         /\ \A v \in Writer \ {w} : pc[v] \in Linking => loc[v].sib # loc[w].sib
         /\ LinkKey(w) = Start(loc[w].sib) /\ LinkKey(w) \in Key
         /\ pc[w] = "cas" => tower[loc[w].sib][loc[w].goal] = loc[w].nx
<1>1. /\ loc[w].goal <= loc[w].lv /\ (pc[w] # "find" => loc[w].lv = loc[w].goal)
      /\ loc[w].goal < height[loc[w].sib]
      /\ \A n \in Node, k \in Level : tower[n][k] = loc[w].sib => k < loc[w].goal
      /\ loc[w].pred \in Linked /\ loc[w].lv < height[loc[w].pred]
      /\ Behind(loc[w].pred, LinkKey(w))
      /\ \A v \in Writer : pc[v] \in Linking /\ loc[v].sib = loc[w].pred => loc[w].lv < loc[v].goal
      /\ pc[w] = "cas" => tower[loc[w].sib][loc[w].goal] = loc[w].nx
  BY Zenon DEF IndexSound, TowerOrder, LinkersPlaced
<1>2. /\ loc[w].sib \in Node \ {HeadNode} /\ loc[w].goal \in Level
      /\ pc[w] = "find" => loc[w].lv \in Level
  BY DEF IndexSound, ListSound, ListOrder, LinksForward, Ownership, LocalOK, Splitting
<1>3. /\ LinkKey(w) = Start(loc[w].sib)
      /\ \A v \in Writer \ {w} : pc[v] \in Splitting => loc[v].sib # loc[w].sib
  BY DEF IndexSound, TowerOrder, SiblingsApart, Splitting
<1>4. loc[w].sib \in Linked
  <2>1. ASSUME NEW v \in Writer, pc[v] \in Building PROVE loc[v].sib # loc[w].sib
    BY <1>3, <2>1 DEF Building, Linking, Splitting
  <2> QED
    BY <1>2, <2>1 DEF Linked
<1>5. loc[w].pred \in Node
  BY <1>1 DEF Linked
<1>6. Start(loc[w].sib) \in Nat /\ Start(loc[w].sib) \in Key
  BY <1>2, NodeFacts DEF IndexSound
<1>7. loc[w].pred # loc[w].sib
  BY <1>1, <1>2, <1>3, <1>6 DEF Behind
<1>8. loc[w].lv \in Level
  BY <1>1, <1>2
<1>9. \A v \in Writer \ {w} : pc[v] \in Linking => loc[v].sib # loc[w].sib
  BY <1>3 DEF Splitting
<1> QED
  BY <1>1, <1>2, <1>3, <1>4, <1>5, <1>6, <1>7, <1>8, <1>9

\* Nodes and levels stay as they were, but for the one link.
LEMMA LinkerFrame ==
  ASSUME IndexSound, NEW w \in Writer, NEW a, NEW m, LinkStep(w, a, m), LinkFits(w, a, m)
  PROVE  /\ Node' = Node /\ Linked' = Linked /\ first' = first
         /\ Gapless' /\ TowerForward' /\ SiblingsApart'
<1>1. Node' = Node /\ Linked' = Linked
  <2>1. \A v \in Writer : /\ pc'[v] \in Building <=> pc[v] \in Building
                          /\ pc[v] \in Building => loc'[v].sib = loc[v].sib
    BY DEF LinkStep, Building, Linking
  <2> QED
    BY <2>1 DEF LinkStep, Node, Linked, Building
<1>2. first' = first /\ UNCHANGED <<data, next, height, keys, order>>
  BY DEF LinkStep, payloadVars, first, KeyAt, Payload
<1>3. Gapless'
  BY <1>1, <1>2 DEF IndexSound, TowerOrder, Gapless, Behind, Start
<1>4. TowerForward'
  <2>1. ASSUME NEW n \in Node, NEW l \in Level, tower'[n][l] # Null
        PROVE  /\ tower'[n][l] \in Linked
               /\ l < height[n] /\ l < height[tower'[n][l]] /\ Behind(n, Start(tower'[n][l]))
    <3>1. CASE n = a /\ l = loc[w].goal
      BY <2>1, <3>1 DEF LinkStep, LinkFits
    <3>2. CASE ~(n = a /\ l = loc[w].goal)
      <4>1. tower'[n][l] = tower[n][l]
        BY <3>2 DEF LinkStep
      <4> QED
        BY <2>1, <4>1 DEF IndexSound, TowerOrder, TowerForward
    <3> QED
      BY <3>1, <3>2
  <2> QED
    BY <1>1, <1>2, <2>1 DEF IndexSound, TowerOrder, TowerForward, Level, Behind, Start
<1>5. SiblingsApart'
  <2>1. \A v \in Writer : pc'[v] \in Splitting =>
          pc[v] \in Splitting /\ loc'[v].sib = loc[v].sib /\ loc'[v].right = loc[v].right
    BY DEF LinkStep, Splitting, Linking
  <2>2. SiblingsApart
    BY DEF IndexSound, TowerOrder
  <2> SUFFICES ASSUME NEW u \in Writer, pc'[u] \in Splitting
               PROVE  /\ \A v \in Writer : pc'[v] \in Splitting /\ loc'[v].sib = loc'[u].sib => v = u
                      /\ \E r \in DOMAIN order[loc'[u].right] : order[loc'[u].right][r] = 1
                      /\ keys[loc'[u].right][1] = first[data[loc'[u].sib]]
    BY <1>2 DEF SiblingsApart, Splitting, Linking, Start, LinkKey
  <2> QED
    BY <2>1, <2>2 DEF SiblingsApart, Start, LinkKey
<1> QED
  BY <1>1, <1>2, <1>3, <1>4, <1>5

\* Every linker stays placed.
LEMMA LinkerPlaces ==
  ASSUME IndexSound, NEW w \in Writer, NEW a, NEW m,
         LinkStep(w, a, m), LinkFits(w, a, m), LinkerFits(w)
  PROVE  LinkersPlaced'
<1>1. /\ Node' = Node /\ Linked' = Linked /\ first' = first
      /\ UNCHANGED <<data, height, keys>>
  BY LinkerFrame DEF LinkStep, payloadVars
<1>2. \A v \in Writer : pc'[v] \in Linking =>
        /\ pc[v] \in Linking /\ loc'[v].sib = loc[v].sib
        /\ loc[v].goal <= loc'[v].goal /\ LinkKey(v)' = LinkKey(v)
        /\ v # w => pc'[v] = pc[v] /\ loc'[v] = loc[v]
  <2>1. \A v \in Writer : pc[v] \in Linking => loc[v].goal \in Level
    BY LinkerFacts
  <2> QED
    BY <1>1, <2>1 DEF LinkStep, LinkKey, Level
<1> SUFFICES ASSUME NEW u \in Writer, pc'[u] \in Linking, NEW l, l = loc'[u].lv
             PROVE  /\ loc'[u].goal <= l /\ (pc'[u] # "find" => l = loc'[u].goal)
                    /\ loc'[u].goal < height[loc[u].sib]
                    /\ \A n \in Node, k \in Level : tower'[n][k] = loc[u].sib => k < loc'[u].goal
                    /\ loc'[u].pred \in Linked /\ l < height[loc'[u].pred]
                    /\ Behind(loc'[u].pred, LinkKey(u))
                    /\ \A v \in Writer : pc'[v] \in Linking /\ loc'[v].sib = loc'[u].pred =>
                         l < loc'[v].goal
                    /\ pc'[u] = "cas" => tower'[loc[u].sib][loc'[u].goal] = loc'[u].nx
  BY <1>1, <1>2 DEF LinkersPlaced, Linking, Level, Behind, Start
<1>3. CASE u = w
  <2>1. pc[w] \in Linking
    BY <1>2, <1>3
  <2>2. loc'[w].pred # loc[w].sib
    <3>1. PICK n : n = loc'[w].pred
      OBVIOUS
    <3>2. Behind(n, LinkKey(w))
      BY <1>3, <3>1 DEF LinkerFits
    <3>3. LinkKey(w) = Start(loc[w].sib) /\ loc[w].sib # HeadNode /\ LinkKey(w) \in Nat
      BY <2>1, LinkerFacts, SizeFacts
    <3> QED
      BY <3>1, <3>2, <3>3 DEF Behind
  <2>3. \A v \in Writer : pc'[v] \in Linking /\ loc'[v].sib = loc'[w].pred => l < loc'[v].goal
    BY <1>2, <1>3, <2>2 DEF LinkerFits
  <2> QED
    BY <1>3, <2>3 DEF LinkerFits
<1>4. CASE u # w
  <2>1. /\ pc[u] \in Linking /\ pc'[u] = pc[u] /\ loc'[u] = loc[u] /\ l = loc[u].lv
        /\ pc[w] \in Linking /\ a \in {loc[w].sib, loc[w].pred}
    BY <1>2, <1>4 DEF LinkStep
  <2>2. ASSUME NEW n \in Node, NEW k \in Level, tower'[n][k] = loc[u].sib
        PROVE  k < loc[u].goal
    <3>1. CASE n = a /\ k = loc[w].goal
      BY <1>4, <2>1, <2>2, <3>1 DEF LinkStep, LinkFits
    <3>2. CASE ~(n = a /\ k = loc[w].goal)
      <4>1. tower'[n][k] = tower[n][k]
        BY <3>2 DEF LinkStep
      <4> QED
        BY <2>1, <2>2, <4>1, LinkerFacts
    <3> QED
      BY <3>1, <3>2
  <2>3. \A v \in Writer : pc'[v] \in Linking /\ loc'[v].sib = loc[u].pred => l < loc'[v].goal
    <3> SUFFICES ASSUME NEW v \in Writer, pc'[v] \in Linking, loc'[v].sib = loc[u].pred
                 PROVE  l < loc'[v].goal
      OBVIOUS
    <3>1. pc[v] \in Linking /\ loc[v].sib = loc[u].pred /\ loc[v].goal <= loc'[v].goal
      BY <1>2
    <3>2. l < loc[v].goal /\ l \in Level /\ loc[v].goal \in Level
      BY <2>1, <3>1, LinkerFacts
    <3>3. loc'[v].goal \in Level
      BY <3>2, <2>1 DEF LinkStep
    <3> QED
      BY <3>1, <3>2, <3>3 DEF Level
  <2>4. pc[u] = "cas" => tower'[loc[u].sib][loc[u].goal] = loc[u].nx
    <3>1. HAVE pc[u] = "cas"
    <3>2. /\ tower[loc[u].sib][loc[u].goal] = loc[u].nx
          /\ loc[u].sib \in Node /\ loc[u].goal \in Level
      BY <2>1, <3>1, LinkerFacts
    <3>3. ~(loc[u].sib = a /\ loc[u].goal = loc[w].goal)
      <4>1. loc[u].sib # loc[w].sib
        BY <1>4, <2>1, LinkerFacts
      <4>2. loc[u].sib = loc[w].pred => loc[w].lv < loc[u].goal /\ loc[w].goal <= loc[w].lv
        BY <2>1, LinkerFacts
      <4>3. loc[w].lv \in Nat /\ loc[w].goal \in Nat
        BY <2>1, LinkerFacts DEF Level
      <4> QED
        BY <2>1, <4>1, <4>2, <4>3
    <3> QED
      BY <3>2, <3>3 DEF LinkStep
  <2> QED
    BY <1>2, <2>1, <2>2, <2>3, <2>4, LinkerFacts
<1> QED
  BY <1>3, <1>4


\* Where an old link leads fits.
LEMMA OldLinkFits ==
  ASSUME IndexSound, NEW w \in Writer, pc[w] \in Linking, NEW n \in Node, NEW m,
         m = tower[n][loc[w].goal]
  PROVE  LinkFits(w, n, m)
<1>1. loc[w].goal \in Level /\ loc[w].sib \in Linked
  BY LinkerFacts
<1>2. m # Null => /\ m \in Linked /\ loc[w].goal < height[n] /\ loc[w].goal < height[m]
                  /\ Behind(n, Start(m))
  BY <1>1 DEF IndexSound, TowerOrder, TowerForward
<1>3. \A v \in Writer \ {w} : pc[v] \in Linking /\ m = loc[v].sib => loc[w].goal < loc[v].goal
  BY <1>1, LinkerFacts
<1> QED
  BY <1>2, <1>3 DEF LinkFits

\* A step that changes no link.
LEMMA LinkerStands ==
  ASSUME IndexSound, NEW w \in Writer, NEW l \in Linking \union {"unlock"}, NEW x,
         UNCHANGED <<payloadVars, nodeVars>>, pc[w] \in Linking,
         pc' = [pc EXCEPT ![w] = l], loc' = [loc EXCEPT ![w] = x],
         l \in Linking =>
           /\ x.sib = loc[w].sib /\ x.right = loc[w].right
           /\ loc[w].goal <= x.goal /\ x.goal \in Level,
         LinkerFits(w)
  PROVE  Gapless' /\ TowerForward' /\ SiblingsApart' /\ LinkersPlaced'
<1>1. PICK a, m : a = loc[w].sib /\ m = tower[a][loc[w].goal]
  OBVIOUS
<1>2. a \in Node
  BY <1>1, LinkerFacts
<1>3. LinkFits(w, a, m)
  BY <1>1, <1>2, OldLinkFits
<1>4. pc \in [Writer -> Label] /\ loc \in [Writer -> Local]
  BY DEF IndexSound, ListSound, Ownership, TypeOK
<1>5. LinkStep(w, a, m)
  BY <1>1, <1>4 DEF LinkStep, nodeVars
<1> QED
  BY <1>3, <1>5, LinkerFrame, LinkerPlaces

\* The search for a predecessor moves to a node that begins before the sibling.
LEMMA FindHopTower ==
  ASSUME IndexSound, NEW w \in Writer, FindHop(w)
  PROVE  Gapless' /\ TowerForward' /\ SiblingsApart' /\ LinkersPlaced'
<1>1. PICK nx, x : /\ nx = tower[loc[w].pred][loc[w].lv]
                   /\ x = [loc[w] EXCEPT !.pred = nx]
  OBVIOUS
<1>2. /\ pc[w] = "find" /\ pc[w] \in Linking /\ pc[w] \in Splitting
      /\ nx # Null /\ StartsAtOrBelow(nx, LinkKey(w))
      /\ pc' = pc /\ loc' = [loc EXCEPT ![w] = x] /\ UNCHANGED <<payloadVars, nodeVars>>
  BY <1>1 DEF FindHop, MayFind, Linking, Splitting
<1>3. /\ ListSound /\ TowerForward /\ pc \in [Writer -> Label] /\ loc \in [Writer -> Local]
      /\ pc' = [pc EXCEPT ![w] = "find"]
  BY <1>2 DEF IndexSound, ListSound, Ownership, TypeOK, TowerOrder
<1>4. nx \in Linked /\ nx \in Node \ {HeadNode} /\ loc[w].lv < height[nx]
  <2>1. nx \in Linked /\ loc[w].lv < height[nx] /\ nx \in Node
    BY <1>1, <1>2, <1>3, LinkerFacts DEF TowerForward, Linked
  <2> QED
    BY <1>1, <1>2, <1>3, <2>1, LinkerFacts DEF ListSound, ListOrder, LinksForward
<1>5. nx # loc[w].sib
  <2>1. loc[w].goal <= loc[w].lv /\ loc[w].goal \in Nat /\ loc[w].lv \in Nat
    BY <1>2, LinkerFacts DEF Level
  <2>2. nx = loc[w].sib => loc[w].lv < loc[w].goal
    BY <1>1, <1>2, LinkerFacts
  <2> QED
    BY <2>1, <2>2
<1>6. Behind(nx, LinkKey(w))
  <2>1. Start(nx) <= LinkKey(w) /\ Start(nx) \in Nat
    BY <1>2, <1>3, <1>4, StartsMeansFirst, LinkerFacts, NodeFacts DEF Start
  <2>2. LinkKey(w) = Start(loc[w].sib) /\ loc[w].sib \in Linked \ {HeadNode} /\ LinkKey(w) \in Nat
    BY <1>2, LinkerFacts, SizeFacts
  <2>3. Start(nx) # Start(loc[w].sib)
    BY <1>3, <1>4, <1>5, <2>2, StartsApart
  <2> QED
    BY <2>1, <2>2, <2>3 DEF Behind
<1>7. /\ loc'[w] = x /\ x.pred = nx /\ x.sib = loc[w].sib /\ x.right = loc[w].right
      /\ x.lv = loc[w].lv /\ x.goal = loc[w].goal
  <2>1. loc[w] \in Local /\ nx \in Nat
    BY <1>3, <1>4 DEF Node
  <2> QED
    BY <1>1, <1>2, <1>3, <2>1, UpdatePred
<1>8. \A v \in Writer \ {w} : pc[v] \in Linking /\ loc[v].sib = nx => loc[w].lv < loc[v].goal
  BY <1>1, <1>2, LinkerFacts
<1>9. LinkerFits(w)
  BY <1>2, <1>4, <1>6, <1>7, <1>8, LinkerFacts DEF LinkerFits, nodeVars
<1>10. /\ "find" \in Linking \union {"unlock"} /\ loc[w].goal <= x.goal /\ x.goal \in Level
  BY <1>2, <1>7, LinkerFacts DEF Linking, Level
<1> QED
  BY <1>2, <1>3, <1>7, <1>9, <1>10, LinkerStands

\* Or down a level, or ends.
LEMMA FindStaysTower ==
  ASSUME IndexSound, NEW w \in Writer, FindDown(w) \/ FindArrive(w)
  PROVE  Gapless' /\ TowerForward' /\ SiblingsApart' /\ LinkersPlaced'
<1>1. /\ pc[w] = "find" /\ pc[w] \in Linking /\ UNCHANGED <<payloadVars, nodeVars>>
      /\ pc \in [Writer -> Label] /\ loc \in [Writer -> Local]
  BY DEF FindDown, FindArrive, Linking, IndexSound, ListSound, Ownership, TypeOK
<1>2. loc[w] \in Local /\ loc[w].goal \in Level /\ loc[w].lv \in Level /\ loc[w].goal <= loc[w].lv
  BY <1>1, LinkerFacts
<1>3. \E l \in {"find", "link"}, x \in Local :
        /\ pc' = [pc EXCEPT ![w] = l] /\ loc' = [loc EXCEPT ![w] = x]
        /\ x.sib = loc[w].sib /\ x.right = loc[w].right /\ x.pred = loc[w].pred
        /\ x.goal = loc[w].goal /\ x.goal <= x.lv /\ x.lv <= loc[w].lv /\ x.lv \in Nat
        /\ l = "link" => x.lv = x.goal
  <2>1. CASE FindDown(w)
    <3> DEFINE x == [loc[w] EXCEPT !.lv = @ - 1]
    <3>1. loc[w].lv - 1 \in 0..(MaxHeight - 1) /\ loc[w].goal <= loc[w].lv - 1 /\ loc[w].lv - 1 \in Nat
      BY <1>2, <2>1, SizeFacts DEF FindDown, Level
    <3>2. x = [loc[w] EXCEPT !.lv = loc[w].lv - 1]
      OBVIOUS
    <3>3. /\ x \in Local /\ x.sib = loc[w].sib /\ x.right = loc[w].right /\ x.pred = loc[w].pred
          /\ x.goal = loc[w].goal /\ x.lv = loc[w].lv - 1
      <4> HIDE DEF x
      <4> QED
        BY <1>2, <3>1, <3>2, UpdateLv
    <3>4. pc' = [pc EXCEPT ![w] = "find"] /\ loc' = [loc EXCEPT ![w] = x]
      BY <1>1, <2>1 DEF FindDown
    <3> HIDE DEF x
    <3>5. x.lv <= loc[w].lv
      BY <1>2, <3>3 DEF Level
    <3> QED
      BY <3>1, <3>3, <3>4, <3>5
  <2>2. CASE FindArrive(w)
    <3>1. pc' = [pc EXCEPT ![w] = "link"] /\ loc' = [loc EXCEPT ![w] = loc[w]]
      BY <1>1, <2>2 DEF FindArrive, Goto
    <3>2. loc[w].lv = loc[w].goal
      BY <2>2 DEF FindArrive
    <3>3. loc[w].goal <= loc[w].lv /\ loc[w].lv <= loc[w].lv /\ loc[w].lv \in Nat
      BY <1>2, <3>2 DEF Level
    <3>4. PICK x : x = loc[w]
      OBVIOUS
    <3>5. /\ x \in Local /\ loc' = [loc EXCEPT ![w] = x]
          /\ x.sib = loc[w].sib /\ x.right = loc[w].right /\ x.pred = loc[w].pred
          /\ x.goal = loc[w].goal /\ x.lv = loc[w].lv
      BY <1>2, <3>1, <3>4
    <3> QED
      BY <3>1, <3>2, <3>3, <3>5
  <2> QED
    BY <2>1, <2>2
<1>4. PICK l \in {"find", "link"}, x \in Local :
        /\ pc' = [pc EXCEPT ![w] = l] /\ loc' = [loc EXCEPT ![w] = x]
        /\ x.sib = loc[w].sib /\ x.right = loc[w].right /\ x.pred = loc[w].pred
        /\ x.goal = loc[w].goal /\ x.goal <= x.lv /\ x.lv <= loc[w].lv /\ x.lv \in Nat
        /\ l = "link" => x.lv = x.goal
  BY <1>3
<1>5. loc'[w] = x /\ pc'[w] = l
  BY <1>1, <1>4
<1>6. x.lv < height[loc[w].pred]
  <2>1. loc[w].lv < height[loc[w].pred] /\ loc[w].pred \in Node
    BY <1>1, LinkerFacts
  <2>2. height[loc[w].pred] \in Nat
    BY <2>1, HeightRange DEF IndexSound, ListSound
  <2> QED
    BY <1>2, <1>4, <2>1, <2>2 DEF Level
<1>7. \A v \in Writer \ {w} : pc[v] \in Linking /\ loc[v].sib = loc[w].pred => x.lv < loc[v].goal
  BY <1>1, <1>2, <1>4, LinkerFacts DEF Level
<1>8. LinkerFits(w)
  BY <1>1, <1>4, <1>5, <1>6, <1>7, LinkerFacts DEF LinkerFits, nodeVars
<1>9. l \in Linking /\ loc[w].goal <= x.goal
  BY <1>2, <1>4 DEF Linking, Level
<1> QED
  BY <1>1, <1>2, <1>4, <1>8, <1>9, LinkerStands


\* Or starts again at the top.
LEMMA FreshSearch ==
  ASSUME IndexSound, NEW w \in Writer, pc[w] \in Linking,
         NEW goal \in Level, loc[w].goal <= goal, goal < height[loc[w].sib]
  PROVE  /\ goal <= MaxHeight - 1 /\ HeadNode \in Linked /\ MaxHeight - 1 < height[HeadNode]
         /\ Behind(HeadNode, LinkKey(w))
         /\ \A v \in Writer : pc[v] \in Linking => loc[v].sib # HeadNode
         /\ \A n \in Node, k \in Level : tower[n][k] = loc[w].sib => k < goal
<1>1. HeadNode \in Linked
  BY DEF Linked, IndexSound, ListSound, ListOrder, LinksForward, Ownership, PointersOK,
         Building, Splitting
<1>2. MaxHeight - 1 < height[HeadNode]
  BY SizeFacts DEF IndexSound, TowerOrder, TowerForward
<1>3. loc[w].goal \in Level /\ \A v \in Writer : pc[v] \in Linking => loc[v].sib # HeadNode
  BY LinkerFacts
<1>4. \A n \in Node, k \in Level : tower[n][k] = loc[w].sib => k < goal
  BY <1>3, LinkerFacts DEF Level
<1> QED
  BY <1>1, <1>2, <1>3, <1>4, SizeFacts DEF Behind, Level

LEMMA AttemptTower ==
  ASSUME IndexSound, NEW w \in Writer, LinkBehind(w) \/ LinkCasFails(w)
  PROVE  Gapless' /\ TowerForward' /\ SiblingsApart' /\ LinkersPlaced'
<1>1. /\ pc[w] \in {"link", "cas"} /\ pc[w] \in Linking /\ UNCHANGED <<payloadVars, nodeVars>>
      /\ Retry(w) /\ Ownership
      /\ pc \in [Writer -> Label] /\ loc \in [Writer -> Local]
  BY DEF LinkBehind, LinkCasFails, Linking, IndexSound, ListSound, Ownership, TypeOK
<1>2. PICK l \in {"find", "unlock"}, x \in Local :
        /\ pc' = [pc EXCEPT ![w] = l] /\ loc' = [loc EXCEPT ![w] = x]
        /\ x.sib = loc[w].sib /\ x.right = loc[w].right
        /\ l = "find" => /\ x.pred = HeadNode /\ x.lv = MaxHeight - 1 /\ x.goal \in Level
                         /\ \/ x.goal = loc[w].goal
                            \/ x.goal = loc[w].goal + 1 /\ x.goal < height[loc[w].sib]
  BY <1>1, AttemptDone
<1>3. loc'[w] = x /\ pc'[w] = l
  BY <1>1, <1>2
<1>4. l = "find" => loc[w].goal <= x.goal /\ x.goal < height[loc[w].sib]
  <2>1. loc[w].goal \in Nat /\ loc[w].goal < height[loc[w].sib]
    BY <1>1, LinkerFacts DEF Level
  <2> QED
    BY <1>2, <2>1
<1>5. LinkerFits(w)
  <2> SUFFICES ASSUME pc'[w] \in Linking PROVE LinkerFits(w)
    BY DEF LinkerFits
  <2>2. l = "find"
    BY <1>3 DEF Linking
  <2> QED
    BY <1>1, <1>2, <1>3, <1>4, <2>2, FreshSearch DEF LinkerFits, nodeVars
<1>6. l \in Linking \union {"unlock"} /\ (l \in Linking => l = "find")
  BY DEF Linking
<1> QED
  BY <1>1, <1>2, <1>4, <1>5, <1>6, LinkerStands

\* The sibling is made to lead where its predecessor does, past its own first key.
LEMMA LinkLoadTower ==
  ASSUME IndexSound, NEW w \in Writer, LinkLoad(w)
  PROVE  Gapless' /\ TowerForward' /\ SiblingsApart' /\ LinkersPlaced'
<1>1. PICK sib, pred, goal, m, x : /\ sib = loc[w].sib /\ pred = loc[w].pred /\ goal = loc[w].goal
                                   /\ m = tower[pred][goal] /\ x = [loc[w] EXCEPT !.nx = m]
  OBVIOUS
<1>2. /\ pc[w] = "link" /\ pc[w] \in Linking /\ ~MayFind(w)
      /\ pc' = [pc EXCEPT ![w] = "cas"] /\ loc' = [loc EXCEPT ![w] = x]
      /\ tower' = [tower EXCEPT ![sib][goal] = m]
      /\ UNCHANGED <<payloadVars, data, height>>
  BY <1>1 DEF LinkLoad, Goto, Linking
<1>3. /\ ListSound /\ TypeOK /\ PointersOK /\ TowerForward
      /\ pc \in [Writer -> Label] /\ loc \in [Writer -> Local]
  BY DEF IndexSound, ListSound, Ownership, TypeOK, TowerOrder
<1>4. /\ sib \in Node \ {HeadNode} /\ sib \in Linked /\ pred \in Node /\ goal \in Level
      /\ sib # pred /\ goal < height[sib] /\ loc[w].lv = goal
      /\ LinkKey(w) = Start(sib) /\ LinkKey(w) \in Key
  BY <1>1, <1>2, LinkerFacts
<1>5. m \in Node \union {Null} /\ m \in Nat /\ m # HeadNode
  BY <1>1, <1>3, <1>4 DEF PointersOK, Node, Null, ListSound, ListOrder, LinksForward
<1>6. \A n \in Node, k \in Level :
        tower'[n][k] = IF n = sib /\ k = goal THEN m ELSE tower[n][k]
  <2>1. /\ tower' = [tower EXCEPT ![sib][goal] = m] /\ TypeOK /\ PointersOK
        /\ sib \in Node /\ goal \in Level /\ m \in Nat
    BY <1>2, <1>3, <1>4, <1>5
  <2> QED
    BY <2>1, TowerValue
<1>7. /\ pc'[w] = "cas" /\ loc'[w] = x /\ x.sib = sib /\ x.right = loc[w].right
      /\ x.pred = pred /\ x.goal = goal /\ x.lv = goal /\ x.nx = m
      /\ \A v \in Writer \ {w} : pc'[v] = pc[v] /\ loc'[v] = loc[v]
  <2>1. loc[w] \in Local
    BY <1>3
  <2> QED
    BY <1>1, <1>2, <1>3, <1>4, <1>5, <2>1, UpdateNx
<1>8. LinkFits(w, sib, m)
  <2>1. LinkFits(w, pred, m)
    BY <1>1, <1>2, <1>4, OldLinkFits
  <2>2. m # Null => Behind(sib, Start(m))
    <3>1. HAVE m # Null
    <3>2. m \in Node \ {HeadNode}
      BY <1>5, <3>1
    <3>3. ~StartsAtOrBelow(m, LinkKey(w))
      BY <1>1, <1>2, <1>4, <3>1 DEF MayFind
    <3>4. ~(Start(m) <= LinkKey(w))
      BY <1>3, <1>4, <3>2, <3>3, StartsMeansFirst DEF Start
    <3>5. Start(m) \in Nat /\ Start(sib) \in Nat
      BY <1>3, <1>4, <3>2, NodeFacts
    <3> QED
      BY <1>4, <3>4, <3>5 DEF Behind
  <2> QED
    BY <1>1, <1>4, <2>1, <2>2 DEF LinkFits
<1>9. LinkStep(w, sib, m)
  <2>1. goal <= goal
    BY <1>4 DEF Level
  <2>2. "cas" \in Linking
    BY DEF Linking
  <2> QED
    BY <1>1, <1>2, <1>4, <1>6, <1>7, <2>1, <2>2 DEF LinkStep
<1>10. LinkerFits(w)
  <2>1. ASSUME NEW n \in Node, NEW k \in Level, tower'[n][k] = sib
        PROVE  k < goal
    <3>1. tower'[n][k] = tower[n][k] \/ (tower'[n][k] = tower[pred][goal] /\ k = goal)
      BY <1>1, <1>6
    <3> QED
      BY <1>1, <1>2, <1>4, <2>1, <3>1, LinkerFacts
  <2>2. tower'[sib][goal] = m /\ goal <= goal
    BY <1>4, <1>6 DEF Level
  <2>3. /\ pred \in Linked /\ goal < height[pred] /\ Behind(pred, LinkKey(w))
        /\ \A v \in Writer \ {w} : pc[v] \in Linking /\ loc[v].sib = pred => goal < loc[v].goal
    BY <1>1, <1>2, <1>4, LinkerFacts
  <2> QED
    BY <1>1, <1>4, <1>7, <2>1, <2>2, <2>3 DEF LinkerFits
<1> QED
  BY <1>8, <1>9, <1>10, LinkerFrame, LinkerPlaces

\* And its predecessor to lead to the sibling.
LEMMA LinkCasTower ==
  ASSUME IndexSound, NEW w \in Writer, LinkCas(w)
  PROVE  Gapless' /\ TowerForward' /\ SiblingsApart' /\ LinkersPlaced'
<1>1. PICK sib, pred, goal : sib = loc[w].sib /\ pred = loc[w].pred /\ goal = loc[w].goal
  OBVIOUS
<1>2. /\ pc[w] \in {"link", "cas"} /\ pc[w] = "cas" /\ pc[w] \in Linking /\ NextLevel(w)
      /\ tower' = [tower EXCEPT ![pred][goal] = sib]
      /\ UNCHANGED <<payloadVars, data, height>>
  BY <1>1 DEF LinkCas, Linking
<1>3. /\ Ownership /\ TypeOK /\ PointersOK /\ pc \in [Writer -> Label] /\ loc \in [Writer -> Local]
  BY DEF IndexSound, ListSound, Ownership, TypeOK
<1>4. /\ sib \in Node \ {HeadNode} /\ sib \in Linked /\ pred \in Node /\ goal \in Level
      /\ sib # pred /\ goal < height[sib] /\ goal < height[pred] /\ loc[w].lv = goal
      /\ Behind(pred, Start(sib))
      /\ \A v \in Writer \ {w} : pc[v] \in Linking => loc[v].sib # sib
  BY <1>1, <1>2, LinkerFacts
<1>5. \A n \in Node, k \in Level :
        tower'[n][k] = IF n = pred /\ k = goal THEN sib ELSE tower[n][k]
  <2>1. sib \in Nat
    BY <1>4 DEF Node
  <2>2. /\ tower' = [tower EXCEPT ![pred][goal] = sib] /\ TypeOK /\ PointersOK
        /\ pred \in Node /\ goal \in Level /\ sib \in Nat
    BY <1>2, <1>3, <1>4, <2>1
  <2> QED
    BY <2>2, TowerValue
<1>6. PICK l \in {"find", "unlock"}, x \in Local :
        /\ pc' = [pc EXCEPT ![w] = l] /\ loc' = [loc EXCEPT ![w] = x]
        /\ x.sib = sib /\ x.right = loc[w].right
        /\ l = "find" => /\ x.pred = HeadNode /\ x.lv = MaxHeight - 1 /\ x.goal \in Level
                         /\ x.goal = goal + 1 /\ x.goal < height[sib]
  BY <1>1, <1>2, <1>3, LevelDone
<1>7. /\ loc'[w] = x /\ pc'[w] = l
      /\ \A v \in Writer \ {w} : pc'[v] = pc[v] /\ loc'[v] = loc[v]
  BY <1>3, <1>6
<1>8. l = "find" => goal <= x.goal /\ goal < x.goal
  BY <1>4, <1>6 DEF Level
<1>9. LinkFits(w, pred, sib)
  BY <1>1, <1>4 DEF LinkFits
<1>10. LinkStep(w, pred, sib)
  <2>1. l \in Linking \union {"unlock"} /\ (l \in Linking => l = "find")
    BY DEF Linking
  <2> QED
    BY <1>1, <1>2, <1>5, <1>6, <1>7, <1>8, <2>1 DEF LinkStep
<1>11. LinkerFits(w)
  <2> SUFFICES ASSUME pc'[w] \in Linking PROVE LinkerFits(w)
    BY DEF LinkerFits
  <2>2. l = "find"
    BY <1>7 DEF Linking
  <2>3. \A n \in Node, k \in Level : tower[n][k] = sib => k < x.goal
    BY <1>1, <1>2, <1>6, <1>8, <2>2, FreshSearch
  <2>4. \A n \in Node, k \in Level : tower'[n][k] = sib => k < x.goal
    BY <1>5, <1>8, <2>2, <2>3
  <2> QED
    BY <1>1, <1>2, <1>6, <1>7, <1>8, <2>2, <2>4, FreshSearch DEF LinkerFits
<1> QED
  BY <1>9, <1>10, <1>11, LinkerFrame, LinkerPlaces


-----------------------------------------------------------------------------
(* The hint of the head.                                                   *)

\* Writer w has stored the hint of its node, and not yet the key it is of.
HintAhead(w) == (pc[w] = "order" /\ Rank(w) = 1) \/ pc[w] = "splitData"

\* What a writer is about to store, or has.
HintPlaced(w) ==
  /\ pc[w] = "hint" => Rank(w) = 1
  /\ pc[w] = "order" /\ Rank(w) = 1 => hint[loc[w].cur] = Hint[loc[w].key]
  /\ pc[w] = "splitData" => hint[loc[w].cur] = Hint[first[loc[w].left]]

HeadHinted ==
  \/ order[data[HeadNode]] = <<>>
  \/ hint[HeadNode] = Hint[Start(HeadNode)]
  \/ \E w \in Writer : loc[w].cur = HeadNode /\ HintAhead(w)

LEMMA HeadHintParts == HeadHint <=> (\A w \in Writer : HintPlaced(w)) /\ HeadHinted
BY DEF HeadHint, HintPlaced, HeadHinted, HintAhead

\* A payload nobody adds to keeps its first key.
LEMMA QuietPayload ==
  ASSUME ListSound, [Next]_vars, NEW p \in Payload, p \in Payload', order'[p] = order[p]
  PROVE  first'[p] = first[p]
<1>1. Frozen(p)
  BY SnapshotStep DEF ListSound
<1>2. order[p] # <<>> => 1 \in DOMAIN order[p]
  BY PayloadFacts DEF ListSound
<1>3. order[p] # <<>> => keys'[p][order[p][1]] = keys[p][order[p][1]]
  BY <1>1, <1>2 DEF Frozen
<1> QED
  BY <1>3 DEF first, KeyAt

\* And a key its rank there.
LEMMA QuietRank ==
  ASSUME ListSound, [Next]_vars, NEW v \in Writer, pc[v] \in Appending,
         loc'[v] = loc[v], order'[loc[v].d] = order[loc[v].d]
  PROVE  Rank(v)' = Rank(v)
<1>1. PICK p, o, k : p = loc[v].d /\ o = order[p] /\ k = loc[v].key
  OBVIOUS
<1>2. p \in Payload
  BY <1>1, FirstOnlyAtHead
<1>3. \A r \in DOMAIN o : keys'[p][o[r]] = keys[p][o[r]]
  BY <1>1, <1>2, SnapshotStep DEF Frozen, ListSound
<1>4. {r \in DOMAIN o : keys'[p][o[r]] < k} = {r \in DOMAIN o : keys[p][o[r]] < k}
  BY <1>3
<1> QED
  BY <1>1, <1>4 DEF Rank, SortedPosition, KeyAt

\* Writers the step is not of keep what they have.
LEMMA OthersHint ==
  ASSUME IndexSound, [Next]_vars, NEW v \in Writer, pc'[v] = pc[v], loc'[v] = loc[v],
         pc[v] \in Working => hint'[loc[v].cur] = hint[loc[v].cur],
         pc[v] \in Appending => order'[loc[v].d] = order[loc[v].d],
         pc[v] \in Building => order'[loc[v].left] = order[loc[v].left] /\ loc[v].left \in Payload'
  PROVE  HintPlaced(v)' /\ (HintAhead(v) => HintAhead(v)')
<1>1. ListSound /\ HintPlaced(v)
  BY HeadHintParts DEF IndexSound, TowerOrder
<1>2. pc[v] \in Appending => Rank(v)' = Rank(v)
  BY <1>1, QuietRank
<1>3. pc[v] \in Building => first'[loc[v].left] = first[loc[v].left]
  BY <1>1, QuietPayload, LeftKeepsFirst
<1> QED
  BY <1>1, <1>2, <1>3 DEF HintPlaced, HintAhead, Working, Appending, Building

\* The head's hint stays right while nobody touches the head.
LEMMA HeadHintedStays ==
  ASSUME IndexSound, [Next]_vars,
         data'[HeadNode] = data[HeadNode], hint'[HeadNode] = hint[HeadNode],
         order'[data[HeadNode]] = order[data[HeadNode]], data[HeadNode] \in Payload',
         \A v \in Writer : loc[v].cur = HeadNode /\ HintAhead(v) =>
           loc'[v].cur = HeadNode /\ HintAhead(v)'
  PROVE  HeadHinted'
<1>1. ListSound /\ HeadHinted /\ HeadNode \in Node /\ data[HeadNode] \in Payload
  BY HeadHintParts DEF IndexSound, TowerOrder, ListSound, Ownership, PointersOK
<1>2. first'[data[HeadNode]] = first[data[HeadNode]]
  BY <1>1, QuietPayload
<1>3. CASE order[data[HeadNode]] = <<>>
  BY <1>3 DEF HeadHinted, HeadNode
<1>4. CASE hint[HeadNode] = Hint[Start(HeadNode)]
  <2>1. hint'[HeadNode] = Hint[first'[data'[HeadNode]]]
    BY <1>2, <1>4 DEF Start
  <2> QED
    BY <2>1 DEF HeadHinted, Start, HeadNode
<1>5. CASE \E v \in Writer : loc[v].cur = HeadNode /\ HintAhead(v)
  BY <1>5 DEF HeadHinted, HeadNode
<1> QED
  BY <1>1, <1>3, <1>4, <1>5 DEF HeadHinted


\* A step that stores no hint, order word or payload in a node.
LEMMA HintQuiet ==
  ASSUME IndexSound, [Next]_vars, NEW w \in Writer,
         \A v \in Writer \ {w} : pc'[v] = pc[v] /\ loc'[v] = loc[v],
         Payload \subseteq Payload',
         \A p \in Payload : order'[p] = order[p],
         \A n \in Node : hint'[n] = hint[n] /\ data'[n] = data[n],
         ~HintAhead(w), pc'[w] \notin {"hint", "order", "splitData"}
  PROVE  HeadHint'
<1>1. HintPlaced(w)'
  BY DEF HintPlaced
<1>2. ASSUME NEW v \in Writer \ {w} PROVE HintPlaced(v)' /\ (HintAhead(v) => HintAhead(v)')
  <2>1. /\ pc[v] \in Working => loc[v].cur \in Node
        /\ pc[v] \in Appending => loc[v].d \in Payload
        /\ pc[v] \in Building => loc[v].left \in Payload
    BY FirstOnlyAtHead, LeftKeepsFirst
       DEF IndexSound, ListSound, Ownership, LocalOK, Working
  <2> QED
    BY <2>1, OthersHint
<1>3. HeadHinted'
  <2>1. HeadNode \in Node /\ data[HeadNode] \in Payload
    BY DEF IndexSound, ListSound, Ownership, PointersOK
  <2> QED
    BY <1>2, <2>1, HeadHintedStays
<1>4. \A v \in Writer : HintPlaced(v)'
  BY <1>1, <1>2
<1> QED
  BY <1>3, <1>4 DEF HeadHint, HintPlaced, HeadHinted, HintAhead

LEMMA AppendSlotHint ==
  ASSUME IndexSound, [Next]_vars, NEW w \in Writer, AppendSlot(w)
  PROVE  HeadHint'
<1>1. /\ pc[w] = "slot" /\ pc' = [pc EXCEPT ![w] = IF IsFirst(w) THEN "hint" ELSE "order"]
      /\ loc' = loc /\ UNCHANGED <<order, hint, data>> /\ ListSound
      /\ pc \in [Writer -> Label]
  BY DEF AppendSlot, Goto, nodeVars, IndexSound, ListSound, Ownership, TypeOK
<1>2. Rank(w)' = Rank(w)
  BY <1>1, QuietRank DEF Appending
<1>3. HintPlaced(w)'
  BY <1>1, <1>2 DEF HintPlaced, IsFirst
<1>4. Payload' = Payload /\ ~HintAhead(w)
  BY <1>1 DEF Payload, HintAhead
<1>5. ASSUME NEW v \in Writer \ {w} PROVE HintPlaced(v)' /\ (HintAhead(v) => HintAhead(v)')
  <2>1. pc[v] \in Building => loc[v].left \in Payload
    BY <1>1, LeftKeepsFirst
  <2> QED
    BY <1>1, <1>4, <2>1, OthersHint
<1>6. HeadHinted'
  <2>1. HeadNode \in Node /\ data[HeadNode] \in Payload
    BY <1>1 DEF ListSound, Ownership, PointersOK
  <2> QED
    BY <1>1, <1>4, <1>5, <2>1, HeadHintedStays
<1>7. \A v \in Writer : HintPlaced(v)'
  BY <1>3, <1>5
<1> QED
  BY <1>6, <1>7 DEF HeadHint, HintPlaced, HeadHinted, HintAhead


LEMMA AppendHintHint ==
  ASSUME IndexSound, [Next]_vars, NEW w \in Writer, AppendHint(w)
  PROVE  HeadHint'
<1>1. PICK c, k : c = loc[w].cur /\ k = loc[w].key
  OBVIOUS
<1>2. /\ pc[w] = "hint" /\ pc' = [pc EXCEPT ![w] = "order"] /\ loc' = loc
      /\ hint' = [hint EXCEPT ![c] = Hint[k]] /\ UNCHANGED <<payloadVars, data>>
      /\ ListSound /\ Ownership /\ pc \in [Writer -> Label]
  BY <1>1 DEF AppendHint, Goto, IndexSound, ListSound, Ownership, TypeOK
<1>3. c = HeadNode /\ HeadNode \in Node /\ HeadNode \in DOMAIN hint
  BY <1>1, <1>2
     DEF ListSound, ListOrder, WritersPlaced, Pending, Working, Ownership, TypeOK, PointersOK, Node
<1>4. hint'[HeadNode] = Hint[k] /\ \A n : n # HeadNode => hint'[n] = hint[n]
  BY <1>2, <1>3
<1>5. Rank(w)' = 1
  <2>1. HintPlaced(w)
    BY HeadHintParts DEF IndexSound, TowerOrder
  <2> QED
    BY <1>2, <2>1, QuietRank DEF HintPlaced, Appending, payloadVars
<1>6. HintPlaced(w)' /\ loc'[w].cur = HeadNode /\ HintAhead(w)'
  BY <1>1, <1>2, <1>3, <1>4, <1>5 DEF HintPlaced, HintAhead
<1>7. ASSUME NEW v \in Writer \ {w} PROVE HintPlaced(v)'
  <2>1. pc[v] \in Working => loc[v].cur # HeadNode
    BY <1>1, <1>2, <1>3, WorkersApart DEF Working
  <2>2. pc[v] \in Building => loc[v].left \in Payload'
    BY <1>2, LeftKeepsFirst DEF Payload, payloadVars
  <2> QED
    BY <1>2, <1>4, <2>1, <2>2, OthersHint DEF payloadVars
<1>8. HeadHinted'
  BY <1>6 DEF HeadHinted, HeadNode
<1>9. \A v \in Writer : HintPlaced(v)'
  BY <1>6, <1>7
<1> QED
  BY <1>8, <1>9 DEF HeadHint, HintPlaced, HeadHinted, HintAhead

\* The order word makes the key visible that the hint is of.
LEMMA AppendOrderHint ==
  ASSUME IndexSound, [Next]_vars, NEW w \in Writer, AppendOrder(w)
  PROVE  HeadHint'
<1>1. PICK c, d, k : c = loc[w].cur /\ d = loc[w].d /\ k = loc[w].key
  OBVIOUS
<1>2. /\ pc[w] = "order" /\ pc' = [pc EXCEPT ![w] = "unlock"] /\ loc' = loc
      /\ hint' = hint /\ data' = data /\ pc \in [Writer -> Label]
      /\ ListSound /\ Ownership
  BY DEF AppendOrder, Goto, nodeVars, IndexSound, ListSound, Ownership, TypeOK
<1>3. /\ Payload' = Payload
      /\ \A p \in Payload \ {d} : order'[p] = order[p]
      /\ IF Rank(w) = 1 THEN first'[d] = k ELSE order[d] # <<>> /\ first'[d] = first[d]
  BY <1>1, <1>2, AppendOrderHeld
<1>4. /\ c \in Node /\ data[c] = d /\ HeadNode \in Node /\ data[HeadNode] \in Payload
      /\ \A n \in Node : data[n] = d => n = c
  BY <1>1, <1>2 DEF Ownership, LocalOK, LockOK, PointersOK, PayloadsOK, Working
<1>5. HintPlaced(w) /\ HeadHinted
  BY HeadHintParts DEF IndexSound, TowerOrder
<1>6. HintPlaced(w)'
  BY <1>2 DEF HintPlaced
<1>7. ASSUME NEW v \in Writer \ {w} PROVE HintPlaced(v)' /\ (HintAhead(v) => HintAhead(v)')
  <2>1. pc[v] \in Appending => loc[v].d # d /\ loc[v].d \in Payload
    BY <1>1, <1>2, WorkersApart, FirstOnlyAtHead DEF Working, Appending
  <2>2. pc[v] \in Building => loc[v].left # d /\ loc[v].left \in Payload
    BY <1>1, <1>2, WorkedIsNoHalf, LeftKeepsFirst DEF Working
  <2> QED
    BY <1>2, <1>3, <2>1, <2>2, OthersHint
<1>8. HeadHinted'
  <2>1. CASE c # HeadNode
    <3>1. order'[data[HeadNode]] = order[data[HeadNode]]
      BY <1>3, <1>4, <2>1
    <3> QED
      BY <1>1, <1>2, <1>3, <1>4, <1>7, <2>1, <3>1, HeadHintedStays
  <2>2. CASE c = HeadNode /\ Rank(w) = 1
    <3>1. hint'[HeadNode] = Hint[first'[data'[HeadNode]]]
      BY <1>1, <1>2, <1>3, <1>4, <1>5, <2>2 DEF HintPlaced
    <3> QED
      BY <3>1 DEF HeadHinted, Start, HeadNode
  <2>3. CASE c = HeadNode /\ Rank(w) # 1
    <3>1. \A v \in Writer : loc[v].cur = HeadNode => ~HintAhead(v)
      <4>1. ~HintAhead(w)
        BY <1>2, <2>3 DEF HintAhead
      <4>2. ASSUME NEW v \in Writer \ {w}, HintAhead(v) PROVE loc[v].cur # HeadNode
        BY <1>1, <1>2, <2>3, <4>2, WorkersApart DEF HintAhead, Working
      <4> QED
        BY <4>1, <4>2
    <3>2. hint[HeadNode] = Hint[first[d]]
      BY <1>3, <1>4, <1>5, <2>3, <3>1 DEF HeadHinted, Start
    <3>3. hint'[HeadNode] = Hint[first'[data'[HeadNode]]]
      BY <1>2, <1>3, <1>4, <2>3, <3>2
    <3> QED
      BY <3>3 DEF HeadHinted, Start, HeadNode
  <2> QED
    BY <2>1, <2>2, <2>3
<1>9. \A v \in Writer : HintPlaced(v)'
  BY <1>6, <1>7
<1> QED
  BY <1>8, <1>9 DEF HeadHint, HintPlaced, HeadHinted, HintAhead


LEMMA SplitHintHint ==
  ASSUME IndexSound, [Next]_vars, NEW w \in Writer, SplitHint(w)
  PROVE  HeadHint'
<1>1. PICK c, left : c = loc[w].cur /\ left = loc[w].left
  OBVIOUS
<1>2. /\ pc[w] = "splitHint" /\ pc' = [pc EXCEPT ![w] = "splitData"] /\ loc' = loc
      /\ hint' = [hint EXCEPT ![c] = Hint[keys[left][1]]] /\ UNCHANGED <<payloadVars, data>>
      /\ ListSound /\ Ownership /\ pc \in [Writer -> Label] /\ DOMAIN hint = Node
  BY <1>1 DEF SplitHint, Goto, IndexSound, ListSound, Ownership, TypeOK, PointersOK, Node
<1>3. /\ left \in Payload /\ c \in Node /\ first[left] = keys[left][1]
      /\ HeadNode \in Node /\ data[HeadNode] \in Payload
  BY <1>1, <1>2, LeftKeepsFirst DEF Building, Ownership, PointersOK
<1>4. hint'[c] = Hint[first[left]] /\ \A n : n # c => hint'[n] = hint[n]
  BY <1>2, <1>3
<1>5. UNCHANGED <<order, first>> /\ Payload' = Payload
  BY <1>2 DEF payloadVars, first, KeyAt, Payload
<1>6. HintPlaced(w)' /\ HintAhead(w)' /\ loc'[w].cur = c
  BY <1>1, <1>2, <1>4, <1>5 DEF HintPlaced, HintAhead
<1>7. ASSUME NEW v \in Writer \ {w} PROVE HintPlaced(v)' /\ (HintAhead(v) => HintAhead(v)')
  <2>1. pc[v] \in Working => loc[v].cur # c
    BY <1>1, <1>2, WorkersApart DEF Working
  <2>2. pc[v] \in Building => loc[v].left \in Payload'
    BY <1>2, <1>5, LeftKeepsFirst
  <2> QED
    BY <1>2, <1>4, <1>5, <2>1, <2>2, OthersHint
<1>8. HeadHinted'
  <2>1. CASE c = HeadNode
    BY <1>6, <2>1 DEF HeadHinted, HeadNode
  <2>2. CASE c # HeadNode
    BY <1>1, <1>2, <1>3, <1>4, <1>5, <1>7, <2>2, HeadHintedStays
  <2> QED
    BY <2>1, <2>2
<1>9. \A v \in Writer : HintPlaced(v)'
  BY <1>6, <1>7
<1> QED
  BY <1>8, <1>9 DEF HeadHint, HintPlaced, HeadHinted, HintAhead

\* The payload makes the left half visible that the hint is of.
LEMMA SplitDataHint ==
  ASSUME IndexSound, [Next]_vars, NEW w \in Writer, SplitData(w)
  PROVE  HeadHint'
<1>1. PICK c, left : c = loc[w].cur /\ left = loc[w].left
  OBVIOUS
<1>2. /\ pc[w] = "splitData" /\ pc'[w] \in {"find", "unlock"}
      /\ \A v \in Writer \ {w} : pc'[v] = pc[v] /\ loc'[v] = loc[v]
      /\ UNCHANGED <<order, hint>> /\ Payload' = Payload
      /\ \A n \in Node : data'[n] = IF n = c THEN left ELSE data[n]
  BY <1>1, SplitDataLocals DEF IndexSound, ListSound
<1>3. first' = first /\ HintPlaced(w) /\ ListSound
  BY SplitDataHeld, HeadHintParts DEF IndexSound, TowerOrder
<1>4. HeadNode \in Node /\ data[HeadNode] \in Payload
  BY <1>3 DEF ListSound, Ownership, PointersOK
<1>5. HintPlaced(w)'
  BY <1>2 DEF HintPlaced
<1>6. ASSUME NEW v \in Writer \ {w} PROVE HintPlaced(v)' /\ (HintAhead(v) => HintAhead(v)')
  <2>1. pc[v] \in Building => loc[v].left \in Payload
    BY <1>3, LeftKeepsFirst
  <2> QED
    BY <1>2, <2>1, OthersHint
<1>7. HeadHinted'
  <2>1. CASE c = HeadNode
    <3>1. hint'[HeadNode] = Hint[first'[data'[HeadNode]]]
      BY <1>1, <1>2, <1>3, <1>4, <2>1 DEF HintPlaced
    <3> QED
      BY <3>1 DEF HeadHinted, Start, HeadNode
  <2>2. CASE c # HeadNode
    BY <1>1, <1>2, <1>4, <1>6, <2>2, HeadHintedStays
  <2> QED
    BY <2>1, <2>2
<1>8. \A v \in Writer : HintPlaced(v)'
  BY <1>5, <1>6
<1> QED
  BY <1>7, <1>8 DEF HeadHint, HintPlaced, HeadHinted, HintAhead

\* The other steps.
LEMMA RestHint ==
  ASSUME IndexSound, [Next]_vars, NEW w \in Writer,
         \/ HopForward(w) \/ HopDown(w) \/ Arrive(w) \/ Acquire(w) \/ Backout(w) \/ Admit(w)
         \/ \E h \in 1..MaxHeight : SplitBuild(w, h)
         \/ FindHop(w) \/ FindDown(w) \/ FindArrive(w)
         \/ LinkBehind(w) \/ LinkLoad(w) \/ LinkCas(w) \/ LinkCasFails(w)
         \/ Unlock(w) \/ AllocationThrows(w) \/ \E k \in Key : Insert(w, k)
  PROVE  HeadHint'
<1>1. pc \in [Writer -> Label] /\ loc \in [Writer -> Local] /\ Ownership
  BY DEF IndexSound, ListSound, Ownership, TypeOK
<1>2. /\ \A v \in Writer \ {w} : pc'[v] = pc[v] /\ loc'[v] = loc[v]
      /\ Payload \subseteq Payload' /\ \A p \in Payload : order'[p] = order[p]
      /\ \A n \in Node : hint'[n] = hint[n] /\ data'[n] = data[n]
      /\ ~HintAhead(w) /\ pc'[w] \notin {"hint", "order", "splitData"}
  <2>1. CASE \E h \in 1..MaxHeight : SplitBuild(w, h)
    BY <1>1, <2>1, SplitBuildMemory DEF HintAhead
  <2>2. CASE \/ HopForward(w) \/ HopDown(w) \/ Arrive(w) \/ Acquire(w) \/ Backout(w) \/ Admit(w)
             \/ Unlock(w) \/ AllocationThrows(w) \/ \E k \in Key : Insert(w, k)
    <3>1. UNCHANGED <<order, hint, data>> /\ Payload' = Payload
      BY <2>2 DEF HopForward, HopDown, Arrive, Acquire, Backout, Admit, Unlock, AllocationThrows,
                  Insert, payloadVars, nodeVars, Payload
    <3>2. \A v \in Writer \ {w} : pc'[v] = pc[v] /\ loc'[v] = loc[v]
      BY <1>1, <2>2 DEF HopForward, HopDown, Arrive, Acquire, Backout, Admit, Unlock,
                        AllocationThrows, Insert, Goto
    <3>3. ~HintAhead(w) /\ pc'[w] \notin {"hint", "order", "splitData"}
      BY <1>1, <2>2 DEF HopForward, HopDown, Arrive, Acquire, Backout, Admit, Unlock,
                        AllocationThrows, Insert, Goto, HintAhead, NoCall
    <3> QED
      BY <3>1, <3>2, <3>3
  <2>3. CASE FindHop(w) \/ FindDown(w) \/ FindArrive(w) \/ LinkLoad(w)
    <3>1. UNCHANGED <<order, hint, data>> /\ Payload' = Payload
      BY <2>3 DEF FindHop, FindDown, FindArrive, LinkLoad, payloadVars, nodeVars, Payload
    <3>2. \A v \in Writer \ {w} : pc'[v] = pc[v] /\ loc'[v] = loc[v]
      BY <1>1, <2>3 DEF FindHop, FindDown, FindArrive, LinkLoad, Goto
    <3>3. ~HintAhead(w) /\ pc'[w] \notin {"hint", "order", "splitData"}
      BY <1>1, <2>3 DEF FindHop, FindDown, FindArrive, LinkLoad, Goto, HintAhead
    <3> QED
      BY <3>1, <3>2, <3>3
  <2>4. CASE LinkBehind(w) \/ LinkCas(w) \/ LinkCasFails(w)
    <3>1. UNCHANGED <<order, hint, data>> /\ Payload' = Payload
      BY <2>4 DEF LinkBehind, LinkCas, LinkCasFails, payloadVars, nodeVars, Payload
    <3>2. pc[w] \in {"link", "cas"} /\ (NextLevel(w) \/ Retry(w))
      BY <2>4 DEF LinkBehind, LinkCas, LinkCasFails
    <3>3. \E l \in {"find", "unlock"}, x \in Local :
            pc' = [pc EXCEPT ![w] = l] /\ loc' = [loc EXCEPT ![w] = x]
      BY <1>1, <3>2, AttemptDone
    <3> QED
      BY <1>1, <3>1, <3>2, <3>3 DEF HintAhead
  <2> QED
    BY <2>1, <2>2, <2>3, <2>4
<1> QED
  BY <1>2, HintQuiet

\* A step that changes nothing.
LEMMA StutterHint ==
  ASSUME IndexSound, UNCHANGED vars
  PROVE  HeadHint'
<1>1. UNCHANGED <<keys, order, data, hint, pc, loc>> /\ HeadHint
  BY DEF vars, payloadVars, nodeVars, threadVars, IndexSound, TowerOrder
<1>2. first' = first
  BY <1>1 DEF first, KeyAt, Payload
<1>3. \A w \in Writer : Rank(w)' = Rank(w)
  BY <1>1 DEF Rank, SortedPosition, KeyAt
<1> QED
  BY <1>1, <1>2, <1>3 DEF HeadHint, Start, HeadNode

-----------------------------------------------------------------------------
(* The invariant.                                                          *)

LEMMA TowerInit == Init => TowerOrder
<1> SUFFICES ASSUME Init PROVE TowerOrder
  OBVIOUS
<1>1. /\ Linked = {HeadNode} /\ Node = {HeadNode} /\ \A w \in Writer : pc[w] = "idle"
      /\ data[HeadNode] = 1 /\ order = <<FilledOrder(Preload)>> /\ Payload = {1}
  BY DEF Init, Linked, Node, HeadNode, Building, Payload
<1>2. Gapless /\ SiblingsApart /\ LinkersPlaced
  BY <1>1 DEF Gapless, SiblingsApart, LinkersPlaced, Splitting, Linking
<1>3. TowerForward
  <2>1. height[HeadNode] = MaxHeight /\ \A l \in Level : tower[HeadNode][l] = Null
    BY DEF Init, HeadNode
  <2> QED
    BY <1>1, <2>1 DEF TowerForward
<1>4. HeadHint
  <2>1. CASE Preload = <<>>
    <3>1. order[data[HeadNode]] = <<>>
      BY <1>1, <2>1 DEF FilledOrder
    <3> QED
      BY <1>1, <3>1 DEF HeadHint
  <2>2. CASE Preload # <<>>
    <3>1. /\ Len(Preload) \in 1..Capacity /\ Preload \in Seq(Key)
      BY <2>2, PreloadAssumption, SizeFacts
    <3>2. /\ order[1] # <<>> /\ order[1][1] = 1 /\ keys[1][1] = Preload[1]
      BY <1>1, <3>1, SizeFacts DEF Init, FilledOrder, FilledKeys, Slot
    <3>3. hint[HeadNode] = Hint[Preload[1]]
      BY <2>2 DEF Init, HeadNode
    <3>4. Start(HeadNode) = Preload[1]
      BY <1>1, <3>2 DEF Start, first, KeyAt
    <3> QED
      BY <1>1, <3>3, <3>4 DEF HeadHint
  <2> QED
    BY <2>1, <2>2
<1> QED
  BY <1>2, <1>3, <1>4 DEF TowerOrder

LEMMA TowerStep ==
  ASSUME IndexSound, [Next]_vars
  PROVE  IndexSound'
<1>1. ListSound'
  BY ListStep DEF IndexSound
<1>2. ASSUME NEW w \in Writer, Step(w) PROVE TowerOrder'
  <2>1. CASE HopForward(w) \/ HopDown(w) \/ Arrive(w) \/ Acquire(w) \/ Backout(w) \/ Admit(w) \/ Unlock(w)
    BY <2>1, AsideSteps, AsideNodes, AsideLinkers, RestHint DEF TowerOrder
  <2>2. CASE AppendSlot(w) \/ AppendHint(w) \/ AppendOrder(w) \/ SplitHint(w)
    BY <2>2, AsideSteps, AsideNodes, AsideLinkers, AppendSlotHint, AppendHintHint,
       AppendOrderHint, SplitHintHint DEF TowerOrder
  <2>3. CASE \E h \in 1..MaxHeight : SplitBuild(w, h)
    BY <2>3, SplitBuildTower, RestHint DEF TowerOrder
  <2>4. CASE SplitData(w)
    BY <2>4, SplitDataGapless, SplitDataTower, SplitDataHint DEF TowerOrder
  <2>5. CASE FindHop(w) \/ FindDown(w) \/ FindArrive(w)
    BY <2>5, FindHopTower, FindStaysTower, RestHint DEF TowerOrder
  <2>6. CASE LinkBehind(w) \/ LinkLoad(w) \/ LinkCas(w) \/ LinkCasFails(w)
    BY <2>6, AttemptTower, LinkLoadTower, LinkCasTower, RestHint DEF TowerOrder
  <2> QED
    BY <1>2, <2>1, <2>2, <2>3, <2>4, <2>5, <2>6 DEF Step
<1>3. ASSUME NEW w \in Writer, AllocationThrows(w) \/ \E k \in Key : Insert(w, k)
      PROVE  TowerOrder'
  BY <1>3, AsideSteps, AsideNodes, AsideLinkers, RestHint DEF TowerOrder
<1>4. ASSUME UNCHANGED vars PROVE TowerOrder'
  BY <1>4, AsideStutter, AsideNodes, AsideLinkers, StutterHint DEF TowerOrder
<1> QED
  BY <1>1, <1>2, <1>3, <1>4 DEF Next, Finished, IndexSound

\* In every state the list is in order and the tower leads forward in it, level 0
\* passes over no node, and a writer that links a sibling stands on a node behind
\* it: the descent and link_tower in concert with appends and splits.
THEOREM IndexSoundHolds == Spec => []IndexSound
<1>1. Init => IndexSound
  BY OwnershipInit, ListOrderInit, TowerInit DEF IndexSound, ListSound
<1>2. IndexSound /\ [Next]_vars => IndexSound'
  BY TowerStep
<1> QED
  BY <1>1, <1>2, PTL DEF Spec

\* The search for a predecessor of a sibling never ends on the sibling itself, so
\* link_tower's test for that is never taken.
THEOREM NeverItsOwn == Spec => []NotItsOwnPredecessor
<1>1. IndexSound => NotItsOwnPredecessor
  BY LinkerFacts DEF NotItsOwnPredecessor, Linking
<1> QED
  BY <1>1, IndexSoundHolds, PTL

-----------------------------------------------------------------------------
(* Walks over the links of a level.                                        *)

Less == {ss \in Nat \X Nat : ss[1] < ss[2]}

LEMMA LessIsWellFounded == IsWellFoundedOn(Less, Nat)
BY NatLessThanWellFounded DEF OpToRel, Less

\* Induction, over a set in place of a predicate.
LEMMA NatSteps ==
  ASSUME NEW S \in SUBSET Nat, 0 \in S, \A i \in S : i + 1 \in S
  PROVE  S = Nat
<1> DEFINE B == Nat \ S
<1> SUFFICES ASSUME B # {} PROVE FALSE
  OBVIOUS
<1>1. PICK x \in B : \A y \in B : ~(<<y, x>> \in Less)
  BY LessIsWellFounded, WFMin
<1>2. x \in Nat /\ x # 0 /\ x \notin S
  OBVIOUS
<1>3. x - 1 \in Nat /\ x - 1 < x /\ x - 1 + 1 = x
  BY <1>2
<1>4. <<x - 1, x>> \in Less
  BY <1>2, <1>3 DEF Less
<1>5. x - 1 \in S
  BY <1>1, <1>3, <1>4
<1> QED
  BY <1>2, <1>3, <1>5

AnyLevel == 0..(MaxHeight - 1)

\* A link of any level leads forward, to a node of the list.
LEMMA LinkFacts ==
  ASSUME IndexSound, NEW l \in AnyLevel, NEW n \in Node, LinkOf(n, l) # Null
  PROVE  /\ LinkOf(n, l) \in Linked /\ LinkOf(n, l) \in Node \ {HeadNode}
         /\ Behind(n, Start(LinkOf(n, l)))
<1>1. CASE l = 0
  BY <1>1, NextFacts DEF LinkOf, IndexSound
<1>2. CASE l # 0
  <2>1. l \in Level /\ LinkOf(n, l) = tower[n][l]
    BY <1>2, SizeFacts DEF Level, AnyLevel, LinkOf
  <2>2. tower[n][l] \in Linked /\ tower[n][l] # HeadNode /\ Behind(n, Start(tower[n][l]))
    BY <2>1 DEF IndexSound, TowerOrder, TowerForward, ListSound, ListOrder, LinksForward
  <2> QED
    BY <2>1, <2>2 DEF Linked
<1> QED
  BY <1>1, <1>2

\* g is the walk of n steps over level l.
WalkIs(g, n, l) ==
  g = [i \in 0..n |-> IF i = 0 THEN HeadNode
                      ELSE IF g[i - 1] = Null THEN Null
                      ELSE LinkOf(g[i - 1], l)]

LEMMA WalkExists ==
  ASSUME NEW l, NEW n \in Nat
  PROVE  \E g : WalkIs(g, n, l)
<1> DEFINE S == {m \in Nat : \E g : WalkIs(g, m, l)}
<1>1. 0 \in S
  <2>1. WalkIs([i \in 0..0 |-> HeadNode], 0, l)
    BY DEF WalkIs
  <2> QED
    BY <2>1
<1>2. ASSUME NEW m \in S PROVE m + 1 \in S
  <2>1. PICK g : WalkIs(g, m, l)
    OBVIOUS
  <2>2. PICK x : x = IF g[m] = Null THEN Null ELSE LinkOf(g[m], l)
    OBVIOUS
  <2>3. PICK h : h = [i \in 0..(m + 1) |-> IF i = m + 1 THEN x ELSE g[i]]
    OBVIOUS
  <2>4. ASSUME NEW i \in 0..(m + 1)
        PROVE  h[i] = IF i = 0 THEN HeadNode
                      ELSE IF h[i - 1] = Null THEN Null
                      ELSE LinkOf(h[i - 1], l)
    <3>1. CASE i = m + 1
      BY <2>2, <2>3, <3>1
    <3>2. CASE i # m + 1
      <4>1. i \in 0..m /\ h[i] = g[i] /\ (i # 0 => i - 1 \in 0..(m + 1) /\ h[i - 1] = g[i - 1])
        BY <2>3, <3>2
      <4> QED
        BY <2>1, <4>1 DEF WalkIs
    <3> QED
      BY <3>1, <3>2
  <2>5. WalkIs(h, m + 1, l)
    BY <2>3, <2>4 DEF WalkIs
  <2> QED
    BY <2>5
<1> HIDE DEF S
<1>3. S = Nat
  BY <1>1, <1>2, NatSteps DEF S
<1> QED
  BY <1>3 DEF S

\* Reached is what that walk passes over.
LEMMA ReachedWalk ==
  ASSUME Len(data) \in Nat, NEW l
  PROVE  \E g : /\ WalkIs(g, Len(data), l)
                /\ Reached(l) = {g[i] : i \in 0..Len(data)} \ {Null}
<1>1. PICK h : WalkIs(h, Len(data), l)
  BY WalkExists
<1>2. PICK g : g = CHOOSE walk : walk = [i \in 0..Len(data) |-> IF i = 0 THEN HeadNode
                      ELSE IF walk[i - 1] = Null THEN Null
                      ELSE LinkOf(walk[i - 1], l)]
  OBVIOUS
<1>3. WalkIs(g, Len(data), l)
  BY <1>1, <1>2 DEF WalkIs
<1>4. DOMAIN g = 0..Len(data)
  BY <1>3 DEF WalkIs
<1>5. Reached(l) = {g[i] : i \in DOMAIN g} \ {Null}
  BY <1>2 DEF Reached
<1> QED
  BY <1>3, <1>4, <1>5
\* A walk passes over nodes that ascend, up to its end.
LEMMA WalkAscends ==
  ASSUME IndexSound, NEW l \in AnyLevel, NEW n \in Nat, NEW g, WalkIs(g, n, l)
  PROVE  \A j \in 0..n : g[j] # Null =>
           /\ g[j] \in Node /\ g[j] \in Linked /\ (j > 0 => g[j] # HeadNode)
           /\ \A i \in 0..(j - 1) : g[i] # Null /\ g[i] \in Node /\ Behind(g[i], Start(g[j]))
<1> DEFINE P(j) == g[j] # Null =>
             /\ g[j] \in Node /\ g[j] \in Linked /\ (j > 0 => g[j] # HeadNode)
             /\ \A i \in 0..(j - 1) : g[i] # Null /\ g[i] \in Node /\ Behind(g[i], Start(g[j]))
           S == {j \in Nat : j <= n => P(j)}
<1>1. \A j \in 0..n : g[j] = IF j = 0 THEN HeadNode
                             ELSE IF g[j - 1] = Null THEN Null
                             ELSE LinkOf(g[j - 1], l)
  BY DEF WalkIs
<1>2. HeadNode \in Node /\ HeadNode \in Linked
  BY DEF Linked, IndexSound, ListSound, ListOrder, LinksForward, Ownership, PointersOK,
         Building, Splitting
<1>3. 0 \in S
  <2>1. P(0)
    BY <1>1, <1>2
  <2> QED
    BY <2>1
<1>4. ASSUME NEW j \in S PROVE j + 1 \in S
  <2> SUFFICES ASSUME j + 1 <= n, NEW x, x = g[j + 1], x # Null
               PROVE  /\ x \in Node /\ x \in Linked /\ x # HeadNode
                      /\ \A i \in 0..j : g[i] # Null /\ g[i] \in Node /\ Behind(g[i], Start(x))
    OBVIOUS
  <2>1. j \in Nat /\ j \in 0..n /\ j + 1 \in 0..n /\ P(j)
    OBVIOUS
  <2>2. PICK y : y = g[j]
    OBVIOUS
  <2>3. y # Null /\ x = LinkOf(y, l)
    BY <1>1, <2>1, <2>2
  <2>4. y \in Node /\ (j > 0 => y # HeadNode)
    BY <2>1, <2>2, <2>3
  <2>5. x \in Linked /\ x \in Node \ {HeadNode} /\ Behind(y, Start(x))
    BY <2>3, <2>4, LinkFacts
  <2>6. ASSUME NEW i \in 0..j PROVE g[i] # Null /\ g[i] \in Node /\ Behind(g[i], Start(x))
    <3>1. CASE i = j
      BY <2>2, <2>3, <2>4, <2>5, <3>1
    <3>2. CASE i # j
      <4>1. i \in 0..(j - 1) /\ j > 0
        BY <2>1, <3>2
      <4>2. g[i] # Null /\ g[i] \in Node /\ Behind(g[i], Start(y)) /\ y # HeadNode
        BY <2>1, <2>2, <2>3, <2>4, <4>1
      <4>3. Start(y) \in Nat /\ Start(x) \in Nat /\ (g[i] # HeadNode => Start(g[i]) \in Nat)
        BY <2>4, <2>5, <4>2, NodeFacts DEF IndexSound
      <4> QED
        BY <2>5, <4>2, <4>3 DEF Behind
    <3> QED
      BY <3>1, <3>2
  <2> QED
    BY <2>5, <2>6
<1> HIDE DEF S
<1>5. S = Nat
  BY <1>3, <1>4, NatSteps DEF S
<1> QED
  BY <1>5 DEF S

\* It has an end before it runs out of nodes.
LEMMA WalkEnds ==
  ASSUME IndexSound, NEW l \in AnyLevel, NEW g, WalkIs(g, Len(data), l)
  PROVE  g[Len(data)] = Null
<1> SUFFICES ASSUME g[Len(data)] # Null PROVE FALSE
  OBVIOUS
<1>1. PICK n : n = Len(data)
  OBVIOUS
<1>2. n \in Nat /\ Node = 1..n
  BY <1>1 DEF IndexSound, ListSound, Ownership, TypeOK, Node
<1>3. DOMAIN g = 0..n
  BY <1>1 DEF WalkIs
<1>4. \A j \in 0..n : g[j] # Null /\ g[j] \in Node
  <2>1. /\ g[n] \in Node
        /\ \A i \in 0..(n - 1) : g[i] # Null /\ g[i] \in Node
    BY <1>1, <1>2, WalkAscends
  <2> QED
    BY <1>1, <1>2, <2>1
<1>5. PICK f : f = [j \in 0..n |-> g[j]]
  OBVIOUS
<1>6. f \in [0..n -> 1..n]
  BY <1>2, <1>4, <1>5
<1>7. PICK i \in 0..n, j \in 0..n : i # j /\ f[i] = f[j]
  <2>1. /\ IsFiniteSet(0..n) /\ IsFiniteSet(1..n)
        /\ Cardinality(0..n) = n + 1 /\ Cardinality(1..n) = n
    BY <1>2, FS_Interval
  <2>2. Cardinality(1..n) < Cardinality(0..n)
    BY <1>2, <2>1
  <2> QED
    BY <1>6, <2>1, <2>2, FS_PigeonHole
<1>8. ASSUME NEW a \in 0..n, NEW b \in 0..n, a < b PROVE g[a] # g[b]
  <2>1. a \in 0..(b - 1) /\ b > 0
    BY <1>2, <1>8
  <2>2. g[b] \in Node /\ g[b] # HeadNode /\ Behind(g[a], Start(g[b]))
    BY <1>1, <1>2, <1>4, <2>1, WalkAscends
  <2>3. Start(g[b]) \in Nat
    BY <2>2, NodeFacts DEF IndexSound
  <2> QED
    BY <2>2, <2>3 DEF Behind
<1> QED
  BY <1>2, <1>5, <1>7, <1>8

\* What a walk reaches: the head, what the nodes it reaches lead to, and no more;
\* and one of them leads nowhere.
Walks ==
  \A l \in AnyLevel :
    /\ HeadNode \in Reached(l) /\ Reached(l) \subseteq Linked
    /\ \A n \in Reached(l) : LinkOf(n, l) # Null => LinkOf(n, l) \in Reached(l)
    /\ \E n \in Reached(l) : LinkOf(n, l) = Null

LEMMA WalksHold == IndexSound => Walks
<1> SUFFICES ASSUME IndexSound, NEW l \in AnyLevel
             PROVE  /\ HeadNode \in Reached(l) /\ Reached(l) \subseteq Linked
                    /\ \A n \in Reached(l) : LinkOf(n, l) # Null => LinkOf(n, l) \in Reached(l)
                    /\ \E n \in Reached(l) : LinkOf(n, l) = Null
  BY DEF Walks
<1>1. PICK n : n = Len(data)
  OBVIOUS
<1>2. n \in Nat /\ HeadNode # Null
  BY <1>1 DEF IndexSound, ListSound, Ownership, TypeOK, HeadNode, Null
<1>3. PICK g : WalkIs(g, n, l) /\ Reached(l) = {g[i] : i \in 0..n} \ {Null}
  <2>1. Len(data) \in Nat
    BY <1>1, <1>2
  <2> QED
    BY <1>1, <2>1, ReachedWalk
<1>4. g[n] = Null
  BY <1>1, <1>3, WalkEnds
<1>5. /\ g[0] = HeadNode
      /\ \A j \in 1..n : g[j] = IF g[j - 1] = Null THEN Null ELSE LinkOf(g[j - 1], l)
  BY <1>2, <1>3 DEF WalkIs
<1>6. \A j \in 0..n : g[j] # Null => g[j] \in Linked
  BY <1>2, <1>3, WalkAscends
<1>7. ASSUME NEW m \in Reached(l), LinkOf(m, l) # Null PROVE LinkOf(m, l) \in Reached(l)
  <2>1. PICK i \in 0..n : m = g[i] /\ m # Null
    BY <1>3
  <2>2. i + 1 \in 1..n /\ i + 1 - 1 = i
    BY <1>2, <1>4, <2>1
  <2>3. g[i + 1] = LinkOf(m, l) /\ i + 1 \in 0..n
    BY <1>5, <2>1, <2>2
  <2> QED
    BY <1>3, <1>7, <2>3
<1>8. \E m \in Reached(l) : LinkOf(m, l) = Null
  <2> DEFINE S == {j \in Nat : j <= n => g[j] # Null}
  <2> SUFFICES ASSUME \A m \in Reached(l) : LinkOf(m, l) # Null PROVE FALSE
    OBVIOUS
  <2>1. 0 \in S
    BY <1>2, <1>5
  <2>2. ASSUME NEW j \in S PROVE j + 1 \in S
    <3> SUFFICES ASSUME j + 1 <= n PROVE g[j + 1] # Null
      OBVIOUS
    <3>1. j \in 0..n /\ g[j] # Null /\ j + 1 \in 1..n /\ j + 1 - 1 = j
      BY <1>2
    <3>2. g[j] \in Reached(l)
      BY <1>3, <3>1
    <3> QED
      BY <1>5, <3>1, <3>2
  <2> HIDE DEF S
  <2>3. S = Nat
    BY <2>1, <2>2, NatSteps DEF S
  <2> QED
    BY <1>2, <1>4, <2>3 DEF S
<1> QED
  BY <1>2, <1>3, <1>5, <1>6, <1>7, <1>8

\* No more than any set that is closed under the links.
LEMMA WalkStaysIn ==
  ASSUME Len(data) \in Nat, NEW l, NEW S, HeadNode \in S,
         \A n \in S : LinkOf(n, l) # Null => LinkOf(n, l) \in S
  PROVE  Reached(l) \subseteq S
<1>1. PICK n : n = Len(data)
  OBVIOUS
<1>2. PICK g : WalkIs(g, n, l) /\ Reached(l) = {g[i] : i \in 0..n} \ {Null}
  BY <1>1, ReachedWalk
<1> DEFINE T == {j \in Nat : j <= n => g[j] = Null \/ g[j] \in S}
<1>3. /\ n \in Nat /\ (g[0] = HeadNode)
      /\ \A j \in 1..n : g[j] = IF g[j - 1] = Null THEN Null ELSE LinkOf(g[j - 1], l)
  BY <1>1, <1>2 DEF WalkIs
<1>4. 0 \in T
  BY <1>3
<1>5. ASSUME NEW j \in T PROVE j + 1 \in T
  <2> SUFFICES ASSUME j + 1 <= n PROVE g[j + 1] = Null \/ g[j + 1] \in S
    OBVIOUS
  <2>1. j <= n /\ (g[j] = Null \/ g[j] \in S) /\ j + 1 \in 1..n /\ j + 1 - 1 = j
    BY <1>3
  <2> QED
    BY <1>3, <2>1
<1> HIDE DEF T
<1>6. T = Nat
  BY <1>4, <1>5, NatSteps DEF T
<1> QED
  BY <1>2, <1>3, <1>6 DEF T


-----------------------------------------------------------------------------
(* What the walks show.                                                    *)

\* Level 0 passes over no node of the list, so it reaches them all.
LEMMA ListReached == IndexSound => LinkedIsReachable
<1> SUFFICES ASSUME IndexSound PROVE Linked = Reached(0)
  BY DEF LinkedIsReachable
<1>1. /\ HeadNode \in Reached(0) /\ Reached(0) \subseteq Linked
      /\ \A n \in Reached(0) : LinkOf(n, 0) # Null => LinkOf(n, 0) \in Reached(0)
      /\ \E n \in Reached(0) : LinkOf(n, 0) = Null
  <2>1. 0 \in AnyLevel
    BY SizeFacts DEF AnyLevel
  <2> QED
    BY <2>1, WalksHold DEF Walks
<1>2. \A n : LinkOf(n, 0) = next[data[n]]
  BY DEF LinkOf
<1>3. ListSound /\ Gapless /\ Len(data) \in Nat /\ Linked \subseteq Node
  BY DEF IndexSound, TowerOrder, ListSound, Ownership, TypeOK, Linked
<1>4. ASSUME NEW m \in Linked \ Reached(0) PROVE FALSE
  <2>1. m # HeadNode
    BY <1>1
  <2> DEFINE S == {n \in Reached(0) : Behind(n, Start(m))}
  <2>2. ASSUME NEW n \in S
        PROVE  LinkOf(n, 0) # Null /\ LinkOf(n, 0) \in S
    <3>1. PICK x : x = LinkOf(n, 0)
      OBVIOUS
    <3>2. n \in Linked /\ Behind(n, Start(m)) /\ x = next[data[n]]
      BY <1>1, <1>2, <3>1
    <3>3. x # Null /\ Start(x) <= Start(m)
      BY <1>3, <2>1, <3>2 DEF Gapless
    <3>4. x \in Reached(0) /\ x \in Linked
      BY <1>1, <3>1, <3>3
    <3>5. x \in Node \ {HeadNode}
      BY <1>3, <3>2, <3>3, NextFacts
    <3>6. Start(x) # Start(m)
      BY <1>3, <2>1, <3>4, <3>5, StartsApart
    <3>7. Start(x) \in Nat /\ Start(m) \in Nat
      BY <1>3, <2>1, <3>5, NodeFacts
    <3>8. Behind(x, Start(m))
      BY <3>3, <3>6, <3>7 DEF Behind
    <3> QED
      BY <3>1, <3>3, <3>4, <3>8
  <2>3. HeadNode \in S
    BY <1>1 DEF Behind
  <2> HIDE DEF S
  <2>4. Reached(0) \subseteq S
    BY <1>3, <2>2, <2>3, WalkStaysIn
  <2> QED
    BY <1>1, <2>2, <2>4
<1> QED
  BY <1>1, <1>4

\* In every state, also between the two stores of a split, level 0 leads to exactly
\* the nodes in the list, and a tower link leads from a node tall enough to be
\* walked at its level to a listed one beyond it: link_tower and split_and_insert.
THEOREM TowerLeadsForward == Spec => []TowerSound
<1>1. IndexSound => TowerSound
  <2> SUFFICES ASSUME IndexSound, NEW n \in Node, NEW l \in Level, NEW m, m = tower[n][l], m # Null
               PROVE  /\ m \in Linked /\ height[n] > l /\ height[m] > l
                      /\ n # HeadNode => FirstKey(n) < FirstKey(m)
    BY ListReached DEF TowerSound
  <2>1. m \in Linked /\ l < height[n] /\ l < height[m] /\ Behind(n, Start(m))
    BY DEF IndexSound, TowerOrder, TowerForward
  <2>2. m \in Node \ {HeadNode}
    BY <2>1 DEF Linked, IndexSound, ListSound, ListOrder, LinksForward
  <2>3. height[n] > l /\ height[m] > l
    BY <2>1, <2>2, HeightRange DEF IndexSound, ListSound, Level
  <2>4. \A a \in Node \ {HeadNode} : FirstKey(a) = Start(a)
    BY NodeFacts DEF IndexSound, FirstKey, Start, first, KeyAt
  <2> QED
    BY <2>1, <2>2, <2>3, <2>4 DEF Behind
<1> QED
  BY <1>1, IndexSoundHolds, PTL


-----------------------------------------------------------------------------
(* Linking one sibling never unlinks another.                              *)

\* What links a level, new and old, to have its walk grow: a walk passes through
\* nodes outside Avoided only, and where the old link led, the new walk gets to.
LEMMA WalkGrows ==
  ASSUME IndexSound, IndexSound', NEW l \in AnyLevel, NEW Avoided, HeadNode \notin Avoided,
         \A n \in Linked : LinkOf(n, l) \notin Avoided,
         \A n \in Linked \ Avoided : n \in Reached(l)' /\ LinkOf(n, l) # Null =>
           LinkOf(n, l) \in Reached(l)'
  PROVE  Reached(l) \subseteq Reached(l)'
<1>1. PICK R : R = Reached(l)'
  OBVIOUS
<1>2. HeadNode \in R
  <2>1. Walks'
    BY WalksHold, PTL
  <2> QED
    BY <1>1, <2>1 DEF Walks, AnyLevel, HeadNode
<1>3. HeadNode \in Linked
  BY WalksHold DEF Walks
<1> DEFINE S == {n \in R : n \in Linked \ Avoided}
<1>4. ASSUME NEW n \in S, LinkOf(n, l) # Null PROVE LinkOf(n, l) \in S
  <2>1. n \in Linked \ Avoided /\ n \in Node
    BY DEF Linked
  <2>2. LinkOf(n, l) \in R /\ LinkOf(n, l) \notin Avoided
    BY <1>1, <1>4, <2>1
  <2> QED
    BY <1>4, <2>1, <2>2, LinkFacts
<1>5. HeadNode \in S
  BY <1>2, <1>3
<1>6. Len(data) \in Nat
  BY DEF IndexSound, ListSound, Ownership, TypeOK
<1> HIDE DEF S
<1>7. Reached(l) \subseteq S
  BY <1>4, <1>5, <1>6, WalkStaysIn
<1> QED
  BY <1>1, <1>7 DEF S

LEMMA WalkGrowsAll ==
  ASSUME IndexSound, IndexSound', NEW l \in AnyLevel,
         \A n \in Linked : n \in Reached(l)' /\ LinkOf(n, l) # Null => LinkOf(n, l) \in Reached(l)'
  PROVE  Reached(l) \subseteq Reached(l)'
<1>1. PICK A : A = {}
  OBVIOUS
<1>2. /\ HeadNode \notin A
      /\ \A n \in Linked : LinkOf(n, l) \notin A
      /\ \A n \in Linked \ A : n \in Reached(l)' /\ LinkOf(n, l) # Null =>
           LinkOf(n, l) \in Reached(l)'
  BY <1>1
<1> QED
  BY <1>2, WalkGrows

\* Which steps change a link.
LEMMA LinkWriters ==
  ASSUME [Next]_vars
  PROVE  \/ UNCHANGED <<next, data, tower>>
         \/ \E w \in Writer : \/ SplitData(w) \/ LinkLoad(w) \/ LinkCas(w)
                              \/ \E h \in 1..MaxHeight : SplitBuild(w, h)
<1>1. ASSUME NEW w \in Writer, Step(w)
      PROVE  \/ UNCHANGED <<next, data, tower>>
             \/ SplitData(w) \/ LinkLoad(w) \/ LinkCas(w)
             \/ \E h \in 1..MaxHeight : SplitBuild(w, h)
  BY <1>1 DEF Step, HopForward, HopDown, Arrive, Acquire, Backout, Admit, AppendSlot, AppendHint,
     AppendOrder, SplitHint, FindHop, FindDown, FindArrive, LinkBehind, LinkCasFails, Unlock,
     payloadVars, nodeVars
<1>2. ASSUME NEW w \in Writer, AllocationThrows(w) \/ \E k \in Key : Insert(w, k)
      PROVE  UNCHANGED <<next, data, tower>>
  BY <1>2 DEF AllocationThrows, Insert, payloadVars, nodeVars
<1>3. UNCHANGED vars => UNCHANGED <<next, data, tower>>
  BY DEF vars, payloadVars, nodeVars
<1> QED
  BY <1>1, <1>2, <1>3 DEF Next, Finished

LEMMA LevelsStep ==
  ASSUME IndexSound, [Next]_vars, NEW l \in AnyLevel
  PROVE  Reached(l) \subseteq Reached(l)'
<1>1. IndexSound' /\ ListSound
  BY TowerStep DEF IndexSound
<1>2. /\ HeadNode \in Linked /\ Linked \subseteq Node
      /\ \A n \in Node : LinkOf(n, l) # Null => LinkOf(n, l) # HeadNode /\ LinkOf(n, l) \in Linked
  BY WalksHold, LinkFacts DEF Walks, Linked
<1>3. \A n \in Reached(l)' : LinkOf(n, l)' # Null => LinkOf(n, l)' \in Reached(l)'
  <2>1. Walks'
    BY <1>1, WalksHold, PTL
  <2> QED
    BY <2>1 DEF Walks, AnyLevel, LinkOf
<1>4. ASSUME \A n \in Linked : LinkOf(n, l)' = LinkOf(n, l)
      PROVE  Reached(l) \subseteq Reached(l)'
  <2>1. \A n \in Linked : n \in Reached(l)' /\ LinkOf(n, l) # Null => LinkOf(n, l) \in Reached(l)'
    BY <1>3, <1>4
  <2> QED
    BY <1>1, <2>1, WalkGrowsAll
<1>5. CASE UNCHANGED <<next, data, tower>>
  BY <1>4, <1>5 DEF LinkOf
<1>6. ASSUME NEW w \in Writer, NEW h \in 1..MaxHeight, SplitBuild(w, h)
      PROVE  Reached(l) \subseteq Reached(l)'
  <2>1. \A n \in Node : data'[n] = data[n] /\ next'[data[n]] = next[data[n]] /\ tower'[n] = tower[n]
    BY <1>1, <1>6, SplitBuildMemory DEF ListSound, Ownership, PointersOK
  <2> QED
    BY <1>2, <1>4, <2>1 DEF LinkOf
<1>7. ASSUME NEW w \in Writer, SplitData(w) PROVE Reached(l) \subseteq Reached(l)'
  <2>1. CASE l # 0
    <3>1. tower' = tower
      BY <1>1, <1>7, SplitDataLocals DEF ListSound
    <3> QED
      BY <1>4, <2>1, <3>1 DEF LinkOf
  <2>2. CASE l = 0
    <3>1. PICK c, sib : c = loc[w].cur /\ sib = loc[w].sib
      OBVIOUS
    <3>2. /\ c \in Linked /\ sib \in Node \ {HeadNode} /\ sib \notin Linked
          /\ next'[data'[c]] = sib /\ next'[data'[sib]] = next[data[c]]
          /\ \A n \in Node \ {c, sib} : next'[data'[n]] = next[data[n]]
      BY <1>1, <1>7, <3>1, SplitDataPlaces
    <3>3. sib # Null
      BY <3>2 DEF Node, Null
    <3>4. \A n : LinkOf(n, l) = next[data[n]] /\ LinkOf(n, l)' = next'[data'[n]]
      BY <2>2 DEF LinkOf
    <3>5. ASSUME NEW n \in Linked, n \in Reached(l)', LinkOf(n, l) # Null
          PROVE  LinkOf(n, l) \in Reached(l)'
      <4>1. CASE n # c
        BY <1>2, <1>3, <3>2, <3>4, <3>5, <4>1
      <4>2. CASE n = c
        <5>1. sib \in Reached(l)'
          BY <1>3, <3>2, <3>3, <3>4, <3>5, <4>2
        <5> QED
          BY <1>3, <3>2, <3>4, <3>5, <4>2, <5>1
      <4> QED
        BY <4>1, <4>2
    <3> QED
      BY <1>1, <3>5, WalkGrowsAll
  <2> QED
    BY <2>1, <2>2
<1>8. ASSUME NEW w \in Writer, LinkLoad(w) \/ LinkCas(w)
      PROVE  Reached(l) \subseteq Reached(l)'
  <2>1. PICK sib, pred, goal, x : /\ sib = loc[w].sib /\ pred = loc[w].pred
                                  /\ goal = loc[w].goal /\ x = tower[pred][goal]
    OBVIOUS
  <2>2. /\ pc[w] \in Linking /\ data' = data /\ next' = next /\ TypeOK /\ PointersOK
    BY <1>1, <1>8 DEF LinkLoad, LinkCas, payloadVars, Linking, ListSound, Ownership
  <2>3. /\ sib \in Node \ {HeadNode} /\ pred \in Node /\ goal \in Level /\ sib # pred
        /\ \A n \in Node, k \in Level : tower[n][k] = sib => k < goal
        /\ pc[w] = "cas" => tower[sib][goal] = loc[w].nx
    BY <2>1, <2>2, LinkerFacts
  <2>4. sib \in Nat /\ sib # Null /\ x \in Nat
    <3>1. x \in Node \union {Null}
      BY <2>1, <2>2, <2>3 DEF PointersOK
    <3> QED
      BY <2>3, <3>1 DEF Node, Null
  <2>5. goal \in AnyLevel /\ goal # 0 /\ (l # 0 => l \in Level)
    BY <2>3, SizeFacts DEF AnyLevel, Level
  <2>6. CASE LinkLoad(w)
    <3>1. tower' = [tower EXCEPT ![sib][goal] = x]
      BY <2>1, <2>6 DEF LinkLoad
    <3>2. \A n \in Node, k \in Level : tower'[n][k] = IF n = sib /\ k = goal THEN x ELSE tower[n][k]
      <4>1. /\ tower' = [tower EXCEPT ![sib][goal] = x] /\ TypeOK /\ PointersOK
            /\ sib \in Node /\ goal \in Level /\ x \in Nat
        BY <2>2, <2>3, <2>4, <3>1
      <4> QED
        BY <4>1, TowerValue
    <3>3. \A n \in Linked \ {sib} : LinkOf(n, l)' = LinkOf(n, l)
      BY <1>2, <2>2, <2>5, <3>2 DEF LinkOf
    <3>4. CASE l = goal
      <4>1. \A n \in Linked : LinkOf(n, l) \notin {sib}
        <5> SUFFICES ASSUME NEW n \in Linked, LinkOf(n, l) = sib PROVE FALSE
          OBVIOUS
        <5>1. n \in Node /\ tower[n][goal] = sib
          BY <1>2, <2>5, <3>4 DEF LinkOf
        <5>2. goal < goal
          BY <2>3, <5>1
        <5> QED
          BY <2>3, <5>2 DEF Level
      <4>2. \A n \in Linked \ {sib} : n \in Reached(l)' /\ LinkOf(n, l) # Null =>
              LinkOf(n, l) \in Reached(l)'
        BY <1>3, <3>3
      <4>3. HeadNode \notin {sib}
        BY <2>3
      <4> QED
        BY <1>1, <4>1, <4>2, <4>3, WalkGrows
    <3>5. CASE l # goal
      <4>1. \A n \in Linked : LinkOf(n, l)' = LinkOf(n, l)
        BY <1>2, <2>2, <2>5, <3>2, <3>5 DEF LinkOf
      <4> QED
        BY <1>4, <4>1
    <3> QED
      BY <3>4, <3>5
  <2>7. CASE LinkCas(w)
    <3>1. tower' = [tower EXCEPT ![pred][goal] = sib] /\ tower[pred][goal] = tower[sib][goal]
      BY <2>1, <2>3, <2>7 DEF LinkCas
    <3>2. \A n \in Node, k \in Level : tower'[n][k] = IF n = pred /\ k = goal THEN sib ELSE tower[n][k]
      <4>1. /\ tower' = [tower EXCEPT ![pred][goal] = sib] /\ TypeOK /\ PointersOK
            /\ pred \in Node /\ goal \in Level /\ sib \in Nat
        BY <2>2, <2>3, <2>4, <3>1
      <4> QED
        BY <4>1, TowerValue
    <3>3. CASE l = goal
      <4>1. \A n \in Node : LinkOf(n, l) = tower[n][goal] /\ LinkOf(n, l)' = tower'[n][goal]
        BY <2>5, <3>3 DEF LinkOf
      <4>2. ASSUME NEW n \in Linked, n \in Reached(l)', LinkOf(n, l) # Null
            PROVE  LinkOf(n, l) \in Reached(l)'
        <5>1. CASE n # pred
          BY <1>2, <1>3, <2>3, <3>2, <4>1, <4>2, <5>1
        <5>2. CASE n = pred
          <6>1. sib \in Reached(l)'
            BY <1>3, <2>3, <2>4, <3>2, <4>1, <4>2, <5>2
          <6>2. LinkOf(sib, l)' = LinkOf(n, l)
            BY <2>3, <3>1, <3>2, <4>1, <5>2
          <6> QED
            BY <1>3, <4>2, <6>1, <6>2
        <5> QED
          BY <5>1, <5>2
      <4> QED
        BY <1>1, <4>2, WalkGrowsAll
    <3>4. CASE l # goal
      <4>1. \A n \in Linked : LinkOf(n, l)' = LinkOf(n, l)
        BY <1>2, <2>2, <2>5, <3>2, <3>4 DEF LinkOf
      <4> QED
        BY <1>4, <4>1
    <3> QED
      BY <3>3, <3>4
  <2> QED
    BY <1>8, <2>6, <2>7
<1> QED
  BY <1>5, <1>6, <1>7, <1>8, LinkWriters

\* A node that a walk at some level reaches stays reached at that level, whoever
\* splits or links meanwhile: link_tower's compare-and-swap never drops a link.
THEOREM LevelsGrow == Spec => LevelsOnlyGrow
<1>1. IndexSound /\ [Next]_vars => [\A l \in AnyLevel : Reached(l) \subseteq Reached(l)']_vars
  BY LevelsStep
<1> QED
  BY <1>1, IndexSoundHolds, PTL DEF Spec, LevelsOnlyGrow, AnyLevel

-----------------------------------------------------------------------------
(* Where a descent ends.                                                   *)

\* The step a descent for k makes from level l of node n.
StepFrom(n, l, k) ==
  LET nx == LinkOf(n, l)
  IN  IF nx # Null /\ StartsAtOrBelow(nx, k) THEN <<nx, l>>
      ELSE IF l > 0 THEN <<n, l - 1>>
      ELSE <<n, l>>

\* g is the descent for k, of n steps.
DescentIs(g, n, k) ==
  g = [i \in 0..n |-> IF i = 0 THEN <<HeadNode, MaxHeight - 1>>
                      ELSE StepFrom(g[i - 1][1], g[i - 1][2], k)]

LEMMA DescentExists ==
  ASSUME NEW k, NEW n \in Nat
  PROVE  \E g : DescentIs(g, n, k)
<1> DEFINE S == {m \in Nat : \E g : DescentIs(g, m, k)}
<1>1. 0 \in S
  <2>1. DescentIs([i \in 0..0 |-> <<HeadNode, MaxHeight - 1>>], 0, k)
    BY DEF DescentIs
  <2> QED
    BY <2>1
<1>2. ASSUME NEW m \in S PROVE m + 1 \in S
  <2>1. PICK g : DescentIs(g, m, k)
    OBVIOUS
  <2>2. PICK x : x = StepFrom(g[m][1], g[m][2], k)
    OBVIOUS
  <2>3. PICK h : h = [i \in 0..(m + 1) |-> IF i = m + 1 THEN x ELSE g[i]]
    OBVIOUS
  <2>4. ASSUME NEW i \in 0..(m + 1)
        PROVE  h[i] = IF i = 0 THEN <<HeadNode, MaxHeight - 1>>
                      ELSE StepFrom(h[i - 1][1], h[i - 1][2], k)
    <3>1. CASE i = m + 1
      BY <2>2, <2>3, <3>1
    <3>2. CASE i # m + 1
      <4>1. i \in 0..m /\ h[i] = g[i] /\ (i # 0 => i - 1 \in 0..(m + 1) /\ h[i - 1] = g[i - 1])
        BY <2>3, <3>2
      <4> QED
        BY <2>1, <4>1 DEF DescentIs
    <3> QED
      BY <3>1, <3>2
  <2>5. DescentIs(h, m + 1, k)
    BY <2>3, <2>4 DEF DescentIs
  <2> QED
    BY <2>5
<1> HIDE DEF S
<1>3. S = Nat
  BY <1>1, <1>2, NatSteps DEF S
<1> QED
  BY <1>3 DEF S

\* Descent is where it ends.
LEMMA DescentPath ==
  ASSUME NEW n \in Nat, n = Len(data) + MaxHeight, NEW k
  PROVE  \E g : DescentIs(g, n, k) /\ Descent(k) = g[n][1]
<1>1. PICK h : DescentIs(h, n, k)
  BY DescentExists
<1>2. PICK g : g = CHOOSE step : step = [i \in 0..(Len(data) + MaxHeight) |->
                      IF i = 0 THEN <<HeadNode, MaxHeight - 1>>
                      ELSE StepFrom(step[i - 1][1], step[i - 1][2], k)]
  OBVIOUS
<1>3. DescentIs(g, n, k)
  BY <1>1, <1>2 DEF DescentIs
<1>4. Descent(k) = g[Len(data) + MaxHeight][1]
  BY <1>2 DEF Descent, StepFrom
<1> QED
  BY <1>3, <1>4

\* It goes on no further.
DescentOver(n, l, k) == l = 0 /\ ~(LinkOf(n, 0) # Null /\ StartsAtOrBelow(LinkOf(n, 0), k))

\* The nodes behind n, and how many steps it takes at most to get to level l of n.
NodesBehind(n) == {m \in Node : n # HeadNode /\ Behind(m, Start(n))}
Depth(n, l) == Cardinality(NodesBehind(n)) + (MaxHeight - 1) - l

LEMMA BehindCount ==
  ASSUME IndexSound, NEW n \in Node
  PROVE  /\ IsFiniteSet(NodesBehind(n)) /\ Cardinality(NodesBehind(n)) \in Nat
         /\ Cardinality(NodesBehind(n)) < Len(data)
<1>1. Len(data) \in Nat /\ Node = 1..Len(data)
  BY DEF IndexSound, ListSound, Ownership, TypeOK, Node
<1>2. IsFiniteSet(Node) /\ Cardinality(Node) = Len(data)
  <2>1. PICK a : a = Len(data)
    OBVIOUS
  <2>2. a \in Nat /\ 1 \in Int /\ a \in Int
    BY <1>1, <2>1
  <2>3. IsFiniteSet(1..a) /\ Cardinality(1..a) = a
    BY <2>2, FS_Interval
  <2> QED
    BY <1>1, <2>1, <2>3
<1>3. n \notin NodesBehind(n)
  BY NodeFacts DEF NodesBehind, Behind, IndexSound
<1>4. NodesBehind(n) \subseteq Node
  BY DEF NodesBehind
<1>5. NodesBehind(n) # Node
  BY <1>3
<1> QED
  BY <1>1, <1>2, <1>4, <1>5, FS_Subset, FS_CardinalityType

\* A hop has one more behind it.
LEMMA HopDeepens ==
  ASSUME IndexSound, NEW n \in Node, NEW x \in Node \ {HeadNode}, Behind(n, Start(x))
  PROVE  Cardinality(NodesBehind(n)) + 1 <= Cardinality(NodesBehind(x))
<1>1. n \notin NodesBehind(n)
  BY NodeFacts DEF NodesBehind, Behind, IndexSound
<1>2. ASSUME NEW m \in NodesBehind(n) \union {n} PROVE m \in NodesBehind(x)
  <2>1. m = n \/ (m \in Node /\ n # HeadNode /\ Behind(m, Start(n)))
    BY DEF NodesBehind
  <2>2. m \in Node /\ \A a \in Node \ {HeadNode} : Start(a) \in Nat
    BY <2>1, NodeFacts DEF IndexSound
  <2> QED
    BY <2>1, <2>2 DEF NodesBehind, Behind
<1>3. /\ IsFiniteSet(NodesBehind(n)) /\ IsFiniteSet(NodesBehind(x))
      /\ Cardinality(NodesBehind(n)) \in Nat /\ Cardinality(NodesBehind(x)) \in Nat
  BY BehindCount
<1>4. /\ IsFiniteSet(NodesBehind(n) \union {n})
      /\ Cardinality(NodesBehind(n) \union {n}) = Cardinality(NodesBehind(n)) + 1
  BY <1>1, <1>3, FS_AddElement
<1> QED
  BY <1>2, <1>3, <1>4, FS_Subset

\* What a step of a descent does: it gets deeper, until it ends.
LEMMA DescentStep ==
  ASSUME IndexSound, NEW k \in Key, NEW n \in Linked, NEW l \in AnyLevel, AtOrBelow(n, k)
  PROVE  \/ DescentOver(n, l, k) /\ StepFrom(n, l, k) = <<n, l>>
         \/ \E m \in Linked, j \in AnyLevel :
              StepFrom(n, l, k) = <<m, j>> /\ AtOrBelow(m, k) /\ Depth(n, l) + 1 <= Depth(m, j)
<1>1. PICK x : x = LinkOf(n, l)
  OBVIOUS
<1>2. n \in Node
  BY DEF Linked
<1>3. l \in Nat /\ l <= MaxHeight - 1 /\ MaxHeight \in Nat
  BY SizeFacts DEF AnyLevel
<1>4. CASE x # Null /\ StartsAtOrBelow(x, k)
  <2>1. x \in Linked /\ x \in Node \ {HeadNode} /\ Behind(n, Start(x))
    BY <1>1, <1>2, <1>4, LinkFacts
  <2>2. AtOrBelow(x, k)
    BY <1>4, <2>1, StartsMeansFirst DEF AtOrBelow, Start, IndexSound
  <2>3. StepFrom(n, l, k) = <<x, l>>
    BY <1>1, <1>4 DEF StepFrom
  <2>4. /\ Cardinality(NodesBehind(n)) + 1 <= Cardinality(NodesBehind(x))
        /\ Cardinality(NodesBehind(n)) \in Nat /\ Cardinality(NodesBehind(x)) \in Nat
    BY <1>2, <2>1, HopDeepens, BehindCount
  <2>5. Depth(n, l) + 1 <= Depth(x, l)
    BY <1>3, <2>4 DEF Depth
  <2> QED
    BY <2>1, <2>2, <2>3, <2>5
<1>5. CASE ~(x # Null /\ StartsAtOrBelow(x, k)) /\ l > 0
  <2>1. StepFrom(n, l, k) = <<n, l - 1>> /\ l - 1 \in AnyLevel
    BY <1>1, <1>3, <1>5 DEF StepFrom, AnyLevel
  <2>2. Cardinality(NodesBehind(n)) \in Nat
    BY <1>2, BehindCount
  <2>3. Depth(n, l) + 1 <= Depth(n, l - 1)
    BY <1>3, <2>2 DEF Depth
  <2> QED
    BY <2>1, <2>3
<1>6. CASE ~(x # Null /\ StartsAtOrBelow(x, k)) /\ l = 0
  BY <1>1, <1>6 DEF StepFrom, DescentOver
<1> QED
  BY <1>3, <1>4, <1>5, <1>6

\* A descent is over when Descent stops.
LEMMA DescentEnds ==
  ASSUME IndexSound, NEW k \in Key
  PROVE  Descent(k) \in Linked /\ AtOrBelow(Descent(k), k) /\ DescentOver(Descent(k), 0, k)
<1>1. PICK n : n = Len(data) + MaxHeight
  OBVIOUS
<1>2. n \in Nat /\ Len(data) \in Nat
  BY <1>1, SizeFacts DEF IndexSound, ListSound, Ownership, TypeOK
<1>3. PICK g : DescentIs(g, n, k) /\ Descent(k) = g[n][1]
  BY <1>1, <1>2, DescentPath
<1>4. /\ g[0] = <<HeadNode, MaxHeight - 1>>
      /\ \A j \in 1..n : g[j] = StepFrom(g[j - 1][1], g[j - 1][2], k)
  BY <1>2, <1>3 DEF DescentIs
<1> DEFINE P(i) == \E m \in Linked, l \in AnyLevel :
                     g[i] = <<m, l>> /\ AtOrBelow(m, k) /\ (DescentOver(m, l, k) \/ i <= Depth(m, l))
           S == {i \in Nat : i <= n => P(i)}
<1>5. 0 \in S
  <2>1. HeadNode \in Linked /\ MaxHeight - 1 \in AnyLevel /\ HeadNode \in Node
    BY WalksHold, SizeFacts DEF Walks, AnyLevel, Linked
  <2>2. Cardinality(NodesBehind(HeadNode)) \in Nat
    BY <2>1, BehindCount
  <2>3. 0 <= Depth(HeadNode, MaxHeight - 1)
    BY <2>2, SizeFacts DEF Depth
  <2> QED
    BY <1>4, <2>1, <2>3 DEF AtOrBelow
<1>6. ASSUME NEW i \in S PROVE i + 1 \in S
  <2> SUFFICES ASSUME i + 1 <= n PROVE P(i + 1)
    OBVIOUS
  <2>1. i \in Nat /\ i <= n /\ i + 1 \in 1..n /\ i + 1 - 1 = i
    BY <1>2
  <2>2. PICK m \in Linked, l \in AnyLevel :
          g[i] = <<m, l>> /\ AtOrBelow(m, k) /\ (DescentOver(m, l, k) \/ i <= Depth(m, l))
    BY <2>1
  <2>3. g[i + 1] = StepFrom(m, l, k)
    BY <1>4, <2>1, <2>2
  <2>4. CASE DescentOver(m, l, k) /\ StepFrom(m, l, k) = <<m, l>>
    BY <2>2, <2>3, <2>4
  <2>5. CASE ~DescentOver(m, l, k)
    <3>1. PICK a \in Linked, j \in AnyLevel :
            StepFrom(m, l, k) = <<a, j>> /\ AtOrBelow(a, k) /\ Depth(m, l) + 1 <= Depth(a, j)
      BY <2>2, <2>5, DescentStep
    <3>2. Depth(m, l) \in Int /\ Depth(a, j) \in Int
      <4>1. m \in Node /\ a \in Node /\ l \in Int /\ j \in Int
        BY SizeFacts DEF Linked, AnyLevel
      <4>2. Cardinality(NodesBehind(m)) \in Nat
        BY <4>1, BehindCount
      <4>3. Cardinality(NodesBehind(a)) \in Nat
        BY <4>1, BehindCount
      <4> QED
        BY <4>1, <4>2, <4>3, SizeFacts DEF Depth
    <3>3. i + 1 <= Depth(a, j)
      BY <2>1, <2>2, <2>5, <3>1, <3>2
    <3> QED
      BY <2>3, <3>1, <3>3
  <2>6. DescentOver(m, l, k) => StepFrom(m, l, k) = <<m, l>>
    BY DEF DescentOver, StepFrom
  <2> QED
    BY <2>4, <2>5, <2>6
<1> HIDE DEF S
<1>7. S = Nat
  BY <1>5, <1>6, NatSteps DEF S
<1>8. PICK m \in Linked, l \in AnyLevel :
        g[n] = <<m, l>> /\ AtOrBelow(m, k) /\ (DescentOver(m, l, k) \/ n <= Depth(m, l))
  BY <1>2, <1>7 DEF S
<1>9. ~(n <= Depth(m, l))
  <2>1. m \in Node /\ l \in Int /\ l >= 0 /\ MaxHeight \in Nat
    BY SizeFacts DEF Linked, AnyLevel
  <2>2. Cardinality(NodesBehind(m)) \in Nat /\ Cardinality(NodesBehind(m)) < Len(data)
    BY <2>1, BehindCount
  <2> QED
    BY <1>1, <1>2, <2>1, <2>2 DEF Depth
<1>10. DescentOver(m, l, k) /\ l = 0
  BY <1>8, <1>9 DEF DescentOver
<1> QED
  BY <1>3, <1>8, <1>10

\* A node m that may hold k, where the descent ended at n, is n.
LEMMA EndedThere ==
  ASSUME IndexSound, NEW k \in Key, NEW m \in Linked, k \in held[data[m]],
         NEW n \in Linked, AtOrBelow(n, k), DescentOver(n, 0, k)
  PROVE  n = m
<1>1. m \in Node /\ n \in Node /\ ListSound /\ Key \subseteq Nat
  BY SizeFacts DEF Linked, IndexSound
<1>2. ASSUME next[data[n]] # Null
      PROVE  next[data[n]] \in Node \ {HeadNode} /\ k < Start(next[data[n]])
  <2>1. next[data[n]] \in Node \ {HeadNode}
    BY <1>1, <1>2, NextFacts
  <2>2. ~StartsAtOrBelow(next[data[n]], k)
    BY <1>2 DEF DescentOver, LinkOf
  <2>3. ~(Start(next[data[n]]) <= k) /\ Start(next[data[n]]) \in Nat
    BY <1>1, <2>1, <2>2, StartsMeansFirst, NodeFacts DEF Start
  <2> QED
    BY <1>1, <2>1, <2>3
<1>3. m # HeadNode => Start(m) \in Nat /\ Start(m) <= k
  BY <1>1, NodeFacts
<1>4. n # HeadNode => Start(n) \in Nat /\ Start(n) <= k
  BY <1>1, NodeFacts DEF AtOrBelow
<1>5. ASSUME m # HeadNode, Behind(n, Start(m)) PROVE FALSE
  <2>1. next[data[n]] # Null /\ Start(next[data[n]]) <= Start(m)
    BY <1>5 DEF IndexSound, TowerOrder, Gapless
  <2>2. k < Start(next[data[n]]) /\ Start(next[data[n]]) \in Nat
    BY <1>1, <1>2, <2>1, NodeFacts
  <2> QED
    BY <1>1, <1>3, <1>5, <2>1, <2>2
<1>6. ASSUME n # HeadNode, Behind(m, Start(n)) PROVE FALSE
  <2>1. next[data[m]] # Null /\ Start(next[data[m]]) <= Start(n)
    BY <1>6 DEF IndexSound, TowerOrder, Gapless
  <2>2. k < Start(next[data[m]]) /\ next[data[m]] \in Node \ {HeadNode}
    BY <1>1, <2>1, NextFacts
  <2>3. Start(next[data[m]]) \in Nat
    BY <1>1, <2>2, NodeFacts
  <2> QED
    BY <1>1, <1>4, <1>6, <2>1, <2>2, <2>3
<1>7. CASE m # HeadNode /\ n # HeadNode
  <2>1. Start(m) = Start(n)
    BY <1>3, <1>4, <1>5, <1>6, <1>7 DEF Behind
  <2> QED
    BY <1>1, <1>7, <2>1, StartsApart
<1>8. CASE m = HeadNode /\ n # HeadNode
  BY <1>6, <1>8 DEF Behind
<1>9. CASE m # HeadNode /\ n = HeadNode
  BY <1>5, <1>9 DEF Behind
<1> QED
  BY <1>7, <1>8, <1>9

\* The descent of memtable.hpp's find and of every insert is right whatever the
\* towers look like: it ends at the node that holds the key, from any state.
LEMMA FoundByDescent == IndexSound => DescentFinds
<1> SUFFICES ASSUME IndexSound, NEW k \in Contents PROVE k \in KeysOf(data[Descent(k)])
  BY DEF DescentFinds
<1>1. PICK m \in Linked : k \in KeysOf(data[m])
  BY DEF Contents
<1>2. Ownership /\ data[m] \in Payload
  BY NodeFacts DEF Linked, IndexSound, ListSound
<1>3. held[data[m]] = KeysOf(data[m])
  BY <1>2 DEF held
<1>4. k \in Key
  BY <1>1, <1>2, <1>3, PayloadFacts
<1>5. Descent(k) \in Linked /\ AtOrBelow(Descent(k), k) /\ DescentOver(Descent(k), 0, k)
  BY <1>4, DescentEnds
<1>6. Descent(k) = m
  BY <1>1, <1>3, <1>4, <1>5, EndedThere
<1> QED
  BY <1>1, <1>6

\* A descent that nothing disturbs finds the node that holds its key, in every
\* state, however far the towers of the nodes have been linked.
THEOREM DescentsFind == Spec => []DescentFinds
BY IndexSoundHolds, FoundByDescent, PTL

-----------------------------------------------------------------------------
(* check_invariants on a structure at rest.                                *)

\* An order word is a permutation of the slots it counts.
LEMMA OrderIsPermutation ==
  ASSUME ListSound, NEW p \in Payload
  PROVE  ToSet(order[p]) = 1..Len(order[p])
<1>1. PICK o : o = order[p]
  OBVIOUS
<1>2. PICK n : n = Len(o)
  OBVIOUS
<1>3. /\ n \in Nat /\ DOMAIN o = 1..n /\ o \in Seq(Slot)
      /\ \A r \in 1..n : keys[p][o[r]] \in Key
  BY <1>1, <1>2, PayloadFacts DEF ListSound
<1>4. \A r \in 1..n : o[r] \in 1..n
  <2>1. \A r \in 1..n : o[r] <= n
    BY <1>1, <1>2, <1>3 DEF ListSound, Ownership, SlotsOK
  <2>2. \A r \in 1..n : o[r] \in Slot
    BY <1>2, <1>3
  <2> QED
    BY <1>3, <2>1, <2>2, SizeFacts DEF Slot
<1>5. \A r \in 1..n, s \in 1..n : r < s => keys[p][o[r]] < keys[p][o[s]]
  BY <1>1, <1>3 DEF ListSound, ListOrder, RunsAscend, KeyAt
<1>6. \A r \in 1..n, s \in 1..n : o[r] = o[s] => r = s
  <2> SUFFICES ASSUME NEW r \in 1..n, NEW s \in 1..n, o[r] = o[s] PROVE r = s
    OBVIOUS
  <2>1. keys[p][o[r]] = keys[p][o[s]] /\ keys[p][o[r]] \in Nat
    BY <1>3, SizeFacts
  <2>2. r \in Nat /\ s \in Nat
    BY <1>3
  <2> QED
    BY <1>5, <2>1, <2>2
<1>7. o \in [1..n -> 1..n]
  BY <1>2, <1>3, <1>4
<1>8. o \in Injection(1..n, 1..n)
  BY <1>6, <1>7 DEF Injection, IsInjective
<1>9. IsFiniteSet(1..n)
  BY <1>3, FS_Interval
<1>10. o \in Surjection(1..n, 1..n)
  BY <1>8, <1>9, FS_Injection
<1>11. {o[r] : r \in 1..n} = 1..n
  BY <1>7, <1>10 DEF Surjection
<1> QED
  BY <1>1, <1>2, <1>3, <1>11 DEF ToSet

\* The two orders that check_invariants compares, within a node and to the next.
LEMMA OrderChecksOut ==
  ASSUME ListSound, NEW n \in Node, NEW p, p = data[n], NEW o, o = order[p]
  PROVE  /\ Len(o) <= Capacity
         /\ ToSet(o) = 1..Len(o)
         /\ \A r \in 2..Len(o) : KeyAt(p, o, r - 1) <= KeyAt(p, o, r)
         /\ o # <<>> /\ next[p] # Null /\ order[data[next[p]]] # <<>> =>
              KeyAt(p, o, Len(o)) <= FirstKey(next[p])
<1>1. Ownership /\ p \in Payload
  BY NodeFacts DEF ListSound
<1>2. /\ Len(o) \in Nat /\ DOMAIN o = 1..Len(o)
      /\ \A r \in 1..Len(o) : keys[p][o[r]] \in Key
      /\ o = <<>> <=> Len(o) = 0
  BY <1>1, PayloadFacts
<1>3. Len(o) <= Capacity
  BY <1>1 DEF Ownership, SlotsOK
<1>4. ToSet(o) = 1..Len(o)
  BY <1>1, OrderIsPermutation
<1>5. ASSUME NEW r \in 2..Len(o) PROVE KeyAt(p, o, r - 1) <= KeyAt(p, o, r)
  <2>1. r - 1 \in 1..Len(o) /\ r \in 1..Len(o) /\ r - 1 < r
    BY <1>2
  <2>2. KeyAt(p, o, r - 1) < KeyAt(p, o, r)
    BY <1>1, <1>2, <2>1 DEF ListSound, ListOrder, RunsAscend
  <2>3. KeyAt(p, o, r - 1) \in Nat /\ KeyAt(p, o, r) \in Nat
    BY <1>2, <2>1, SizeFacts DEF KeyAt
  <2> QED
    BY <2>2, <2>3
<1>6. ASSUME o # <<>>, next[p] # Null PROVE KeyAt(p, o, Len(o)) <= FirstKey(next[p])
  <2>1. Len(o) \in 1..Len(o) /\ Len(o) \in DOMAIN o
    BY <1>2, <1>6
  <2>2. KeyAt(p, o, Len(o)) \in held[p] /\ KeyAt(p, o, Len(o)) \in Nat
    <3>1. held[p] = {keys[p][o[r]] : r \in 1..Len(o)}
      BY <1>1, PayloadFacts
    <3>2. keys[p][o[Len(o)]] \in held[p] /\ keys[p][o[Len(o)]] \in Key
      BY <1>2, <2>1, <3>1
    <3> QED
      BY <3>2, SizeFacts DEF KeyAt
  <2>3. next[p] \in Node \ {HeadNode} /\ KeyAt(p, o, Len(o)) < Start(next[p])
    BY <1>6, <2>2, NextFacts
  <2>4. Start(next[p]) = FirstKey(next[p]) /\ Start(next[p]) \in Nat
    <3>1. order[data[next[p]]] # <<>> /\ data[next[p]] \in Payload /\ Start(next[p]) \in Nat
      BY <2>3, NodeFacts
    <3> QED
      BY <3>1 DEF Start, first, FirstKey
  <2> QED
    BY <2>2, <2>3, <2>4
<1> QED
  BY <1>3, <1>4, <1>5, <1>6

\* When nobody is in a call every hint is that of its node's first key.
LEMMA HintsAtRest ==
  ASSUME IndexSound, \A w \in Writer : pc[w] \in NoCall,
         NEW n \in Node, order[data[n]] # <<>>
  PROVE  hint[n] = Hint[FirstKey(n)]
<1>1. data[n] \in Payload /\ Start(n) = FirstKey(n)
  <2>1. data[n] \in Payload
    BY NodeFacts DEF IndexSound
  <2> QED
    BY <2>1 DEF Start, first, FirstKey
<1>2. CASE n # HeadNode
  BY <1>1, <1>2 DEF IndexSound, ListSound, ListOrder, HintsFollow, Start
<1>3. CASE n = HeadNode
  <2>1. \A w \in Writer : pc[w] # "order" /\ pc[w] # "splitData"
    BY DEF NoCall
  <2>2. hint[HeadNode] = Hint[Start(HeadNode)]
    BY <1>3, <2>1 DEF IndexSound, TowerOrder, HeadHint
  <2> QED
    BY <1>1, <1>3, <2>2
<1> QED
  BY <1>2, <1>3

LEMMA ChecksOutAtRest == IndexSound => QuiescedChecksOut
<1> SUFFICES ASSUME IndexSound, \A w \in Writer : pc[w] \in NoCall PROVE CheckStructure
  BY DEF QuiescedChecksOut
<1>1. ListSound /\ Reached(0) \subseteq Node
  BY ListReached DEF IndexSound, LinkedIsReachable, Linked
<1> SUFFICES ASSUME NEW n \in Reached(0), NEW p, p = data[n], NEW o, o = order[p]
             PROVE  /\ Len(o) <= Capacity
                    /\ ToSet(o) = 1..Len(o)
                    /\ \A r \in 2..Len(o) : KeyAt(p, o, r - 1) <= KeyAt(p, o, r)
                    /\ o # <<>> => hint[n] = Hint[FirstKey(n)]
                    /\ o # <<>> /\ next[p] # Null /\ order[data[next[p]]] # <<>> =>
                         KeyAt(p, o, Len(o)) <= FirstKey(next[p])
  BY DEF CheckStructure, CheckRun, CheckHint, CheckNeighbours
<1>2. n \in Node
  BY <1>1
<1> QED
  BY <1>1, <1>2, OrderChecksOut, HintsAtRest

\* check_invariants, called when no thread is inside a call, finds nothing wrong
\* with order word, keys and hint of any node that level 0 reaches, the head
\* included, nor with the order of keys from one node to the next.
THEOREM QuiescedIsClean == Spec => []QuiescedChecksOut
BY IndexSoundHolds, ChecksOutAtRest, PTL

=============================================================================
