--------------------------- MODULE TowerInvariant ---------------------------
(***************************************************************************)
(* Why the tower of Memtable only ever helps: the inductive invariant      *)
(* behind TowerSound, NotItsOwnPredecessor, DescentFinds,                  *)
(* QuiescedChecksOut and LevelsOnlyGrow.  A link of the tower leads        *)
(* forward between listed nodes, level 0 passes over none of them, and a   *)
(* writer that links a sibling stands behind it until it has.              *)
(***************************************************************************)
EXTENDS ListInvariant

\* The first key of node n.
Start(n) == first[data[n]]

\* Whether node n begins below k, or at it; the head begins below everything.
Behind(n, k) == n = HeadNode \/ Start(n) < k
AtOrBelow(n, k) == n = HeadNode \/ Start(n) <= k

\* The next node of level 0 is the nearest in the list.
Gapless ==
  \A m, n \in Linked : m # HeadNode /\ Behind(n, Start(m)) =>
    next[data[n]] # Null /\ Start(next[data[n]]) <= Start(m)

\* A link of the tower leads forward, from and to nodes of its height.
TowerForward ==
  /\ height[HeadNode] = MaxHeight
  /\ \A n \in Node, l \in Level : tower[n][l] # Null =>
       /\ tower[n][l] \in Linked
       /\ l < height[n] /\ l < height[tower[n][l]]
       /\ Behind(n, Start(tower[n][l]))

\* Each split has a sibling of its own, with the first key it was built with.
SiblingsApart ==
  \A w \in Writer : pc[w] \in Splitting =>
    /\ \A v \in Writer : pc[v] \in Splitting /\ loc[v].sib = loc[w].sib => v = w
    /\ \E r \in DOMAIN order[loc[w].right] : order[loc[w].right][r] = 1
    /\ LinkKey(w) = Start(loc[w].sib)

\* A sibling is not linked yet at the level its writer is at, and a writer that
\* looks for a predecessor, or has one, is on a node behind, tall enough.
LinkersPlaced ==
  \A w \in Writer : pc[w] \in Linking =>
    LET l == loc[w].lv
    IN  /\ loc[w].goal <= l /\ (pc[w] # "find" => l = loc[w].goal)
        /\ loc[w].goal < height[loc[w].sib]
        /\ \A n \in Node, k \in Level : tower[n][k] = loc[w].sib => k < loc[w].goal
        /\ loc[w].pred \in Linked /\ l < height[loc[w].pred]
        /\ Behind(loc[w].pred, LinkKey(w))
        /\ \A v \in Writer : pc[v] \in Linking /\ loc[v].sib = loc[w].pred => l < loc[v].goal
        /\ pc[w] = "cas" => tower[loc[w].sib][loc[w].goal] = loc[w].nx

\* The head's hint is that of its first key, or a writer that holds its lock has
\* just stored the one that will be.
HeadHint ==
  /\ \A w \in Writer :
       /\ pc[w] = "hint" => Rank(w) = 1
       /\ pc[w] = "order" /\ Rank(w) = 1 => hint[loc[w].cur] = Hint[loc[w].key]
       /\ pc[w] = "splitData" => hint[loc[w].cur] = Hint[first[loc[w].left]]
  /\ \/ order[data[HeadNode]] = <<>>
     \/ hint[HeadNode] = Hint[Start(HeadNode)]
     \/ \E w \in Writer :
          /\ loc[w].cur = HeadNode
          /\ (pc[w] = "order" /\ Rank(w) = 1) \/ pc[w] = "splitData"

\* The inductive invariant of the tower, on top of that of the list.
TowerOrder == Gapless /\ TowerForward /\ SiblingsApart /\ LinkersPlaced /\ HeadHint

IndexSound == ListSound /\ TowerOrder
=============================================================================
