--------------------------- MODULE ListInvariant ----------------------------
(***************************************************************************)
(* Why the level-0 list of Memtable stays sorted: the inductive invariant  *)
(* behind LevelZeroOrdered, HintSound, FirstKeyFixed and                   *)
(* ImplementsOrderedSet.  A key reaches a node only through a writer that  *)
(* found, under the node's lock, that it belongs there; what makes that    *)
(* finding last is that the first key of a published node never changes.   *)
(***************************************************************************)
EXTENDS Memtable

\* The keys payload p holds, and the first of them, Null if there is none.
held == [p \in Payload |-> KeysOf(p)]
first == [p \in Payload |-> IF order[p] = <<>> THEN Null ELSE KeyAt(p, order[p], 1)]

\* A call whose key is not in the list yet.
Pending == {"descend", "lock", "check"} \union Working

\* The keys an order word names ascend.
RunsAscend ==
  \A p \in Payload : \A i, j \in DOMAIN order[p] :
    i < j => KeyAt(p, order[p], i) < KeyAt(p, order[p], j)

\* A pending key is in no payload, but for the halves its own writer builds.
KeysFresh ==
  /\ \A p \in Payload : held[p] \subseteq started
  /\ \A w \in Writer : pc[w] \in Pending =>
       /\ loc[w].key \in started
       /\ \A v \in Writer : pc[v] \in Pending /\ loc[v].key = loc[w].key => v = w
       /\ \A p \in Payload : loc[w].key \in held[p] =>
            pc[w] \in Building /\ p \in {loc[w].left, loc[w].right}

\* Nobody but the thread that builds a sibling has a pointer to it.
SiblingsHidden ==
  \A w \in Writer : pc[w] \in Building =>
    LET s == loc[w].sib
    IN  /\ data[s] = loc[w].right
        /\ \A p \in Payload : next[p] = s => p = loc[w].left
        /\ \A n \in Node, l \in Level : tower[n][l] # s
        /\ \A v \in Writer :
             /\ pc[v] # "idle" => loc[v].cur # s
             /\ pc[v] \in Splitting /\ loc[v].sib = s => v = w

\* The links of level 0 lead to greater keys, from a sibling in the making too.
LinksForward ==
  /\ \A p \in Payload : next[p] # HeadNode
  /\ \A n \in Node, l \in Level : tower[n][l] # HeadNode
  /\ \A w \in Writer : pc[w] \in Splitting => loc[w].sib # HeadNode
  /\ \A n \in Node \ {HeadNode} : order[data[n]] # <<>>
  /\ \A n \in Node : next[data[n]] # Null =>
       /\ order[data[n]] # <<>>
       /\ \A k \in held[data[n]] : k < first[data[next[data[n]]]]

HintsFollow == \A n \in Node \ {HeadNode} : hint[n] = Hint[first[data[n]]]

\* A pending key belongs after the first key of the node its writer stands on,
\* and before that of the next node once the writer has looked under the lock.
WritersPlaced ==
  \A w \in Writer : pc[w] \in Pending =>
    LET nx == next[loc[w].d]
    IN  /\ loc[w].cur # HeadNode => first[data[loc[w].cur]] < loc[w].key
        /\ pc[w] \in Working /\ nx # Null => loc[w].key < first[data[nx]]
        /\ pc[w] = "hint" => loc[w].cur = HeadNode

\* The halves hold what the full node holds, and the new key, cut at a key.
HalvesOK ==
  \A w \in Writer : pc[w] \in Building =>
    LET left == loc[w].left
        right == loc[w].right
    IN  /\ next[left] = loc[w].sib /\ next[right] = next[loc[w].d]
        /\ order[left] # <<>> /\ order[left][1] = 1 /\ order[right] # <<>>
        /\ held[left] \union held[right] = held[loc[w].d] \union {loc[w].key}
        /\ \A j \in held[left], k \in held[right] : j < k

\* No key is in two nodes of the list.
NodesDisjoint ==
  \A m, n \in Linked : m # n => held[data[m]] \intersect held[data[n]] = {}

\* The inductive invariant of the list: the parts that order it, on top of Ownership.
ListOrder ==
  /\ RunsAscend /\ KeysFresh /\ SiblingsHidden /\ LinksForward /\ HintsFollow
  /\ WritersPlaced /\ HalvesOK /\ NodesDisjoint

ListSound == Ownership /\ ListOrder
=============================================================================
