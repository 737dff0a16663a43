------------------------------ MODULE Workload ------------------------------
(***************************************************************************)
(* include/aparajita/workload.hpp: the nodes and probes on which the       *)
(* benchmarks compare the kernels of search.hpp.  A node is built by hand, *)
(* sorted or in the shape the structure holds, and a probe is drawn to hit *)
(* a node or to miss all of them.  Any draw of the generator may occur.    *)
(***************************************************************************)
EXTENDS NodeSearch

CONSTANT MaxNodes  \* bound: nodes of one workload

ASSUME WorkloadAssumption == MaxNodes \in Nat

VARIABLES
  shape,  \* which generators are used: "sorted" (Node) or "append" (AppendNode)
  nodes,  \* the nodes made, with the order word of an AppendNode
  probe   \* the last probe drawn, and whether it is one of the hits

workVars == <<shape, nodes, probe>>

NoProbe == [key |-> EmptyKey, hit |-> FALSE]

InitWorkload ==
  /\ shape \in {"sorted", "append"}
  /\ nodes = <<>>
  /\ probe = NoProbe

\* dist(0, kEmptyKey - 1), of the values that occur.
Draws == LaneValue \ {EmptyKey}

\* make_node: distinct draws, sorted.
SortedNodes ==
  {line \in [Lanes -> Draws] : \A i, j \in Lanes : i < j => line[i] < line[j]}

\* Slip: the nibble of a rank holds its slot, not its slot + 1.
HandBuiltWordPlain(slots) ==
  LET built[rank \in 0..NodeCapacity] ==
        IF rank = 0 THEN 0
        ELSE built[rank - 1] + slots[rank - 1] * Pow2[RankBits * (rank - 1)]
  IN  built[NodeCapacity]

HandBuiltWord(slots) ==
  LET built[rank \in 0..NodeCapacity] ==
        IF rank = 0 THEN 0
        ELSE built[rank - 1] + (slots[rank - 1] + 1) * Pow2[RankBits * (rank - 1)]
  IN  built[NodeCapacity]

\* make_append_node: all but the largest draw, each in the slot its rank is dealt.
AppendNode(sorted, slots) ==
  [keys |-> [s \in Lanes |->
               IF s = PadSlot THEN EmptyKey
               ELSE sorted[CHOOSE rank \in DOMAIN slots : slots[rank] = s]],
   order |-> HandBuiltWord(slots)]

MakeNode ==
  /\ probe = NoProbe
  /\ Len(nodes) < MaxNodes
  /\ \E sorted \in SortedNodes :
       \/ /\ shape = "sorted"
          /\ nodes' = Append(nodes, [keys |-> sorted, order |-> 0])
       \/ /\ shape = "append"
          /\ \E slots \in Bijection(0..(NodeCapacity - 1), 0..(NodeCapacity - 1)) :
               nodes' = Append(nodes, AppendNode(sorted, slots))
  /\ UNCHANGED <<shape, probe>>

\* Slip: hits are drawn from all slots of an append-only node.
LiveSlotsAll(a) == Lanes

\* Of an append-only node the live ranks, of a sorted one all slots.
LiveSlots(a) ==
  IF shape = "sorted" THEN Lanes ELSE {OrderSlot(a.order, r) : r \in 0..(NodeCapacity - 1)}

LiveKeys(a) == {a.keys[s] : s \in LiveSlots(a)}

PresentAnywhere(k) == \E i \in DOMAIN nodes : k \in LiveKeys(nodes[i])

DrawHit ==
  /\ \E i \in DOMAIN nodes : \E k \in LiveKeys(nodes[i]) : probe' = [key |-> k, hit |-> TRUE]
  /\ UNCHANGED <<shape, nodes>>

\* The draw that ends the loop; when every value is present there is none.
DrawMiss ==
  /\ nodes # <<>>
  /\ \E k \in Draws : ~PresentAnywhere(k) /\ probe' = [key |-> k, hit |-> FALSE]
  /\ UNCHANGED <<shape, nodes>>

NextWorkload == MakeNode \/ DrawHit \/ DrawMiss

SpecWorkload == InitWorkload /\ [][NextWorkload]_workVars

-----------------------------------------------------------------------------
(* Properties.                                                             *)

\* "This builds the real shape": an append-only node made by hand is one that the
\* structure's own appends, in the order of its slots, arrive at.
BuiltAsAppended ==
  shape = "append" =>
    \A i \in DOMAIN nodes :
      LET keys == nodes[i].keys
          built[n \in 0..NodeCapacity] ==
            IF n = 0 THEN 0
            ELSE OrderInsert(built[n - 1],
                             Cardinality({s \in 0..(n - 2) : keys[s] < keys[n - 1]}), n - 1)
      IN  nodes[i].order = built[NodeCapacity] /\ keys[PadSlot] = EmptyKey

\* Whether the kernels the CPU gets find key k in a node.
Finds(cpu, a, k) ==
  IF shape = "sorted" THEN SearchDispatch(cpu, a.keys, k) # NotFound
  ELSE LET r == LowerBoundPermDispatch(cpu, a.keys, k, a.order)
       IN  r < OrderCount(a.order) /\ a.keys[OrderSlot(a.order, r)] = k

\* A probe meant to hit is found in a node, one meant to miss in none, by the
\* kernels of any CPU, so that the hit ratio measured is the one asked for; and
\* no probe is the sentinel, which pads every node.
ProbesAreHonest ==
  probe # NoProbe =>
    /\ probe.key # EmptyKey
    /\ \A cpu \in Cpu : probe.hit = \E i \in DOMAIN nodes : Finds(cpu, nodes[i], probe.key)
=============================================================================
