----------------------------- MODULE NodeLanes -----------------------------
(***************************************************************************)
(* The lanes of one node of BasicMemTable, from fresh_data through appends *)
(* and splits: the prefix its keys share, the surrogate each lane holds,   *)
(* and sorted_position, which takes a candidate from the lanes and lets    *)
(* the comparator confirm it.  All of this runs under the node's lock, or  *)
(* on a frozen snapshot, so one action is one insert.                      *)
(*                                                                         *)
(* As in Memtable a key is its rank in comparator order; here it has order *)
(* bytes too, and nothing says that the comparator orders keys as their    *)
(* bytes do.  Slots and ranks count from 1, positions from 0.              *)
(***************************************************************************)
EXTENDS Integers, FiniteSets, FiniteSetsExt, Sequences, SequencesExt

CONSTANTS
  Key,        \* entries, ordered by traits.compare
  ByteOrders, \* what order_bytes may be: a set of functions on Key
  Base,       \* how many values a byte has: 256
  LaneBytes,  \* bytes in a lane: 4
  Capacity    \* kNodeCapacity

Byte == 0..(Base - 1)
Mid == (Capacity + 1) \div 2

ASSUME LanesAssumption ==
  /\ Key \subseteq Nat \ {0} /\ IsFiniteSet(Key) /\ Key # {}
  /\ Base \in Nat /\ Base >= 2
  /\ LaneBytes \in Nat /\ LaneBytes >= 1
  /\ Capacity \in Nat /\ Capacity >= 3
  /\ ByteOrders \subseteq [Key -> Seq(Byte)]

\* Above every key: the end of the last node's range.
Top == Max(Key) + 1

VARIABLES
  bytes,   \* bytes[k]: order_bytes(k), which the traits fix for good
  keys,    \* keys[s]: NodeData::keys, by slot
  lanes,   \* lanes[s]: NodeData::surrogates, by slot
  order,   \* NodeData::order, the slot of each sorted rank
  prefix,  \* NodeData::prefix_len
  head,    \* whether this is head_
  high     \* where the next node's keys start

vars == <<bytes, keys, lanes, order, prefix, head, high>>

-----------------------------------------------------------------------------
(* surrogate.hpp.                                                          *)

\* The first n bytes, the first one most significant, padded with 0.
Packed(b, n) ==
  LET value[i \in 0..n] ==
        IF i = 0 THEN 0
        ELSE value[i - 1] * Base + (IF i <= Len(b) THEN b[i] ELSE 0)
  IN  value[n]

Surrogate(b) == Packed(b, LaneBytes)

\* kEmptyKey: every bit is set.
EmptyKey == Packed([i \in 1..LaneBytes |-> Base - 1], LaneBytes)

SurrogateAt(b, offset) ==
  IF offset >= Len(b) THEN 0 ELSE Surrogate(SubSeq(b, offset + 1, Len(b)))

\* Slip: a short key is not padded at the end.
DescentHintUnpadded(b) == Packed(b, Min({Len(b), 2 * LaneBytes}))

\* The first bytes of the key, twice as many as in a lane.  Of the empty key the
\* code shifts 0 by the width of the hint, which the hardware makes a shift by 0.
DescentHint(b) == Packed(b, 2 * LaneBytes)

CommonPrefixLen(a, b) == Len(LongestCommonPrefix({a, b}))

\* compare_keys(a, b) <= 0: byte by byte, and a prefix comes first.
NotAbove(a, b) ==
  LET n == CommonPrefixLen(a, b)
  IN  n = Len(a) \/ (n < Len(b) /\ a[n + 1] < b[n + 1])

-----------------------------------------------------------------------------
(* sorted_position.                                                        *)

Count == Len(order)
KeyAt(r) == keys[order[r]]
LaneAt(r) == lanes[order[r]]

\* shares_prefix, as the set of answers it may give.  The prefix is looked up in
\* the key of the lowest rank.  That key may be shorter than the prefix, and
\* where it agrees as far as it goes the memcmp reads on past its end.
SharesPrefix(b) ==
  LET first == bytes[KeyAt(1)]
  IN  IF Count = 0 \/ prefix = 0 THEN {TRUE}
      ELSE IF Len(b) < prefix THEN {FALSE}
      ELSE IF Len(first) < prefix /\ IsPrefix(first, b) THEN BOOLEAN
      ELSE {IsPrefix(SubSeq(b, 1, prefix), first)}

\* The kernels of search.hpp: the scalar one walks the ranks, the vector ones
\* count lanes.  Over lanes that are not sorted they differ.
Candidates(s) ==
  {Min({r \in 0..Count : r = Count \/ LaneAt(r + 1) >= s}),
   Cardinality({i \in DOMAIN lanes : lanes[i] < s})}

\* Slip: the lane alone decides among equal surrogates.
PastTiesNot(p, s, k) == p

\* The scan over equal surrogates.
PastTies(p, s, k) ==
  Min({q \in p..Count : q = Count \/ LaneAt(q + 1) # s \/ KeyAt(q + 1) >= k})

\* Slip: nobody looks to the left of the candidate.
ConfirmedRight(p, k) == p = Count \/ KeyAt(p + 1) >= k

\* left_ok and right_ok.
Confirmed(p, k) == (p = 0 \/ KeyAt(p) < k) /\ (p = Count \/ KeyAt(p + 1) >= k)

BinarySearch(k) ==
  LET probe[range \in (0..Count) \X (0..Count)] ==
        LET lo == range[1]
            hi == range[2]
            mid == lo + ((hi - lo) \div 2)
        IN  IF lo >= hi THEN lo
            ELSE IF KeyAt(mid + 1) < k THEN probe[<<mid + 1, hi>>]
            ELSE probe[<<lo, mid>>]
  IN  probe[<<0, Count>>]

\* What sorted_position may return, given the answer of shares_prefix.
SortedPositions(k, shares) ==
  IF ~shares THEN {BinarySearch(k)}
  ELSE LET s == SurrogateAt(bytes[k], prefix)
       IN  {IF Confirmed(PastTies(c, s, k), k) THEN PastTies(c, s, k) ELSE BinarySearch(k)
              : c \in Candidates(s)}

-----------------------------------------------------------------------------
(* append, and split_and_insert with fill.                                 *)

Init ==
  /\ bytes \in ByteOrders
  /\ keys = <<>> /\ lanes = <<>> /\ order = <<>>
  /\ prefix = 0
  /\ head = TRUE
  /\ high = Top

HasRoom == Count < Capacity

\* What descend and belongs_here let through.  MemTable takes a key as often as it
\* is given one; of equal entries on both sides of a split the right node takes
\* the next.
Belongs(k) ==
  /\ k < high
  /\ ~head => k >= KeyAt(1)

\* Slip: a surrogate at the prefix, whether the key has that prefix or not.
LaneUnsaturated(k, p, shares) == SurrogateAt(bytes[k], prefix)

\* A key without the prefix sorts below or above all the others; its lane
\* saturates in that direction.
LaneOf(k, p, shares) ==
  IF shares THEN SurrogateAt(bytes[k], prefix)
  ELSE IF p = 0 THEN 0 ELSE EmptyKey

AppendKey(k) ==
  /\ Belongs(k) /\ HasRoom
  /\ \E shares \in SharesPrefix(bytes[k]) : \E p \in SortedPositions(k, shares) :
       /\ keys' = Append(keys, k)
       /\ lanes' = Append(lanes, LaneOf(k, p, shares))
       /\ order' = InsertAt(order, p + 1, Count + 1)
  /\ UNCHANGED <<bytes, prefix, head, high>>

\* merge.
Merged(k, p) == InsertAt([r \in 1..Count |-> KeyAt(r)], p + 1, k)

\* A single key has no prefix to strip.
PrefixOf(run) ==
  IF Len(run) > 1 THEN CommonPrefixLen(bytes[run[1]], bytes[run[Len(run)]]) ELSE 0

Fill(run) ==
  /\ keys' = run
  /\ prefix' = PrefixOf(run)
  /\ lanes' = [s \in 1..Len(run) |-> SurrogateAt(bytes[run[s]], prefix')]
  /\ order' = [r \in 1..Len(run) |-> r]

\* The node of the model goes on as the left half of a split, which stays in
\* place, or as the right half, which is a new node.
SplitLeft(k) ==
  /\ Belongs(k) /\ ~HasRoom
  /\ \E shares \in SharesPrefix(bytes[k]) : \E p \in SortedPositions(k, shares) :
       /\ Fill(SubSeq(Merged(k, p), 1, Mid))
       /\ high' = Merged(k, p)[Mid + 1]
  /\ UNCHANGED <<bytes, head>>

SplitRight(k) ==
  /\ Belongs(k) /\ ~HasRoom
  /\ \E shares \in SharesPrefix(bytes[k]) : \E p \in SortedPositions(k, shares) :
       Fill(SubSeq(Merged(k, p), Mid + 1, Capacity + 1))
  /\ head' = FALSE
  /\ UNCHANGED <<bytes, high>>

Next == \E k \in Key : AppendKey(k) \/ SplitLeft(k) \/ SplitRight(k)

Spec == Init /\ [][Next]_vars

-----------------------------------------------------------------------------
(* check_invariants, of the lanes and the prefix of one node.              *)

SortedLanes == \A i, j \in 1..Count : i < j => LaneAt(i) <= LaneAt(j)

\* Every lane is the surrogate of its key, or saturated if the key lacks the prefix.
LanesOfKeys ==
  \A s \in DOMAIN keys : \A shares \in SharesPrefix(bytes[keys[s]]) :
    IF shares THEN lanes[s] = SurrogateAt(bytes[keys[s]], prefix)
    ELSE lanes[s] \in {0, EmptyKey}

\* "A node's stored prefix is never shorter than the keys' actual common
\* prefix", but for the head before its first split, which was never filled.
PrefixNotShort ==
  Count > 1 /\ ~(head /\ high = Top) =>
    prefix >= CommonPrefixLen(bytes[KeyAt(1)], bytes[KeyAt(Count)])

CheckLanes == SortedLanes /\ LanesOfKeys /\ PrefixNotShort

-----------------------------------------------------------------------------
(* Properties.                                                             *)

\* "The surrogate proposes; the comparator disposes": for any key, under any
\* comparator, whatever the lanes hold and whichever kernel reads them,
\* sorted_position is the number of smaller keys.  Memtable takes it for that.
PositionExact ==
  \A k \in Key : \A shares \in SharesPrefix(bytes[k]) :
    SortedPositions(k, shares) = {Cardinality({s \in DOMAIN keys : keys[s] < k})}

\* The comparator follows the bytes, ties apart: RocksDB's default.
Bytewise == \A j, k \in Key : j < k => NotAbove(bytes[j], bytes[k])

\* It follows them backwards: RocksDB's reverse comparator.
Reversed == \A j, k \in Key : j < k => NotAbove(bytes[k], bytes[j])

\* Under a comparator that follows the bytes check_invariants finds nothing wrong
\* with lanes and prefix, after any appends and splits, except in a head that has
\* been through a split: any other node keeps its lowest key, and with it the prefix
\* shares_prefix looks up.  The prefix is never too short in any node, nor is it
\* under a reverse comparator.
LanesCheckOut ==
  /\ Bytewise \/ Reversed => PrefixNotShort
  /\ Bytewise /\ (head => prefix = 0) => CheckLanes

\* What both hint_ordering functions promise of a comparator that follows the
\* bytes, and Memtable assumes: where hints differ they order keys as it does.
HintsAgree ==
  Bytewise => \A j, k \in Key : j < k => DescentHint(bytes[j]) <= DescentHint(bytes[k])

\* In such a node the vector unit answers: for a key that has the prefix, the
\* candidate is confirmed whichever kernel it comes from, and the binary search
\* is never needed.
CandidateConfirms ==
  Bytewise /\ (head => prefix = 0) =>
    \A k \in Key :
      SharesPrefix(bytes[k]) = {TRUE} =>
        LET s == SurrogateAt(bytes[k], prefix)
        IN  \A c \in Candidates(s) : Confirmed(PastTies(c, s, k), k)

\* What check_invariants tests of every node: "surrogate lanes within a node are
\* not sorted" is reported as broken.
EveryNodeSorted == Bytewise => SortedLanes
=============================================================================
