----------------------------- MODULE NodeSearch -----------------------------
(***************************************************************************)
(* The kernels of include/aparajita/search.hpp over the lanes of one node, *)
(* while the node's writer (append, under the node's lock) stores into a   *)
(* free lane and republishes the order word, and a reader that took the    *)
(* word earlier searches by it.                                            *)
(*                                                                         *)
(* A rank is the comparator's and a lane is made of bytes, and nothing     *)
(* ties the two here: NodeLanes says in which nodes the lanes are in rank  *)
(* order.                                                                  *)
(*                                                                         *)
(* A lane of the code has 32 bits, here LaneBits.  A compare mask is the   *)
(* set of lanes whose bit is set.                                          *)
(***************************************************************************)
EXTENDS OrderWord, FiniteSets, FiniteSetsExt, Sequences, SequencesExt

CONSTANTS
  LaneBits,  \* width of a lane
  LaneValue  \* the surrogates that occur, and the keys searched for

EmptyKey == Pow2[LaneBits] - 1
NotFound == NodeKeys

ASSUME LaneAssumption ==
  /\ LaneBits \in Nat /\ LaneBits >= 1
  /\ LaneValue \subseteq 0..EmptyKey
  /\ EmptyKey \in LaneValue

VARIABLES
  lanes,  \* lanes[s]: surrogates[s]
  word,   \* order
  pc,     \* the writer: "idle", "storing" a lane, or about to "publish" it
  snap    \* the order word the reader works with

vars == <<lanes, word, pc, snap>>

-----------------------------------------------------------------------------
(* Equality kernels.  "First" is the lowest lane; NotFound if there is none. *)

\* search_scalar_linear.
SearchLinear(line, key) == Min({i \in 0..NotFound : i = NotFound \/ line[i] = key})

\* The branchless, AVX2 and AVX-512 kernels: a mask, the bit past the last lane
\* set, and the count of trailing zeros.
SearchMask(line, key) == Min({i \in Lanes : line[i] = key} \union {NotFound})

\* search_scalar_binary, of a sorted line.
SearchBinary(line, key) ==
  LET probe[range \in (0..NodeKeys) \X (-1..(NodeKeys - 1))] ==
        LET lo == range[1]
            hi == range[2]
            mid == lo + ((hi - lo) \div 2)
        IN  IF lo > hi THEN NotFound
            ELSE IF line[mid] = key THEN mid
            ELSE IF line[mid] < key THEN probe[<<mid + 1, hi>>]
            ELSE probe[<<lo, mid - 1>>]
  IN  probe[<<0, NodeKeys - 1>>]

-----------------------------------------------------------------------------
(* Ordered kernels, of a sorted line.                                      *)

\* lower_bound_scalar.
LowerBoundScalar(line, key) == Min({i \in 0..NodeKeys : i = NodeKeys \/ line[i] >= key})

\* The branchless and AVX-512 kernels: how many lanes compare below, unsigned.
LowerBoundCount(line, key) == Cardinality({i \in Lanes : line[i] < key})

\* A lane read as a signed integer, which is all AVX2 can compare.
Signed(x) == IF x < Pow2[LaneBits - 1] THEN x ELSE x - Pow2[LaneBits]

\* Slip: the lanes are compared as they are.
BiasNot(x) == x

\* XOR with the sign bit.
Bias(x) == (x + Pow2[LaneBits - 1]) % Pow2[LaneBits]

LowerBoundAvx2(line, key) ==
  Cardinality({i \in Lanes : Signed(Bias(key)) > Signed(Bias(line[i]))})

-----------------------------------------------------------------------------
(* Ordered kernels of a node in slot order.  In a node whose lanes are not *)
(* in rank order the walk and the counts differ; the comparator, to which  *)
(* they propose, then decides.                                             *)

\* lower_bound_perm_scalar walks the ranks.
LowerBoundPermScalar(node, key, o) ==
  Min({r \in 0..OrderCount(o) : r = OrderCount(o) \/ node[OrderSlot(o, r)] >= key})

\* Slip: the load covers the lane the next append writes.
LoadedOneMore(node, o) == [i \in Lanes |-> IF i <= OrderCount(o) THEN node[i] ELSE EmptyKey]

\* Slip: lanes outside the mask keep the zeros of maskload.
LoadedZero(node, o) == [i \in Lanes |-> IF i < OrderCount(o) THEN node[i] ELSE 0]

\* The load masked to the live lanes, the others blended to kEmptyKey.
Loaded(node, o) == [i \in Lanes |-> IF i < OrderCount(o) THEN node[i] ELSE EmptyKey]

LowerBoundPermAvx512(node, key, o) == LowerBoundCount(Loaded(node, o), key)
LowerBoundPermAvx2(node, key, o) == LowerBoundAvx2(Loaded(node, o), key)

-----------------------------------------------------------------------------
(* Dispatch: the kernels for what the CPU reports, the widest first.       *)

Cpu == SUBSET {"avx2", "avx512f"}

DetectIsa(cpu) ==
  IF "avx512f" \in cpu THEN "avx512" ELSE IF "avx2" \in cpu THEN "avx2" ELSE "scalar"

\* search_dispatch: all three are the mask.
SearchDispatch(cpu, line, key) == SearchMask(line, key)

LowerBoundDispatch(cpu, line, key) ==
  IF DetectIsa(cpu) = "avx2" THEN LowerBoundAvx2(line, key) ELSE LowerBoundCount(line, key)

LowerBoundPermDispatch(cpu, node, key, o) ==
  CASE DetectIsa(cpu) = "avx512" -> LowerBoundPermAvx512(node, key, o)
    [] DetectIsa(cpu) = "avx2" -> LowerBoundPermAvx2(node, key, o)
    [] OTHER -> LowerBoundPermScalar(node, key, o)

-----------------------------------------------------------------------------
(* The node: fresh, or filled with one of the halves of a split.           *)

Ranks(o) == [r \in 1..OrderCount(o) |-> OrderSlot(o, r - 1)]

\* A half has its lanes in the comparator's order, whatever they hold.
Init ==
  /\ \E run \in {<<>>} \union [1..(NodeKeys \div 2) -> LaneValue] :
       /\ lanes = [s \in Lanes |-> IF s < Len(run) THEN run[s + 1] ELSE EmptyKey]
       /\ word = OrderIdentity(Len(run))
  /\ pc = "idle"
  /\ snap = word

HasRoom == OrderCount(word) < NodeCapacity

Free == OrderCount(word)

\* A store in progress: another thread that looked at the lane might see
\* anything.
StoreBegins ==
  /\ pc = "idle" /\ HasRoom
  /\ \E torn \in LaneValue : lanes' = [lanes EXCEPT ![Free] = torn]
  /\ pc' = "storing"
  /\ UNCHANGED <<word, snap>>

StoreEnds ==
  /\ pc = "storing"
  /\ \E s \in LaneValue : lanes' = [lanes EXCEPT ![Free] = s]
  /\ pc' = "publish"
  /\ UNCHANGED <<word, snap>>

\* The rank is the comparator's, whatever the lane holds.
Publish(rank) ==
  /\ pc = "publish"
  /\ word' = OrderInsert(word, rank, Free)
  /\ pc' = "idle"
  /\ UNCHANGED <<lanes, snap>>

\* The reader's acquire load.
Snapshot ==
  /\ snap # word
  /\ snap' = word
  /\ UNCHANGED <<lanes, word, pc>>

Next ==
  \/ StoreBegins \/ StoreEnds \/ Snapshot
  \/ \E rank \in 0..OrderCount(word) : Publish(rank)

Spec == Init /\ [][Next]_vars

-----------------------------------------------------------------------------
(* Properties.                                                             *)

\* The used ranks of a word name each slot below its count once, and every
\* unused one the padding lane, which no store ever reaches: node.hpp's "a
\* permuted node is sentinel-padded above its last key for free".
WordIsPermutation ==
  LET n == OrderCount(word)
  IN  /\ {OrderSlot(word, r) : r \in 0..(n - 1)} = 0..(n - 1)
      /\ \A r \in n..(NodeKeys - 1) : OrderSlot(word, r) = PadSlot
      /\ lanes[PadSlot] = EmptyKey

\* An append splices its slot in at one rank and moves the ranks above it: the
\* shifts and masks do to the word what Memtable does to a sequence of slots.
WordFollowsSequence ==
  [][word' # word =>
       \E rank \in 1..(Len(Ranks(word)) + 1) :
         Ranks(word') = InsertAt(Ranks(word), rank, Len(Ranks(word)))]_vars

\* The lanes an order word names ascend with their ranks, which check_invariants
\* asks of every node, and which holds of the nodes LanesCheckOut of NodeLanes is
\* about.
RanksAscend(o) ==
  \A q, r \in 0..(OrderCount(o) - 1) : q < r => lanes[OrderSlot(o, q)] <= lanes[OrderSlot(o, r)]

\* Searching a snapshot, also while the writer stores: counting unsigned and
\* counting with biased signed compares give one answer, the number of lanes below
\* the key; the walk over the ranks never gives more; and in a node whose lanes
\* are in rank order it gives as much, so that the answer is one whatever the CPU.
\* In any other node these are the two candidates of NodeLanes.
KernelsAgree ==
  \A cpu \in Cpu, key \in LaneValue :
    LET walked == LowerBoundPermScalar(lanes, key, snap)
        below == Cardinality({s \in 0..(OrderCount(snap) - 1) : lanes[s] < key})
    IN  /\ LowerBoundPermDispatch(cpu, lanes, key, snap)
              = IF DetectIsa(cpu) = "scalar" THEN walked ELSE below
        /\ walked <= below
        /\ RanksAscend(snap) => walked = below

\* The answer belongs to the snapshot: until the reader takes another, no store
\* of the writer changes what any kernel returns.
AnswersStable ==
  [][snap' = snap =>
       \A cpu \in Cpu, key \in LaneValue :
         LowerBoundPermDispatch(cpu, lanes, key, snap)' = LowerBoundPermDispatch(cpu, lanes, key, snap)]_vars

\* The node in rank order, which the kernels of sorted nodes were written for.
Permuted(o) == [r \in Lanes |-> lanes[OrderSlot(o, r)]]

\* Permuting is transparent: the scalar walk over the permuted line returns what
\* the one over the ranks of the append-only node does, and the vector equality
\* kernels return what the linear one does, the first slot.  The others are for a
\* sorted line.  There the counts return what the walk does, and the bisection
\* finds an equal lane if there is one: whichever it meets, though search.hpp
\* promises the first of every kernel.
PermuteTransparent ==
  \A cpu \in Cpu, key \in LaneValue :
    LET line == Permuted(word)
        b == SearchBinary(line, key)
    IN  /\ LowerBoundScalar(line, key) = LowerBoundPermScalar(lanes, key, word)
        /\ SearchDispatch(cpu, line, key) = SearchLinear(line, key)
        /\ RanksAscend(word) =>
             /\ LowerBoundDispatch(cpu, line, key) = LowerBoundScalar(line, key)
             /\ IF b = NotFound THEN SearchLinear(line, key) = NotFound ELSE line[b] = key
=============================================================================
