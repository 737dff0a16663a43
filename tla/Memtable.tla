------------------------------ MODULE Memtable ------------------------------
(***************************************************************************)
(* The insert path of aparajita's BasicMemTable                            *)
(* (include/aparajita/memtable.hpp): a level-0 list of nodes, each with a  *)
(* payload of at most Capacity keys, indexed by a tower of best-effort     *)
(* links.  Writers descend without locks, take the spinlock of one node    *)
(* and either append to its payload or split it in two.                    *)
(*                                                                         *)
(* One action is one access to memory other threads can see.  Accesses to  *)
(* memory only one thread can see (a payload being filled, the tower word  *)
(* of a node not yet linked at that level) are folded into the next        *)
(* visible one, and so are loads whose value cannot change: the first key, *)
(* and with it the hint, of a published node other than the head           *)
(* (FirstKeyFixed below is that fact).                                     *)
(*                                                                         *)
(* Pointers are indices: node n is the n-th ListNode allocated and payload *)
(* p the p-th NodeData; the arena frees neither.  A key is its rank in     *)
(* comparator order; slot s is the code's slot s - 1.                      *)
(***************************************************************************)
EXTENDS Integers, FiniteSets, Sequences, SequencesExt

CONSTANTS
  Writer,        \* threads that call insert_entry
  NoWriter,      \* a lock nobody holds
  Key,           \* entries that may be inserted, ordered by traits.compare
  Capacity,      \* kNodeCapacity
  MaxHeight,     \* kMaxHeight
  MaxTries,      \* attempts of link_tower at one level
  MayThrow,      \* whether traits.allocate may throw
  Hint,          \* descent_hint(order_bytes(k)), for each key k
  HintOrdering,  \* hints_: Traits::hint_ordering()
  Preload        \* keys one thread inserted, ascending, before the others start

Null == 0        \* nullptr, and Traits::null_entry()

ASSUME WriterAssumption == NoWriter \notin Writer

ASSUME SizeAssumption ==
  /\ Key \subseteq Nat \ {Null}
  /\ Capacity \in Nat /\ Capacity >= 1
  /\ MaxHeight \in Nat /\ MaxHeight >= 1
  /\ MaxTries \in Nat /\ MaxTries >= 1
  /\ MayThrow \in BOOLEAN

\* What hint_ordering() promises: the hint never contradicts the comparator.
ASSUME HintAssumption ==
  /\ HintOrdering \in BOOLEAN
  /\ Hint \in [Key -> Nat]
  /\ HintOrdering => \A j, k \in Key : j < k => Hint[j] <= Hint[k]

ASSUME PreloadAssumption ==
  /\ Preload \in Seq(Key)
  /\ Len(Preload) <= Capacity
  /\ \A i, j \in DOMAIN Preload : i < j => Preload[i] < Preload[j]

VARIABLES
  keys,     \* keys[p][s]: NodeData::keys, Null until slot s is written
  order,    \* order[p]: NodeData::order, the slot of each sorted rank
  next,     \* next[p]: NodeData::next
  data,     \* data[n]: ListNode::data
  hint,     \* hint[n]: ListNode::first_hint
  lock,     \* lock[n]: who holds ListNode::write_lock
  height,   \* height[n]: ListNode::height
  tower,    \* tower[n][l]: ListNode::tower at levels 1 and above
  started,  \* keys some insert_entry was called with; each is inserted once
  pc,       \* pc[w]: where in insert_entry thread w is
  loc       \* loc[w]: the locals of that call

payloadVars == <<keys, order, next>>
nodeVars == <<data, hint, lock, height, tower>>
threadVars == <<started, pc, loc>>
vars == <<payloadVars, nodeVars, threadVars>>

HeadNode == 1
Node == 1..Len(data)
Payload == 1..Len(order)
Slot == 1..Capacity
Level == 1..(MaxHeight - 1)
Mid == (Capacity + 1) \div 2

-----------------------------------------------------------------------------
(* Payloads.                                                               *)

KeyAt(p, o, r) == keys[p][o[r]]

\* Slip: the first key above k, not the first that is not below.
SortedPositionPast(p, o, k) == Cardinality({r \in DOMAIN o : KeyAt(p, o, r) <= k})

\* sorted_position: how many of the keys o names sort below k.
SortedPosition(p, o, k) == Cardinality({r \in DOMAIN o : KeyAt(p, o, r) < k})

\* merge: the keys of payload p in comparator order, k among them.
Merged(p, k) ==
  InsertAt([r \in DOMAIN order[p] |-> KeyAt(p, order[p], r)],
           SortedPosition(p, order[p], k) + 1, k)

\* fill over fresh_data: slot order and sorted order coincide.
\* Slip: the loop ends one short.
FilledKeysShort(run) == [s \in Slot |-> IF s < Len(run) THEN run[s] ELSE Null]

FilledKeys(run) == [s \in Slot |-> IF s <= Len(run) THEN run[s] ELSE Null]
FilledOrder(run) == [r \in 1..Len(run) |-> r]

FirstKey(n) == KeyAt(data[n], order[data[n]], 1)

\* Slip: a tie of hints counts as an answer.
StartsByHintAlone(n, k) ==
  IF HintOrdering THEN hint[n] <= Hint[k]
  ELSE order[data[n]] # <<>> /\ FirstKey(n) <= k

\* Whether node n begins at or below k.  A hint that differs decides; a tie
\* is left to the comparator.
StartsAtOrBelow(n, k) ==
  IF HintOrdering /\ hint[n] # Hint[k]
  THEN hint[n] < Hint[k]
  ELSE order[data[n]] # <<>> /\ FirstKey(n) <= k

\* Slip: no second look after taking the lock.
BelongsUnchecked(p, k) == TRUE

\* Slip: the comparison the wrong way round.
BelongsReversed(p, k) ==
  next[p] # Null => order[data[next[p]]] = <<>> \/ FirstKey(next[p]) < k

BelongsHere(p, k) ==
  next[p] # Null => order[data[next[p]]] = <<>> \/ FirstKey(next[p]) > k

\* The link a descent follows at level l: level 0 lives in the payload.
LinkOf(n, l) == IF l = 0 THEN next[data[n]] ELSE tower[n][l]

-----------------------------------------------------------------------------
(* The locals of insert_entry and of the functions it calls.               *)

Idle == [key |-> Null, cur |-> Null, lv |-> 0, d |-> Null,
         left |-> Null, right |-> Null, sib |-> Null,
         pred |-> Null, goal |-> 0, tries |-> 0, nx |-> Null]

Descending(k) == [Idle EXCEPT !.key = k, !.cur = HeadNode, !.lv = MaxHeight - 1]

Goto(w, label) == pc' = [pc EXCEPT ![w] = label]

\* Where a thread is in no call: the last one returned, or ended in an exception.
NoCall == {"idle", "threw"}

Building == {"splitHint", "splitData"}
Linking == {"find", "link", "cas"}
Splitting == {"splitHint", "splitData"} \union Linking
Appending == {"slot", "hint", "order"}
Working == {"slot", "hint", "order", "split", "splitHint", "splitData"}
Holding == {"check", "unlock"} \union Working \union Linking

Init ==
  /\ keys = <<FilledKeys(Preload)>>
  /\ order = <<FilledOrder(Preload)>>
  /\ next = <<Null>>
  /\ data = <<1>>
  /\ hint = <<IF Preload = <<>> THEN 0 ELSE Hint[Preload[1]]>>
  /\ lock = <<NoWriter>>
  /\ height = <<MaxHeight>>
  /\ tower = <<[l \in Level |-> Null]>>
  /\ started = ToSet(Preload)
  /\ pc = [w \in Writer |-> "idle"]
  /\ loc = [w \in Writer |-> Idle]

-----------------------------------------------------------------------------
(* insert_entry.  An entry is inserted once: RocksDB's keys carry a        *)
(* sequence number and never repeat.                                       *)

Insert(w, k) ==
  /\ pc[w] \in NoCall
  /\ k \notin started
  /\ started' = started \union {k}
  /\ loc' = [loc EXCEPT ![w] = Descending(k)]
  /\ Goto(w, "descend")
  /\ UNCHANGED <<payloadVars, nodeVars>>

(* descend: one load of a link, and the comparison with the node it names. *)

MayHop(w) ==
  LET nx == LinkOf(loc[w].cur, loc[w].lv)
  IN  nx # Null /\ StartsAtOrBelow(nx, loc[w].key)

HopForward(w) ==
  /\ pc[w] = "descend"
  /\ MayHop(w)
  /\ loc' = [loc EXCEPT ![w].cur = LinkOf(loc[w].cur, loc[w].lv)]
  /\ UNCHANGED <<payloadVars, nodeVars, started, pc>>

HopDown(w) ==
  /\ pc[w] = "descend"
  /\ ~MayHop(w)
  /\ loc[w].lv > 0
  /\ loc' = [loc EXCEPT ![w].lv = @ - 1]
  /\ UNCHANGED <<payloadVars, nodeVars, started, pc>>

Arrive(w) ==
  /\ pc[w] = "descend"
  /\ ~MayHop(w)
  /\ loc[w].lv = 0
  /\ Goto(w, "lock")
  /\ UNCHANGED <<payloadVars, nodeVars, started, loc>>

\* Slip: the node is entered without looking at the flag.
AcquireHeld(w) ==
  /\ pc[w] = "lock"
  /\ lock' = [lock EXCEPT ![loc[w].cur] = w]
  /\ Goto(w, "check")
  /\ UNCHANGED <<payloadVars, data, hint, height, tower, started, loc>>

\* The test_and_set that succeeds; the ones that fail change nothing.
Acquire(w) ==
  /\ pc[w] = "lock"
  /\ lock[loc[w].cur] = NoWriter
  /\ lock' = [lock EXCEPT ![loc[w].cur] = w]
  /\ Goto(w, "check")
  /\ UNCHANGED <<payloadVars, data, hint, height, tower, started, loc>>

Release(w) == lock' = [lock EXCEPT ![loc[w].cur] = NoWriter]

\* The node split between the descent and the lock: walk again.
Backout(w) ==
  /\ pc[w] = "check"
  /\ ~BelongsHere(data[loc[w].cur], loc[w].key)
  /\ Release(w)
  /\ loc' = [loc EXCEPT ![w] = Descending(loc[w].key)]
  /\ Goto(w, "descend")
  /\ UNCHANGED <<payloadVars, data, hint, height, tower, started>>

\* Slip: a full node takes one more.
HasRoomForOne(p) == Len(order[p]) <= Capacity

HasRoom(p) == Len(order[p]) < Capacity

Admit(w) ==
  /\ pc[w] = "check"
  /\ LET d == data[loc[w].cur]
     IN  /\ BelongsHere(d, loc[w].key)
         /\ loc' = [loc EXCEPT ![w].d = d]
         /\ Goto(w, IF HasRoom(d) THEN "slot" ELSE "split")
  /\ UNCHANGED <<payloadVars, nodeVars, started>>

-----------------------------------------------------------------------------
(* append.  The order word is what makes the key visible.                  *)

Rank(w) == SortedPosition(loc[w].d, order[loc[w].d], loc[w].key) + 1

\* Slip: the key goes to the slot of its rank, as in a sorted array.
SlotOfRank(w) == Rank(w)

\* Slots are consumed in order.
FreeSlot(w) == Len(order[loc[w].d]) + 1

\* Slip: only the first key of all sets the hint.
IsFirstEver(w) == order[loc[w].d] = <<>>

\* Whether the key becomes the first of its node: of the head, that is.
IsFirst(w) == Rank(w) = 1

AppendSlot(w) ==
  /\ pc[w] = "slot"
  /\ keys' = [keys EXCEPT ![loc[w].d][FreeSlot(w)] = loc[w].key]
  /\ Goto(w, IF IsFirst(w) THEN "hint" ELSE "order")
  /\ UNCHANGED <<order, next, nodeVars, started, loc>>

AppendHint(w) ==
  /\ pc[w] = "hint"
  /\ hint' = [hint EXCEPT ![loc[w].cur] = Hint[loc[w].key]]
  /\ Goto(w, "order")
  /\ UNCHANGED <<payloadVars, data, lock, height, tower, started, loc>>

AppendOrder(w) ==
  /\ pc[w] = "order"
  /\ order' = [order EXCEPT ![loc[w].d] = InsertAt(@, Rank(w), FreeSlot(w))]
  /\ Goto(w, "unlock")
  /\ UNCHANGED <<keys, next, nodeVars, started, loc>>

-----------------------------------------------------------------------------
(* split_and_insert.  The right half becomes a node of its own; one store  *)
(* to cur->data then installs the left half and the link to it.            *)

LeftRun(w) == SubSeq(Merged(loc[w].d, loc[w].key), 1, Mid)
\* Slip: the key at the middle goes to neither half.
RightRunShort(w) == SubSeq(Merged(loc[w].d, loc[w].key), Mid + 2, Capacity + 1)

RightRun(w) == SubSeq(Merged(loc[w].d, loc[w].key), Mid + 1, Capacity + 1)

LeftNext(w) == Len(data) + 1

\* Slip: the sibling is given the hint of the key being inserted.
SiblingHintOfKey(w) == Hint[loc[w].key]

SiblingHint(w) == Hint[RightRun(w)[1]]

\* create_node, fresh_data, fill, random_height and publish(sibling, right):
\* nothing another thread can reach yet.
SplitBuild(w, h) ==
  LET right == Len(order) + 1
      left == Len(order) + 2
      sib == Len(data) + 1
  IN  /\ pc[w] = "split"
      /\ keys' = keys \o <<FilledKeys(RightRun(w)), FilledKeys(LeftRun(w))>>
      /\ order' = order \o <<FilledOrder(RightRun(w)), FilledOrder(LeftRun(w))>>
      /\ next' = next \o <<next[loc[w].d], LeftNext(w)>>
      /\ data' = Append(data, right)
      /\ hint' = Append(hint, SiblingHint(w))
      /\ lock' = Append(lock, NoWriter)
      /\ height' = Append(height, h)
      /\ tower' = Append(tower, [l \in Level |-> Null])
      /\ loc' = [loc EXCEPT ![w].left = left, ![w].right = right, ![w].sib = sib]
      /\ Goto(w, "splitHint")
      /\ UNCHANGED started

\* One of the three allocations above throws.  Nothing was published, and what
\* was allocated before it nobody will ever reach; but no handler clears the lock.
AllocationThrows(w) ==
  /\ MayThrow
  /\ pc[w] = "split"
  /\ Goto(w, "threw")
  /\ UNCHANGED <<payloadVars, nodeVars, started, loc>>

\* publish(cur, left), the hint half.
SplitHint(w) ==
  /\ pc[w] = "splitHint"
  /\ hint' = [hint EXCEPT ![loc[w].cur] = Hint[keys[loc[w].left][1]]]
  /\ Goto(w, "splitData")
  /\ UNCHANGED <<payloadVars, data, lock, height, tower, started, loc>>

\* Slip: the search for a predecessor starts at the node that split.
FindingFromCur(l, goal, attempt) ==
  [l EXCEPT !.pred = l.cur, !.lv = goal, !.goal = goal, !.tries = attempt]

\* pred_at_level from the top, for the given attempt at linking level goal.
Finding(l, goal, attempt) ==
  [l EXCEPT !.pred = HeadNode, !.lv = MaxHeight - 1, !.goal = goal, !.tries = attempt]

\* publish(cur, left), the payload half, and the entry to link_tower.
SplitData(w) ==
  /\ pc[w] = "splitData"
  /\ data' = [data EXCEPT ![loc[w].cur] = loc[w].left]
  /\ IF height[loc[w].sib] > 1
     THEN loc' = [loc EXCEPT ![w] = Finding(@, 1, 1)] /\ Goto(w, "find")
     ELSE UNCHANGED loc /\ Goto(w, "unlock")
  /\ UNCHANGED <<payloadVars, hint, lock, height, tower, started>>

-----------------------------------------------------------------------------
(* link_tower, which runs with the lock of cur still held.  The sibling's  *)
(* first key is keys[right][1].  A sibling is never found as its own       *)
(* predecessor (NotItsOwnPredecessor below), so the code's test for that   *)
(* case has no action.                                                     *)

LinkKey(w) == keys[loc[w].right][1]

\* The level is done, linked or given up: the next one, or the unlock.
NextLevel(w) ==
  IF loc[w].goal + 1 < height[loc[w].sib]
  THEN loc' = [loc EXCEPT ![w] = Finding(@, loc[w].goal + 1, 1)] /\ Goto(w, "find")
  ELSE UNCHANGED loc /\ Goto(w, "unlock")

\* The attempt failed: pred_at_level again, while attempts remain.
Retry(w) ==
  IF loc[w].tries < MaxTries
  THEN /\ loc' = [loc EXCEPT ![w] = Finding(@, loc[w].goal, loc[w].tries + 1)]
       /\ Goto(w, "find")
  ELSE NextLevel(w)

MayFind(w) ==
  LET nx == tower[loc[w].pred][loc[w].lv]
  IN  nx # Null /\ StartsAtOrBelow(nx, LinkKey(w))

FindHop(w) ==
  /\ pc[w] = "find"
  /\ MayFind(w)
  /\ loc' = [loc EXCEPT ![w].pred = tower[loc[w].pred][loc[w].lv]]
  /\ UNCHANGED <<payloadVars, nodeVars, started, pc>>

FindDown(w) ==
  /\ pc[w] = "find"
  /\ ~MayFind(w)
  /\ loc[w].lv > loc[w].goal
  /\ loc' = [loc EXCEPT ![w].lv = @ - 1]
  /\ UNCHANGED <<payloadVars, nodeVars, started, pc>>

FindArrive(w) ==
  /\ pc[w] = "find"
  /\ ~MayFind(w)
  /\ loc[w].lv = loc[w].goal
  /\ Goto(w, "link")
  /\ UNCHANGED <<payloadVars, nodeVars, started, loc>>

\* Another sibling was linked here since pred was found.
LinkBehind(w) ==
  /\ pc[w] = "link"
  /\ MayFind(w)
  /\ Retry(w)
  /\ UNCHANGED <<payloadVars, nodeVars, started>>

\* nx = pred->tower[lv], stored in the sibling, which nobody reads here yet.
LinkLoad(w) ==
  /\ pc[w] = "link"
  /\ ~MayFind(w)
  /\ LET nx == tower[loc[w].pred][loc[w].goal]
     IN  /\ loc' = [loc EXCEPT ![w].nx = nx]
         /\ tower' = [tower EXCEPT ![loc[w].sib][loc[w].goal] = nx]
  /\ Goto(w, "cas")
  /\ UNCHANGED <<payloadVars, data, hint, lock, height, started>>

\* Slip: a plain store where the compare-and-swap is.
LinkStore(w) ==
  /\ pc[w] = "cas"
  /\ tower' = [tower EXCEPT ![loc[w].pred][loc[w].goal] = loc[w].sib]
  /\ NextLevel(w)
  /\ UNCHANGED <<payloadVars, data, hint, lock, height, started>>

\* Slip: success is taken for failure.
LinkCasAgain(w) ==
  /\ pc[w] = "cas"
  /\ tower[loc[w].pred][loc[w].goal] = loc[w].nx
  /\ tower' = [tower EXCEPT ![loc[w].pred][loc[w].goal] = loc[w].sib]
  /\ Retry(w)
  /\ UNCHANGED <<payloadVars, data, hint, lock, height, started>>

LinkCas(w) ==
  /\ pc[w] = "cas"
  /\ tower[loc[w].pred][loc[w].goal] = loc[w].nx
  /\ tower' = [tower EXCEPT ![loc[w].pred][loc[w].goal] = loc[w].sib]
  /\ NextLevel(w)
  /\ UNCHANGED <<payloadVars, data, hint, lock, height, started>>

\* compare_exchange_weak may fail whether or not the link changed.
LinkCasFails(w) ==
  /\ pc[w] = "cas"
  /\ Retry(w)
  /\ UNCHANGED <<payloadVars, nodeVars, started>>

-----------------------------------------------------------------------------
Unlock(w) ==
  /\ pc[w] = "unlock"
  /\ Release(w)
  /\ loc' = [loc EXCEPT ![w] = Idle]
  /\ Goto(w, "idle")
  /\ UNCHANGED <<payloadVars, data, hint, height, tower, started>>

\* What a call does once it has been made.
Step(w) ==
  \/ HopForward(w) \/ HopDown(w) \/ Arrive(w)
  \/ Acquire(w) \/ Backout(w) \/ Admit(w)
  \/ AppendSlot(w) \/ AppendHint(w) \/ AppendOrder(w)
  \/ \E h \in 1..MaxHeight : SplitBuild(w, h)
  \/ SplitHint(w) \/ SplitData(w)
  \/ FindHop(w) \/ FindDown(w) \/ FindArrive(w)
  \/ LinkBehind(w) \/ LinkLoad(w) \/ LinkCas(w) \/ LinkCasFails(w)
  \/ Unlock(w)

\* The lock of node n is taken, by a call that ended in an exception.
Abandoned(n) == lock[n] # NoWriter /\ \A w \in Writer : pc[w] \in Holding => loc[w].cur # n

Blocked(w) == pc[w] = "lock" /\ Abandoned(loc[w].cur)

\* Nothing is left to do, or nobody is left who can do it.
Finished ==
  /\ \A w \in Writer : Blocked(w) \/ (pc[w] \in NoCall /\ started = Key)
  /\ UNCHANGED vars

Next ==
  \/ \E w \in Writer : Step(w) \/ AllocationThrows(w) \/ \E k \in Key : Insert(w, k)
  \/ Finished

Spec == Init /\ [][Next]_vars

\* The scheduler runs every thread that can run; nobody has to start a call, and
\* no allocation has to throw.
FairSpec == Spec /\ \A w \in Writer : WF_vars(Step(w))

-----------------------------------------------------------------------------
(* What a state of the structure is.                                       *)

\* A sibling is in the list once cur->data links to it.
Linked == Node \ {loc[w].sib : w \in {v \in Writer : pc[v] \in Building}}

KeysOf(p) == {KeyAt(p, order[p], r) : r \in DOMAIN order[p]}

Contents == UNION {KeysOf(data[n]) : n \in Linked}

\* The nodes that a walk from the head over the links of level l reaches.
Reached(l) ==
  LET walk[i \in 0..Len(data)] ==
        IF i = 0 THEN HeadNode
        ELSE IF walk[i - 1] = Null THEN Null
        ELSE LinkOf(walk[i - 1], l)
  IN  {walk[i] : i \in DOMAIN walk} \ {Null}

\* Where descend(k) ends if nothing moves meanwhile.
Descent(k) ==
  LET step[i \in 0..(Len(data) + MaxHeight)] ==
        IF i = 0 THEN <<HeadNode, MaxHeight - 1>>
        ELSE LET n == step[i - 1][1]
                 l == step[i - 1][2]
                 nx == LinkOf(n, l)
             IN  IF nx # Null /\ StartsAtOrBelow(nx, k) THEN <<nx, l>>
                 ELSE IF l > 0 THEN <<n, l - 1>>
                 ELSE <<n, l>>
  IN  step[Len(data) + MaxHeight][1]

\* What check_invariants asks of the structure: of each node the walk over level 0
\* comes to, and of it and the next one.  What it asks of lanes and prefixes is
\* CheckLanes of NodeLanes.
CheckRun(p) ==
  LET o == order[p]
  IN  /\ Len(o) <= Capacity
      /\ ToSet(o) = 1..Len(o)
      /\ \A r \in 2..Len(o) : KeyAt(p, o, r - 1) <= KeyAt(p, o, r)

CheckHint(n) == order[data[n]] # <<>> => hint[n] = Hint[FirstKey(n)]

CheckNeighbours(p) ==
  LET o == order[p]
  IN  o # <<>> /\ next[p] # Null /\ order[data[next[p]]] # <<>> =>
        KeyAt(p, o, Len(o)) <= FirstKey(next[p])

CheckStructure ==
  \A n \in Reached(0) : CheckRun(data[n]) /\ CheckHint(n) /\ CheckNeighbours(data[n])

-----------------------------------------------------------------------------
(* Properties.                                                             *)

Local ==
  [key : Key \union {Null}, cur : Nat, lv : 0..(MaxHeight - 1), d : Nat,
   left : Nat, right : Nat, sib : Nat,
   pred : Nat, goal : 0..(MaxHeight - 1), tries : 0..MaxTries, nx : Nat]

Label == {"idle", "threw", "descend", "lock", "check", "slot", "hint", "order", "split",
          "splitHint", "splitData", "find", "link", "cas", "unlock"}

TypeOK ==
  /\ keys \in Seq([Slot -> Key \union {Null}])
  /\ order \in Seq(Seq(Slot))
  /\ next \in Seq(Nat)
  /\ data \in Seq(Nat)
  /\ hint \in Seq(Nat)
  /\ lock \in Seq(Writer \union {NoWriter})
  /\ height \in Seq(1..MaxHeight)
  /\ tower \in Seq([Level -> Nat])
  /\ started \in SUBSET Key
  /\ pc \in [Writer -> Label]
  /\ loc \in [Writer -> Local]

\* The level-0 list is sorted: the keys of a node ascend, and each node ends
\* below the first key of the next.  The head alone may be empty, and then it
\* is alone.
LevelZeroOrdered ==
  \A n \in Linked :
    LET o == order[data[n]]
        nx == next[data[n]]
    IN  /\ \A i, j \in DOMAIN o : i < j => KeyAt(data[n], o, i) < KeyAt(data[n], o, j)
        /\ nx # Null => /\ nx \in Linked
                        /\ o # <<>> /\ order[data[nx]] # <<>>
                        /\ KeyAt(data[n], o, Len(o)) < FirstKey(nx)

\* No node is lost: the level-0 links reach exactly the nodes in the list, for
\* all the splits under way.
LinkedIsReachable == Linked = Reached(0)

\* "A stale or missing tower pointer costs a longer walk, never a wrong
\* answer": in every state, also in the middle of appends, splits and linking,
\* a descent by tower and hints ends at the node that holds the key.
DescentFinds == \A k \in Contents : k \in KeysOf(data[Descent(k)])

\* "Call it on a quiesced structure": when nobody is in a call check_invariants
\* finds nothing wrong with order words, keys and hints, the head's hint included,
\* also after calls that threw.  Of lanes and prefixes this says nothing.
QuiescedChecksOut == (\A w \in Writer : pc[w] \in NoCall) => CheckStructure

\* The descent hint of a node other than the head is the hint of its first key.
HintSound ==
  \A n \in Node \ {HeadNode} :
    order[data[n]] # <<>> /\ hint[n] = Hint[FirstKey(n)]

\* A tower link leads forward, from a node tall enough to be walked at its level
\* to another such node in the list, and level 0 reaches all of these.
TowerSound ==
  /\ LinkedIsReachable
  /\ \A n \in Node, l \in Level :
       LET m == tower[n][l]
       IN  m # Null => /\ m \in Linked
                       /\ height[n] > l /\ height[m] > l
                       /\ n # HeadNode => FirstKey(n) < FirstKey(m)

\* link_tower never finds the node it links as its own predecessor.
NotItsOwnPredecessor == \A w \in Writer : pc[w] = "link" => loc[w].pred # loc[w].sib

\* Between taking the lock and publishing, the payload a writer writes to or
\* copies is the one its node has now, and its lock is still its own.
OwnsPayload ==
  \A w \in Writer :
    pc[w] \in Working => lock[loc[w].cur] = w /\ data[loc[w].cur] = loc[w].d

\* The first key of a node never changes once the node is published, except the
\* head's, which may only fall.
FirstKeyFixed ==
  [][\A n \in Node : order[data[n]] # <<>> =>
        IF n = HeadNode THEN FirstKey(n)' <= FirstKey(n) ELSE FirstKey(n)' = FirstKey(n)]_vars

\* A slot an order word names is never written again, an order word only gains
\* slots, and the link of a payload never changes: what a reader snapshots stays
\* true.
SlotsFrozen ==
  [][\A p \in Payload :
        /\ \A r \in DOMAIN order[p] : keys'[p][order[p][r]] = keys[p][order[p][r]]
        /\ ToSet(order[p]) \subseteq ToSet(order'[p])
        /\ next'[p] = next[p]]_vars

\* Linking one sibling never unlinks another: a node that a walk at some level
\* reaches stays reachable at that level, whoever splits or links meanwhile.
LevelsOnlyGrow ==
  [][\A l \in 0..(MaxHeight - 1) : Reached(l) \subseteq Reached(l)']_vars

-----------------------------------------------------------------------------
(* Ownership, as an inductive invariant: who may write what.               *)

\* Every pointer names something allocated.
PointersOK ==
  /\ Len(keys) = Len(order) /\ Len(next) = Len(order)
  /\ Len(hint) = Len(data) /\ Len(lock) = Len(data)
  /\ Len(height) = Len(data) /\ Len(tower) = Len(data)
  /\ HeadNode \in Node
  /\ \A n \in Node : data[n] \in Payload
  /\ \A n \in Node, l \in Level : tower[n][l] \in Node \union {Null}
  /\ \A p \in Payload : next[p] \in Node \union {Null}

\* So do the pointers a writer holds.
LocalOK(w) ==
  /\ pc[w] # "idle" => loc[w].cur \in Node /\ loc[w].key \in Key
  /\ pc[w] \in Splitting =>
       loc[w].sib \in Node /\ loc[w].left \in Payload /\ loc[w].right \in Payload
  /\ pc[w] \in Linking => loc[w].pred \in Node /\ loc[w].goal \in Level
  /\ pc[w] = "find" => loc[w].lv \in Level
  /\ pc[w] = "cas" => loc[w].nx \in Node \union {Null}

\* A writer holds its lock, and works on the payload its node has.
LockOK(w) ==
  /\ pc[w] \in Holding => lock[loc[w].cur] = w
  /\ pc[w] \in Working => data[loc[w].cur] = loc[w].d

\* What the writer of a payload has found and done so far still holds.
PendingOK(w) ==
  /\ pc[w] \in Appending => Len(order[loc[w].d]) < Capacity
  /\ pc[w] \in {"hint", "order"} => keys[loc[w].d][FreeSlot(w)] = loc[w].key
  /\ pc[w] = "split" => Len(order[loc[w].d]) = Capacity
  /\ pc[w] \in Building => keys[loc[w].left][1] \in Key

\* No payload belongs to two nodes, and a left half under construction to none.
PayloadsOK ==
  /\ \A m, n \in Node : data[m] = data[n] => m = n
  /\ \A w \in Writer : pc[w] \in Building =>
       /\ \A n \in Node : data[n] # loc[w].left
       /\ \A v \in Writer : pc[v] \in Building /\ loc[v].left = loc[w].left => v = w

\* An order word names only slots whose keys are written, and none beyond them.
SlotsOK ==
  \A p \in Payload :
    /\ Len(order[p]) <= Capacity
    /\ \A r \in DOMAIN order[p] : order[p][r] <= Len(order[p]) /\ KeyAt(p, order[p], r) \in Key

Ownership ==
  /\ TypeOK /\ PointersOK /\ PayloadsOK /\ SlotsOK
  /\ \A w \in Writer : LocalOK(w) /\ LockOK(w) /\ PendingOK(w)

-----------------------------------------------------------------------------
(* Progress.                                                               *)

\* Every insert that was called returns, whatever splits and links meanwhile; the
\* one thing that can stop it is a lock left taken by an allocation that threw.
InsertCompletes == \A w \in Writer : pc[w] \notin NoCall ~> (pc[w] \in NoCall \/ Blocked(w))

\* A spin on a lock lets "the holder finish": every insert that was called ends.
HolderFinishes == \A w \in Writer : pc[w] \notin NoCall ~> pc[w] \in NoCall

-----------------------------------------------------------------------------
(* What writers promise: an insert takes effect at one instant between its *)
(* call and its return.                                                    *)

Published == {"find", "link", "cas", "unlock"}

status == [w \in Writer |-> CASE pc[w] \in NoCall -> pc[w]
                              [] pc[w] \in Published -> "committed"
                              [] OTHER -> "called"]

arg == [w \in Writer |-> loc[w].key]

Set == INSTANCE OrderedSet WITH contents <- Contents

\* The order-word store of an append, and the payload store of a split, are
\* those instants; no other step changes the set, no key is ever dropped, and an
\* insert that throws has inserted nothing.
ImplementsOrderedSet == Set!Spec

=============================================================================
