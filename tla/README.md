# A TLA+ model of aparajita's memtable

aparajita is a memtable for RocksDB: a concurrent ordered set of keys. Nodes of
up to fifteen keys form a level-0 list; a tower of best-effort links and a
64-bit hint per node index it. Readers take no lock. Writers take the spinlock
of one node, and publish with one store. This directory models that code in
TLA+, model-checks it with TLC and proves with TLAPS what the
checks show, but for liveness.

## The system

| Component | State | Operations | Interacts with |
|---|---|---|---|
| Insert path (`memtable.hpp`: `insert_entry`, `append`, `split_and_insert`, `publish`) | node payloads, the pointers to them, one spinlock per node | insert | walks the tower and level 0, allocates from the arena, links the tower |
| Level-0 list (`NodeData::next`, `ListNode::data`) | payloads linked through `next` | extended by a split, walked by everyone | lives in the payload, so that one store changes contents and successor |
| Tower and hints (`descend`, `pred_at_level`, `link_tower`, `first_hint`) | links at levels 1 and up, a hint per node | link a sibling, descend | reads payloads on a tie of hints |
| Lookup and iterator (`contains_target`, `Iterator`) | node, payload, snapshot of an order word, position | contains, seek, seek_for_prev, seek_to_first, seek_to_last, next, prev | loads what writers store, shares no lock with them |
| Order word (`node.hpp`) | sixteen nibbles in one word | slot, count, identity, insert | the publication of an append |
| Lanes, prefix, surrogates (`surrogate.hpp`, `shares_prefix`, `fill`, `append`) | 32-bit lanes and a prefix length per payload | candidate position | confirmed by the comparator |
| SIMD kernels (`search.hpp`) | none | lower bound over the lanes | chosen once by CPU features |
| Arena (`arena.hpp`) | chunks, offset, limit | allocate | one mutex |
| RocksDB rep (`plugin/`) | a table | Insert, Contains, Get, iterators, UniqueRandomSample | supplies the comparator, the allocator and `hint_ordering`; Get feeds a callback of RocksDB's |
| Facade `MemTable` | an arena and a table | insert, contains | copies a key into the arena and forwards |
| `check_invariants`, `size` | none | a walk over level 0 | called on a quiesced structure; beside writers |
| Workload generators (`workload.hpp`) | nodes made by hand, probes | make nodes, draw probes | what the benchmarks run the kernels on |
| Benchmarks, scripts, results, paper | none | | |

What is hard here:

- an insert chooses its node before it locks it, and the node may split in
  between; so may any node a reader has chosen but not loaded yet;
- an append is three stores (key, hint, order word) and a split is two (hint,
  payload), with readers and other writers between any two of them;
- hints and payloads of a node change at different instants;
- tower links are made by compare-and-swap after the sibling is on level 0, may
  fail spuriously and are given up after eight attempts;
- writers spin and back out, readers must wait for nobody;
- a split allocates three times with the node's lock held, and the allocator may
  throw;
- an iterator answers from a snapshot while its node fills or splits, and a Get
  or a count goes over many such nodes;
- the comparator need not follow the bytes that hints and lanes are made of.

What makes each part correct: the insert path, that it implements a set that
only grows; the list, that it is sorted and complete at every instant; the
tower, that it never changes where a descent ends; the reader, that it reports
only keys that are there, in order, and skips none; the order word, lanes and
kernels, that they compute the position the comparator defines; the arena, that
blocks are aligned and disjoint; Get, that its callback is given the versions
the lookup may see; the workloads, that their nodes are ones the structure would
hold.

## Modules

| Module | Models |
|---|---|
| `OrderedSet` | what `insert_entry` promises: each insert takes effect at one instant between call and return |
| `Memtable` | insert path, level-0 list, tower and hints: any number of writer threads |
| `Iterator` | extends `Memtable` by readers: lookup and every iterator operation |
| `Rep` | extends `Iterator` by whole scans: the plugin's `Get` with its callback, and `size` |
| `OrderWord` | the order word bit by bit: `order_slot`, `order_count`, `order_identity`, `order_insert` |
| `NodeSearch` | extends `OrderWord` by the kernels of `search.hpp` and their choice by CPU, the lanes of one node, its writer, and a reader that searches a snapshot |
| `Workload` | extends `NodeSearch` by the nodes and probes of `workload.hpp` |
| `NodeLanes` | prefix, surrogates, descent hints and `sorted_position` of one node, through appends and splits, and the part of `check_invariants` that looks at them |
| `Rounding`, `Arena` | `Arena::allocate` |
| `RepAllocator` | the plugin's allocation by hand over RocksDB's allocator |
| `RepSample` | `UniqueRandomSample` |
| `MC...` | small instances for TLC: keys, hints, bytes, requests, preloaded contents. `MCNodeSearch` and `MCStorage` put modules that share no state under one specification, of which a behaviour exercises one |
| `ListInvariant`, `TowerInvariant` | nothing of the code: `ListSound` and `IndexSound`, the inductive invariants of `Memtable` that `Insert` checks. The others stand at the head of the module that proves them |
| `MemtableProofs`, `ListProofs`, `TowerProofs` | theorems about `Memtable`, each module on top of the one before: who writes what, the list and the refinement of `OrderedSet`, the tower, walks and descents |
| `IteratorProofs` | theorems about `Iterator`: what readers answer beside writers |
| `RepProofs` | theorems about `Rep`: what whole scans give |
| `LanesProofs` | theorems about `NodeLanes`: positions, hints, lanes |
| `KernelProofs` | theorems about `NodeSearch` and `Workload`: the order word, the kernels, the nodes and probes of the benchmarks |
| `StorageProofs` | theorems about `Arena`, `RepAllocator` and `RepSample` |

The modules meet where one abstracts another. `Memtable` takes `sorted_position`
for the number of smaller keys, which `NodeLanes` shows (`PositionExact`), and
the order word for a sequence of slots into which an append inserts one, which
`NodeSearch` shows (`WordFollowsSequence`). `NodeLanes` takes the kernels for a
walk over the ranks or a count of lanes, which `NodeSearch` shows them to be
(`KernelsAgree`), and does not say which the CPU has. `NodeSearch` in turn ties a
lane to its rank by nothing: the rank of an append is the comparator's, and only
`NodeLanes` says in which nodes the lanes are in rank order, so that walk and count
are one answer (`LanesCheckOut`: under a comparator that follows the bytes, in all
but a head that has split). `Memtable` assumes of trusted
hints that they never contradict the comparator, which `NodeLanes` shows of
`descent_hint` (`HintsAgree`). `check_invariants` is split: order words, keys
and hints are `CheckStructure` of `Memtable`, lanes and prefixes `CheckLanes` of
`NodeLanes`. The first finds nothing on any quiesced structure, the second does in
one case (`LanesHead` below).

**One action is one access to memory another thread can see.** What touches only
private memory is folded into the next visible access, and so are loads whose
value cannot change. A thread's `pc` says where in `insert_entry` it is and `loc`
holds the locals. The labels and the code:

| `pc` | code in `memtable.hpp` | leaves by |
|---|---|---|
| `descend` | `descend` (634), one hop or one level at a time | `HopForward`, `HopDown`, `Arrive` |
| `lock` | the `test_and_set` loop (234) | `Acquire` |
| `check` | `belongs_here` under the lock (249) | `Backout`, `Admit` |
| `slot`, `hint`, `order` | the three stores of `append` (922, 928, 930) | `AppendSlot`, `AppendHint`, `AppendOrder` |
| `split` | `split_and_insert` up to `publish(sibling, right)` (939-954), all private | `SplitBuild` |
| `threw` | an exception out of one of the three allocations of `split_and_insert` (943-945) | `AllocationThrows`; the thread may call again |
| `splitHint`, `splitData` | the two stores of `publish(cur, left)` (585, 577) | `SplitHint`, `SplitData` |
| `find` | `pred_at_level` (729) | `FindHop`, `FindDown`, `FindArrive` |
| `link`, `cas` | the rest of the attempt in `link_tower` (765-774) | `LinkBehind`, `LinkLoad`, `LinkCas`, `LinkCasFails` |
| `unlock` | the release (263) | `Unlock` |

The lock is held through linking, as in the code. The branch `pred == node` of
`link_tower` (762) has no action: `NotItsOwnPredecessor` shows it is never taken.

Data is abstracted to what the properties tell apart. A key is its rank in
comparator order. `sorted_position` is the number of smaller keys and the order
word a sequence of slots. A height is any number up to
`MaxHeight`, where the code draws one at random. Memory is sequentially
consistent: every value that is read across threads is published by a release
store and read by an acquire load, except hints. Their relaxed load needs no more
than coherence: the hint of a node other than the head never changes once a
pointer led to the node (`HintSound` and `FirstKeyFixed`), and nobody but
`check_invariants` reads the head's. No key is inserted twice into `Memtable`,
which RocksDB's sequence numbers guarantee; within one node `NodeLanes` allows it.

An allocation may throw (`MayThrow`). Of a split it is one of three, made
under the lock before anything is published: what was allocated is lost, the
node is as it was, and nothing clears the lock. Other allocations throw where
nothing has happened yet and are left out.

In `Iterator`, `it[r]` holds the fields of `Iterator` and the call in progress:
`walk` from node to node, `load` the payload of the node, `snap`shot its order
word and compute. The walk and the load are separate because the code loads
`data` again in `adopt` (357) and in `contains_target` (273) after `descend`
returned a node. `seen`, `base` and `mark` are history variables for the
properties: the contents when the iterator last loaded a payload, the contents
the call in progress must respect, and the key the iterator was on.

In `Rep` a scan is a loop over an iterator: `Get` seeks and gives each entry to the
callback until that has enough, `size` goes from the first entry to the end. Each
reader makes one scan. What RocksDB does is external and modelled by its
contract: the callback stops at another user key or at a value and goes on after
a merge operand (`Wants`); a lookup sees the versions up to its sequence number,
which are all in when it starts (`Get`'s guard), and what is written later is
newer (`WritesAreNewer`).

The modules of one node are about data where `Memtable` is about interleavings.
In `NodeSearch` a store into a lane is a beginning, which may leave anything
there, and an end; a snapshot is an acquire load. Lanes have `LaneBits` bits and
ranks `RankBits`, 32 and 4 in the code; shifts and masks are written as quotients
and remainders by powers of two (`Pow2`, a recursive function). In `NodeLanes` an action is a whole
insert, since all of it happens under the node's lock. Its keys have order bytes,
and nothing ties the comparator to them. The model follows one node: after a
split it goes on as the left half (the node itself) or as the right one (the
sibling), and `high` and `head` keep what `descend` and `belongs_here` then let
through. Equal entries may be inserted. `shares_prefix` is a set of answers, because its `memcmp` may read past
a key shorter than the prefix. In `Arena` one call is one action, by the mutex;
an address is a chunk and an offset, and masks are written as remainders. In
`RepAllocator` an address is a number, and RocksDB's allocator, external, returns
memory aligned to a pointer anywhere, up to `MaxAddress`, apart from what it gave
before. In `RepSample` the draws are any sequence.
In `Workload` the generator may draw any values and deal any slots.

**Slips.** A comment `Slip:` marks an operator that no specification uses: a
plausible mistake in the definition that follows it. Each property was checked to
fail when that definition is given the slip's body (`mutants` in
`PROJECT.json`), so each says something about the code.

## Runs

| Configuration | What it shows | Bounds |
|---|---|---|
| `Insert` | types, the level-0 list sorted, exclusive payloads, sound hints, frozen slots, fixed first keys; `IndexSound`, the inductive invariant of the proofs, `Ownership` and `ListSound` in it; links lead forward to linked nodes, none is lost and no sibling is ever unlinked, descents end right, a sibling is never its own predecessor; `check_invariants` finds nothing wrong with order words, keys and hints when nobody is in a call; `Memtable` implements `OrderedSet`; every insert returns unless it needs an abandoned lock | 2 writers, capacity 3, height 3, 7 keys, a full head to begin with, 2 attempts, allocations that throw |
| `Read` | no reader reports a key that is not there; answers are exact when nothing was inserted meanwhile, whatever is half done; forward steps skip nothing; steps move the right way; a resting iterator's key stays; every call returns although writers may stop anywhere | 2 writers, 1 reader, capacity 2, 4 keys |
| `Rep` | scans ascend and leave nothing out, so a count is right; a Get is given exactly the versions it may see, as far as it asks; every scan ends | 1 writer, 1 reader, capacity 2, 5 keys: 3 versions of one user key, 2 of another, operands among them; hints not trusted, and against the comparator |
| `Kernels` | also while a writer stores, a snapshot keeps its answer: the vector kernels count the lanes below a key, the walk over the ranks stops at no more of them, and at as many for lanes in rank order, so that all CPUs then agree; the word is a permutation of the slots filled; a node made by hand is one appends make, and probes hit and miss as they should | 4 ranks, lanes of 3 bits, 6 surrogates on both sides of the sign bit; 2 nodes made by hand |
| `Lanes` | `sorted_position` is exact under any comparator; under one that follows the bytes, hints agree with it, lanes stay sorted and their candidate is confirmed, except in a head that has split; the prefix is never too short under a comparator that follows the bytes or reverses them | capacity 4, 10 keys, bytes of 3 values, lanes of 1 byte, two orders of the bytes |
| `Storage` | blocks of the arena aligned, disjoint and in their chunk; the plugin's aligned, disjoint and inside the raw memory; a sample has the size asked for, no duplicates, and comes from the table | chunks of 16, alignments 1, 2 and 4, 5 blocks; lines of 8, pointers of 2, 3 blocks at addresses up to 30; 5 entries, up to 3 sampled |
| `LookupRace`, `GetRace`, `SeekForPrevRace`, `PrevRace`, `LanesHead`, `AbandonedLock` | what comments of the source promise and the code does not keep, see below | as `Read` with 1 writer and capacity 3, or as `Rep` with trusted hints; as `Lanes`; as `Insert` with height 2 |

Why these bounds are enough to be interesting: capacity 3 with a full head makes
every insert meet appends to both halves of a split, and a split of the head and
of another node; capacity 2 with one key makes each node split after two inserts
and gives several siblings to link. Two writers meet on one node, on its sibling
and on one tower link. Height 3 has two linked levels, so that a search drops
from one to the next while both change. Hints tie in pairs (`k \div 2`), so that
both the hint and the comparator decide. More threads or keys repeat these
meetings. Attempts are bounded by `MaxTries` (1 or 2) where the code has 8: the
loop is the same.

`Rep` runs a reverse comparator, under which `AparajitaHintOrdering` does not trust
hints, with hints that would mislead: descents take the comparator's branch each
time. The other runs trust hints.

In `Kernels` the node starts empty, or with two surrogates in either order, as `fill`
leaves it with half of a full one, and appends then fill it to its capacity of
three, at any rank whatever they store; the surrogates 3 and 4 are on either side of the sign bit and 7 is the sentinel. The
ten keys of `Lanes` contain the empty one, a prefix of another, a tie, a key whose
surrogate is the sentinel's, and keys on both sides of a split node's range. The
requests of `Storage` leave the offset at every residue and one exceeds a chunk.

**Fairness.** `FairSpec` is weak fairness of each writer's steps: the operating
system runs every runnable thread, and nothing obliges a thread to start another
insert, nor an allocation to throw. It is enough because keys are finite, each split happens once, and a lock
is released by the steps of its holder: a spinning writer's `Acquire` need not be
strongly fair when only finitely many others can overtake it. A writer that spins on
a lock an exception left taken is `Blocked`, and `InsertCompletes` excepts it.
`FairReader` and `FairRep` are weak fairness of readers only; a writer may stop for
good with a lock held.

**Deadlock** is checked in every run of `Memtable`, `Iterator` and `Rep`; `Finished`
marks the states in which every writer is out of its call with no key left to
insert, or is blocked for good by an abandoned lock. The other
modules stop where a bound, a full node or the end of a pass stops them, and
their configurations say `CHECK_DEADLOCK FALSE`.

## Where the code departs from its comments

Six runs end in a counterexample. The first, second and fourth share a cause: the
node a walk chose is loaded again after the walk, and nothing looks whether it split
in between (an insert does look, in `belongs_here`, under the lock). The third needs
no split.

1. `LookupRace`: `contains_target` answers false for a key inserted before the
   call: the node splits between lines 272 and 273 and the key moves to the
   sibling.
2. `GetRace`: `seek` rests below its target: the node splits between `descend` and
   `adopt` (330), the target's position is past the left half, and `skip_forward`
   takes the first key of the sibling. The plugin's `Get` (168) gives that entry to
   its callback, which sees another user key and stops: a version present all
   along is not found. When a seek does land right, `GetsAreExact` holds.
3. `SeekForPrevRace`: `seek_for_prev` rests above its target: a key inserted in
   the gap between its seek and its one step back (342) is where it lands. An append
is enough.
4. `PrevRace`: `prev` skips keys: its predecessor splits between `pred_node` and
   `adopt` (378). `seek_to_last` has the same gap (322).

Forward iteration has no such gap: `next` follows the link in the payload it has
already loaded, and `ForwardSkipsNothing` holds.

5. `LanesHead`: the comment on `append` (909) says a saturated lane keeps the lane
   array sorted, and `check_invariants` (461) tests it. A head that has split has
   a prefix, and may take a key below its range that has not got it. That key is
   rank 0 from then on, and `shares_prefix` (805) looks the prefix up in rank 0:
   the next key that has the prefix is taken for one that has not, and its lane
   is saturated in the middle of the run. Positions stay exact, because the
   comparator confirms them; the vector unit is no longer of use for that node.
   `LanesCheckOut` and `CandidateConfirms` hold for every other node, because a
   node that is not the head keeps its lowest key.
6. `AbandonedLock`: the comment on the spin (230-233) lets "the holder finish". An
   allocation that throws (943) ends the holder's call with the flag set, and the
   next insert into the node spins for ever. Nothing else is broken by it: the
   other properties of `Insert` hold with allocations that throw.

## Proofs

Every theorem holds for every value of the constants: any number of writers, any
set of keys, any capacity, height, number of attempts and preloaded contents,
allocations that throw or do not, hints trusted or not. They rest on the named
assumptions of the modules and no other:

- `Memtable`: sizes are positive, keys are naturals other than `Null`, `NoWriter`
  is no writer, the preloaded keys ascend and fit into the head, and trusted
  hints do not contradict the order of keys, which `HintsNeverMislead` proves of
  `descent_hint`;
- `Rep`: the versions of a user key are next to each other and have one hint, and
  hints are trusted as `AparajitaHintOrdering` says;
- `NodeLanes`: keys are naturals and finitely many, a byte has two values or
  more, a lane one byte or more, and a node room for three keys or more (the code
  has 256, 4 and 15). With room for two, half of a full node is one key, of which
  `fill` takes no prefix, and `PrefixNotShort` fails after the next append;
- `Arena`, `RepAllocator`, `RepSample`: sizes and alignments are positive;
- `OrderWord`, `NodeSearch`, `Workload`: a rank and a lane have a bit or more, the
  surrogates drawn fit into a lane and the sentinel is among them, and the number
  of nodes made is bounded.

Five invariants, each on top of the one before, carry what threads do:
`Ownership`, `ListSound`, `IndexSound`, `ReadSound`, `ScanSound`. `NodeSound` and
`LanesSound` carry what is inside a node, `KernelInv` the bits of its order word
beside a writer and a reader, and `WorkInv` the data of the benchmarks.

**Who writes what** (`MemtableProofs`).

| Theorem | Says |
|---|---|
| `OwnershipHolds` | `Spec => []Ownership` |
| `TypeCorrect` | `Spec => []TypeOK` |
| `PayloadOwned` | `Spec => []OwnsPayload`: what is done under a lock is done to the payload of the node the lock guards |
| `SnapshotsStay` | `Spec => SlotsFrozen`: a slot an order word names is never written again, no slot is taken back, no payload's link changes |

Neither `TypeOK` nor `OwnsPayload` is inductive. That an append stays within
`Slot` needs that the payload still has room, so that nobody filled it since
`Admit`, so that the writer holds the lock (`LockOK`) and no other node has that
payload (`PayloadsOK`). That a split's store takes no payload away from another
node needs that the left half under construction belongs to nobody. That an
append rewrites no visible slot needs that order words name only the slots below
their length (`SlotsOK`), and what the writer found when it was admitted
(`PendingOK`). `Ownership` is their conjunction with the ranges of pointers. The
proof has a lemma per action. Those that write only a thread's locals go through
`PrivateStep`, those that write only a lock through `LockStep`, those that write
only hints and links through `IndexStep`; `OthersKeep` says what a step must leave
alone for the other writers to stay in order, and `Apart` that two writers at
work have different payloads.

**The list** (`ListProofs`).

| Theorem | Says |
|---|---|
| `ListSoundHolds` | `Spec => []ListSound` |
| `ListSorted` | `Spec => []LevelZeroOrdered` |
| `HintsSound` | `Spec => []HintSound` |
| `FirstKeysStay` | `Spec => FirstKeyFixed` |
| `InsertIsAtomic` | `Spec => ImplementsOrderedSet`: `insert_entry` is linearizable, an append at its order word, a split at its payload |

`ListSound` is `Ownership /\ ListOrder`. A list stays sorted because a key goes
only where it belongs, and `belongs_here` was asked some steps before the store:
`WritersPlaced` says that its answer lasts, which it does as no first key of a
published node changes. That needs that the key about to become the first of its
node does so in the head only, as a descent enters another node only by a first
key at or below (`HintsFollow` is what makes hints as good as keys), and that no
one inserts the key a second time (`KeysFresh`). A split is right because
nobody meets its halves before they are complete (`SiblingsHidden`), and they are
cut at a key (`HalvesOK`). That `Contents` gains exactly the key of the call at
each committing store, and nothing anywhere else, is then one lemma per store,
and needs that no key is in two nodes (`NodesDisjoint`).

**The tower** (`TowerProofs`).

| Theorem | Says |
|---|---|
| `IndexSoundHolds` | `Spec => []IndexSound` |
| `NeverItsOwn` | `Spec => []NotItsOwnPredecessor` |
| `TowerLeadsForward` | `Spec => []TowerSound`: level 0 reaches every listed node, links of each level lead forward |
| `LevelsGrow` | `Spec => LevelsOnlyGrow`: no store takes a node off a level |
| `DescentsFind` | `Spec => []DescentFinds`: a descent ends at the node that holds its key |
| `QuiescedIsClean` | `Spec => []QuiescedChecksOut`: `check_invariants` finds nothing wrong with order words, keys and hints |

`IndexSound` is `ListSound /\ TowerOrder`. Reachability is not stated in it: it is
a fact about walks, and no step proof could carry it. `Gapless` is its local
form: the next node of level 0 is the nearest one in the list. A split keeps it
because the sibling takes over the range between the two halves. `LinkersPlaced`
says that the sibling is unlinked at the level its writer is at and above, that
the predecessor found is behind the sibling's first key although other siblings
were linked there since, and that the sibling already leads where the
predecessor did when the compare-and-swap succeeds, so that nothing falls off the
level. `HeadHint` says the hint of the head is that of its first key or that a
writer which holds its lock has yet to publish the key it has stored the hint of.

Walks and descents are recursive functions. That they exist, and what holds at
every step of one, is proved by induction over the number of steps, stated of
sets of numbers (`NatSteps`): an induction over numbers, not over data, is
within the provers' reach. That `Len(data)` steps of a walk are enough needs that
keys ascend along it, and that `Len(data) + MaxHeight` steps of a descent are, that
each adds to the nodes behind it or drops a level (`Depth`).

**The reader** (`IteratorProofs`), for any number of readers beside any number of
writers:

| Theorem | Says |
|---|---|
| `ReadSoundHolds` | `SpecReader => []ReadSound` |
| `ReadersSeeNoPhantoms` | `SpecReader => []NoPhantoms`: a key reported has been inserted |
| `QuietAnswersAreExact` | `SpecReader => []ExactWhenQuiet`: no answer is wrong for what is half done |
| `NothingSkippedForward` | `SpecReader => []ForwardSkipsNothing`: forward steps leave no key out, also past splits |
| `StepsMoveTheirWay` | `SpecReader => []StepsAreMonotone` |
| `RestingKeysStay` | `SpecReader => RestingKeyIsStable` |

`ReadSound` adds to `IndexSound` one `ReaderSound` per reader, which relates an
iterator only to its own histories and to the index. A reader may hold a payload
its node has not had for long, so nothing about its node can be assumed. What
lasts is `WasOf`: the payload begins with the node's first key and its link leads
past all it holds, and `Covers`: between the node's first key and the link, the
snapshot shows every key there was when the payload was loaded. Both hold when a
payload is loaded because level 0 is `Gapless`. `WasStays` shows that a payload
taken out by a split keeps them because nobody writes it again, and that a
payload still in place keeps them because it only grows. So no step of a writer
takes anything from a reader (`ReaderStays`), and a step of a reader is a fact
about one state: each call and each load has a lemma (`LookupStarts` to
`NothingThere`).

That a step back lands below where it began is in `PlaceSound`: a walk for the
predecessor stays strictly behind the node it left, so by `Gapless` the link it
comes to is at or before that node. Exactness needs more, and only while nothing
is inserted: that a walk which has arrived has its target before the next link
(`QuietSound`). In between a split may put a sibling there; the three races
above in which a node splits are this half of the invariant broken, and nothing else. TLC found
`ReadSound` to hold on the instances of `Read`, `LookupRace` and
`SeekForPrevRace`; no run repeats that.

**The scan** (`RepProofs`), for any number of scans beside any number of writers:

| Theorem | Says |
|---|---|
| `ScanSoundHolds` | `SpecRep => []ScanSound` |
| `ScansLeaveNothingOut` | `SpecRep => []ScansAreGapless`: scans ascend and give all that was there when they began |
| `GetsGiveWhatTheyMay` | `SpecRep => []GetsAreExact`: a Get whose seek lands right is given the versions it may see, each once |

The reader's theorems are about one call; a scan is many. `ScanSound` adds to
`ReadSound` what ties them together. `CallOfScan` says that a call starts from
the last entry given and respects what was there when the scan began, which it
may, since nothing leaves the table. `FedSound` says that what is still owed lies
above the last entry given, so that the next call, which skips nothing, gives the
lowest of it, and `EndOfScan` that nothing is owed when the iterator runs out. For
`Get`, `GetSound` says that everything given but the last is a merge operand of
the user key. That no version is passed over then needs that the versions of a
user key are contiguous, and that a writer cannot put one among those the lookup
may see (`WritesAreNewer`). TLC found `ScanSound` to hold on the instances of `Rep`
and `GetRace`; no run repeats that.

**The lanes** (`LanesProofs`), for every capacity from three, every lane width,
every set of keys, bytes of any length and any comparator:

| Theorem | Says |
|---|---|
| `NodeSoundHolds` | `Spec => []NodeSound` |
| `PositionIsExact` | `Spec => []PositionExact`: `sorted_position` is the number of smaller keys |
| `HintsNeverMislead` | `Spec => []HintsAgree` |
| `LanesSoundHolds` | `Spec => []LanesSound` |
| `LanesAreSound` | `Spec => []LanesCheckOut`: what `check_invariants` asks of lanes and prefix |
| `CandidatesConfirm` | `Spec => []CandidateConfirms`: the comparator confirms what any kernel finds |

`NodeSound` says that the order word is a permutation of the slots and the keys it
names ascend, and next to nothing of lanes and bytes: a position is confirmed by
the comparator or searched for, so it is exact whatever proposed it
(`ConfirmedIsPlace`, `SearchFinds`). That the lanes are of use is `LanesSound`, which
is about the nodes that keep their lowest key, and so their prefix: all but a head
that has split. There the keys that have the prefix are the lowest, their lanes
are surrogates, all others are saturated, so the lanes ascend (`LanesAscend`), and
the two kinds of kernel, the walk over the ranks and the count of lanes, meet at
one candidate (`KernelsMeet`). The prefix is never too short because an append
widens the node's range and the bytes its ends have in common only get fewer
(`InnerPrefix`, `AppendWidens`). That last step needs that the keys between two lie
between them byte by byte as well: true of a comparator that follows the bytes or
reverses them, and TLC finds a counterexample without it, so `LanesCheckOut` claims
no more. `check_invariants` does ask it of every comparator (481-501).

The binary search and `Packed`, the bytes read as one number, are recursive
functions whose argument is a number, so `NatSteps` serves here too. TLC found
`LanesSound` to hold on the instance of `Lanes`; no run repeats that.

**The order word and the kernels** (`KernelProofs`), for every width of ranks and
of lanes, so for words and nodes of any size, and every set of surrogates:

| Theorem | Says |
|---|---|
| `KernelInvHolds` | `Spec => []KernelInv` |
| `WordIsAPermutation` | `Spec => []WordIsPermutation` |
| `WordFollows` | `Spec => WordFollowsSequence`: `order_insert` inserts one slot into a sequence |
| `KernelsGiveOneAnswer` | `Spec => []KernelsAgree`: also while a writer stores, vector kernels count the lanes below a key, the walk gives no more, and as much for lanes in rank order |
| `AnswersAreStable` | `Spec => AnswersStable`: no store changes what is answered of a snapshot |
| `PermutingIsTransparent` | `Spec => []PermuteTransparent`: the permuted line and an append-only node answer alike, where the line ascends when the kernel is for a sorted one |
| `WorkInvHolds` | `SpecWorkload => []WorkInv` |
| `NodesAreReal` | `SpecWorkload => []BuiltAsAppended` |
| `ProbesAsAsked` | `SpecWorkload => []ProbesAreHonest` |

The provers know nothing of `\div` and `%` by a power with a variable exponent. So
the shifts and masks are first turned into digits: `IsWord(o, f, n)` says that the
digits of `o` are `f[r] + 1` at the ranks `r` below `n` and that nothing is above
them. `OrderSlot` reads one digit (`SlotsOf`), and `OrderCount` finds where they
end (`CountIs`), as the highest is not zero. `InsertIs` and `Spliced` then show
that the masks, the shift and the sum of `order_insert` make the word of the
sequence with one slot more, and that nothing is pushed out at the end as long as
there was room. All later arguments are about sequences.

`KernelInv` says that the word and the snapshot each name the lanes below their
counts, once each and in any order, and that the snapshot counts no more than the
word does. Of what a lane holds it says nothing but its width: a store beyond the
count may be half done, and the ranks are the comparator's; the lane of the unused
ranks is the sentinel. A vector kernel then counts the lanes below the target, as
what is loaded of the others is the sentinel and flipping the sign bit turns the
unsigned order into the signed one (`MaskedCount`, `SignedIs`, `CountsAgree`). The
walk has passed only over such lanes, each once, so it gives no more (`WalkAtMost`).
If the lanes ascend with the ranks, those below the target are a prefix
(`AscendingOrders`, `FirstNotBelow`), the walk stops at its end, and its length is
the count (`ProbesMeet`): this hypothesis is `RanksAscend` in `KernelsAgree`, and
nothing in `NodeSearch` provides it. Answers of a snapshot last because the writer
stores into lanes it does not name, and no kernel looks at those (`SnapshotLanes`,
`DispatchOthers`).

That the bisection finds an equal lane is an induction over the range it has left
(`SearchBinaryFinds`). A node made by hand has the word that appends arrive at
because there is one way to order distinct surrogates (`OneOrder`) and a word is its
digits (`WordsEqual`). That a live surrogate is found by any kernel is
`FoundWhenLive`; a probe meant to miss is drawn until it is none of them. TLC found
`KernelInv` and `WorkInv` to hold on the instance of `Kernels`; no run repeats that.

**Memory** (`StorageProofs`), for every chunk size, every set of requests of
positive sizes and alignments and every bound (alignments need not even be
powers of two, as the masks are written as remainders):

| Theorem | Says |
|---|---|
| `InChunk`, `Disjoint`, `ArenaAligned` | `Arena`: `Spec => []` of `BlocksInChunk`, `BlocksDisjoint`, `BlocksAligned` |
| `InRaw`, `RepDisjoint` | `RepAllocator`: `RawSpec => []` of `BlocksInRaw`, `RawsDisjoint` |
| `SampleExact` | `RepSample`: `SampleSpec => []SampleIsExact` |

Disjointness alone is not inductive: that a new block is apart from the old ones
needs that they all end at or before `offset`, which `BlocksInChunk` adds for the
current chunk. For the plugin it follows from the raw memory being disjoint
(`RawsApart`) and each block lying in its own. The first
lemmas say what rounding up returns; the provers do not reason about `%` and
`\div` by a variable without them. For the sample, `Kept` says what its pass has
in hand: different entries of those it went over, as many as there is room for.

Only model-checked: liveness (`InsertCompletes`, `ReadersFinish`, `ScansFinish`), since
fairness needs `ENABLED`, which is beyond TLAPS here. The six counterexamples are
TLC's by nature.

## Not modelled, and the plan

One thing is left to model: **equal entries across nodes**, which RocksDB never
inserts. A descent then ends at the later of two nodes that hold them. `NodeLanes`
has equal entries within one node.

Left out for good: the benchmarks (`bench_search`, `counter_report`,
`collision_report`, `counters`), scripts, recorded results and the paper. They
measure and print, and keep no state of the system; what they rely on, that
kernels agree and that nodes and probes are what they are taken for, is in
`Kernels`. The iterator adapter, the factory and the registration of the plugin
forward and keep no state.
