---------------------------- MODULE RepAllocator ----------------------------
(***************************************************************************)
(* AparajitaTraits::allocate of plugin/aparajita/aparajita_memtable.cc:    *)
(* cache-line alignment taken by hand from RocksDB's allocator, which      *)
(* promises that of a pointer only.  The request is enlarged by align - 1  *)
(* and the address rounded up.  Addresses are numbers.  RocksDB's arena is *)
(* external: its memory may lie anywhere, in any order, so long as it is   *)
(* nobody else's.                                                          *)
(***************************************************************************)
EXTENDS Rounding, FiniteSets

CONSTANTS
  RawRequest,  \* pairs <<bytes, align>>: nodes and payloads
  Pointer,     \* what AllocateAligned aligns to: sizeof(void*)
  MaxAddress,  \* bound: the highest address of raw memory
  MaxRaws      \* bound: calls of allocate

ASSUME AllocatorAssumption ==
  /\ RawRequest \subseteq (Nat \ {0}) \X (Nat \ {0})
  /\ Pointer \in Nat \ {0}
  /\ MaxAddress \in Nat /\ MaxRaws \in Nat

VARIABLE
  raws  \* history: what allocate returned, and the raw memory RocksDB gave it for that

rawVars == <<raws>>

RawInit == raws = {}

\* Allocator::AllocateAligned may return raw: the size bytes from there on nobody
\* else has, and they have the alignment of a pointer and no more.
AllocateAligned(raw, size) ==
  /\ raw % Pointer = 0
  /\ \A b \in raws : raw + size <= b.raw \/ b.raw + b.size <= raw

\* Slip: the request is not enlarged.
EnlargedNot(bytes, align) == bytes

Enlarged(bytes, align) == bytes + align - 1

\* Slip: rounded down.
AlignedDown(raw, align) == (raw \div align) * align

Aligned(raw, align) == RoundUp(raw, align)

Allocate(bytes, align) ==
  /\ Cardinality(raws) < MaxRaws
  /\ \E raw \in 0..MaxAddress :
       /\ AllocateAligned(raw, Enlarged(bytes, align))
       /\ raws' = raws \union
            {[raw |-> raw, size |-> Enlarged(bytes, align),
              from |-> Aligned(raw, align), bytes |-> bytes, align |-> align]}

RawNext == \E q \in RawRequest : Allocate(q[1], q[2])

RawSpec == RawInit /\ [][RawNext]_rawVars

-----------------------------------------------------------------------------
(* Properties.                                                             *)

RawEnd(b) == b.from + b.bytes

\* Wherever RocksDB puts the raw memory, what allocate returns is aligned as
\* asked and lies inside it.
BlocksInRaw ==
  \A b \in raws : b.from % b.align = 0 /\ b.raw <= b.from /\ RawEnd(b) <= b.raw + b.size

\* The padding of one block is not the next one's memory.
RawsDisjoint ==
  \A a, b \in raws : a # b => RawEnd(a) <= b.from \/ RawEnd(b) <= a.from
=============================================================================
