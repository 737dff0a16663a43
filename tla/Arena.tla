------------------------------- MODULE Arena -------------------------------
(***************************************************************************)
(* include/aparajita/arena.hpp: a bump allocator under one mutex, which    *)
(* nodes, payloads and the keys of the MemTable facade share.              *)
(*                                                                         *)
(* Everything Arena::allocate changes it changes under mu_, so one call is *)
(* one action.  Chunks come from ::operator new at addresses aligned to    *)
(* kAlign; an address is a chunk and an offset in it.  No chunk is freed.  *)
(* When ::operator new throws nothing has changed yet: the stores follow.  *)
(***************************************************************************)
EXTENDS Rounding, FiniteSets, Sequences

CONSTANTS
  Request,    \* pairs <<bytes, align>> that callers ask for
  ChunkSize,  \* kChunkSize
  MaxChunks,  \* chunks ::operator new has memory for
  MaxBlocks   \* bound: calls that allocate

\* Sizes are positive: the callers ask for a node, a payload, or a key of which
\* the empty one is given a byte.  No alignment exceeds that of a chunk, kAlign.
ASSUME RequestAssumption == Request \subseteq (Nat \ {0}) \X (Nat \ {0})
ASSUME SizeAssumption ==
  ChunkSize \in Nat \ {0} /\ MaxChunks \in Nat /\ MaxBlocks \in Nat

VARIABLES
  chunks,  \* chunks_: the size of each chunk; the last one is cur_
  offset,  \* offset_
  limit,   \* limit_
  used,    \* used_
  blocks   \* history: the blocks handed out

vars == <<chunks, offset, limit, used, blocks>>

\* MemTable::insert copies the key, wherever it falls; an empty one has a byte.
KeyRequest(length) == <<IF length = 0 THEN 1 ELSE length, 1>>

Need(bytes, align) == RoundUp(bytes, align)

\* Slip: the mask of the requested alignment is left out.
PadNone(off, align) == 0

\* What brings off to a multiple of align.
Pad(off, align) == (align - (off % align)) % align

Fits(bytes, align) == offset + Pad(offset, align) + Need(bytes, align) <= limit

Block(c, from, bytes, align) == [chunk |-> c, from |-> from, bytes |-> bytes, align |-> align]

Init ==
  /\ chunks = <<>>
  /\ offset = 0
  /\ limit = 0
  /\ used = 0
  /\ blocks = {}

Bounded == Cardinality(blocks) < MaxBlocks

\* Slip: the offset moves by the size alone.
AllocateHereUnpadded(bytes, align) ==
  LET p == offset + Pad(offset, align)
  IN  /\ Bounded
      /\ Fits(bytes, align)
      /\ blocks' = blocks \union {Block(Len(chunks), p, bytes, align)}
      /\ offset' = offset + Need(bytes, align)
      /\ used' = used + Need(bytes, align)
      /\ UNCHANGED <<chunks, limit>>

\* allocate, when the current chunk has room.
AllocateHere(bytes, align) ==
  LET p == offset + Pad(offset, align)
  IN  /\ Bounded
      /\ Fits(bytes, align)
      /\ blocks' = blocks \union {Block(Len(chunks), p, bytes, align)}
      /\ offset' = p + Need(bytes, align)
      /\ used' = used + Need(bytes, align)
      /\ UNCHANGED <<chunks, limit>>

\* Slip: every chunk has the usual size.
NewSizeUsual(need) == ChunkSize

\* A request too large for a chunk gets one of its own.
NewSize(need) == IF need > ChunkSize THEN need ELSE ChunkSize

\* allocate, when a new_chunk is needed: what was left of the old one is lost.
AllocateNew(bytes, align) ==
  LET need == Need(bytes, align)
  IN  /\ Bounded
      /\ ~Fits(bytes, align)
      /\ Len(chunks) < MaxChunks
      /\ chunks' = Append(chunks, NewSize(need))
      /\ limit' = NewSize(need)
      /\ blocks' = blocks \union {Block(Len(chunks) + 1, 0, bytes, align)}
      /\ offset' = need
      /\ used' = used + need

Next == \E q \in Request : AllocateHere(q[1], q[2]) \/ AllocateNew(q[1], q[2])

Spec == Init /\ [][Next]_vars

-----------------------------------------------------------------------------
(* Properties.                                                             *)

TypeOK ==
  /\ chunks \in Seq(Nat)
  /\ offset \in Nat /\ limit \in Nat /\ used \in Nat
  /\ blocks \subseteq [chunk : Nat, from : Nat, bytes : Nat \ {0}, align : Nat \ {0}]

End(b) == b.from + b.bytes

\* Every block lies in its chunk, and the current chunk's end where the next
\* allocation may start.
BlocksInChunk ==
  /\ limit = IF chunks = <<>> THEN 0 ELSE chunks[Len(chunks)]
  /\ offset <= limit
  /\ \A b \in blocks :
       /\ b.chunk \in 1..Len(chunks)
       /\ End(b) <= chunks[b.chunk]
       /\ b.chunk = Len(chunks) => End(b) <= offset

\* Two calls never get the same byte, on whatever threads.
BlocksDisjoint ==
  \A a, b \in blocks :
    a # b => a.chunk # b.chunk \/ End(a) <= b.from \/ End(b) <= a.from

\* A block starts at a multiple of the alignment that was asked for: nodes and
\* payloads are cache-line aligned whatever keys were copied before them.
BlocksAligned == \A b \in blocks : b.from % b.align = 0
=============================================================================
