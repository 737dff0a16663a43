--------------------------- MODULE StorageProofs ----------------------------
(***************************************************************************)
(* What the allocators and the flush's sample promise, for every sequence  *)
(* of requests, every chunk size and every draw: blocks are aligned,       *)
(* disjoint and where they should be, and a sample is as large as asked.   *)
(***************************************************************************)
EXTENDS Arena, RepAllocator, RepSample, FiniteSetTheorems, TLAPS

-----------------------------------------------------------------------------
(* Rounding up to a multiple of an alignment.                              *)

\* Division with remainder, as the provers need it.
LEMMA Remainder ==
  ASSUME NEW x \in Nat, NEW align \in Nat \ {0}
  PROVE  /\ x \div align \in Nat
         /\ x % align \in 0..(align - 1)
         /\ x = align * (x \div align) + (x % align)
OBVIOUS

\* A multiple of align leaves no remainder.
LEMMA MultipleOf ==
  ASSUME NEW m \in Nat, NEW align \in Nat \ {0}
  PROVE  (align * m) % align = 0
OBVIOUS

\* Rounding up gives a multiple of align, no smaller, and less than align away.
LEMMA RoundUpCovers ==
  ASSUME NEW x \in Nat, NEW align \in Nat \ {0}
  PROVE  /\ RoundUp(x, align) \in Nat
         /\ RoundUp(x, align) >= x
         /\ RoundUp(x, align) <= x + align - 1
         /\ RoundUp(x, align) % align = 0
<1> DEFINE y == x + align - 1
           q == y \div align
<1>1. y \in Nat /\ y = x + align - 1
  OBVIOUS
<1>2. q \in Nat /\ y = align * q + (y % align) /\ y % align \in 0..(align - 1)
  BY <1>1, Remainder
<1>3. q * align \in Nat /\ q * align = align * q
  BY <1>2
<1>4. RoundUp(x, align) = q * align
  BY DEF RoundUp
<1>5. (align * q) % align = 0
  BY <1>2, MultipleOf
<1> HIDE DEF y, q
<1> QED
  BY <1>1, <1>2, <1>3, <1>4, <1>5

-----------------------------------------------------------------------------
(* Arena::allocate.                                                        *)

\* Rounding up to a multiple of align never makes a size smaller.
LEMMA NeedCovers ==
  ASSUME NEW bytes \in Nat \ {0}, NEW align \in Nat \ {0}
  PROVE  Need(bytes, align) \in Nat /\ Need(bytes, align) >= bytes
BY RoundUpCovers DEF Need

\* The padding is not negative and brings the offset to a multiple of align.
LEMMA PadAligns ==
  ASSUME NEW off \in Nat, NEW align \in Nat \ {0}
  PROVE  Pad(off, align) \in Nat /\ (off + Pad(off, align)) % align = 0
<1> DEFINE q == off \div align
           r == off % align
<1>1. q \in Nat /\ r \in 0..(align - 1) /\ off = align * q + r
  BY Remainder
<1>2. Pad(off, align) = (align - r) % align
  BY DEF Pad
<1> HIDE DEF q, r
<1>3. CASE r = 0
  <2>1. (align - r) % align = 0
    BY <1>3, MultipleOf
  <2>2. off = align * q
    BY <1>1, <1>3
  <2>3. (align * q) % align = 0
    BY <1>1, MultipleOf
  <2>4. Pad(off, align) = 0 /\ off + Pad(off, align) = align * q
    BY <1>1, <1>2, <2>1, <2>2
  <2> QED
    BY <2>3, <2>4
<1>4. CASE r # 0
  <2>1. align - r \in 1..(align - 1)
    BY <1>1, <1>4
  <2>2. (align - r) % align = align - r
    BY <2>1
  <2>3. q + 1 \in Nat /\ align * (q + 1) = align * q + align
    BY <1>1
  <2>4. off + (align - r) = align * (q + 1)
    BY <1>1, <2>3
  <2>5. (align * (q + 1)) % align = 0
    BY <2>3, MultipleOf
  <2> QED
    BY <1>2, <2>1, <2>2, <2>4, <2>5
<1> QED
  BY <1>3, <1>4

\* What an allocation needs of the past: where blocks may lie, and that they
\* lie apart.
Layout == TypeOK /\ BlocksInChunk /\ BlocksDisjoint /\ BlocksAligned

\* An arena starts with no chunk and no block.
LEMMA InitLayout == Init => Layout
BY DEF Init, Layout, TypeOK, BlocksInChunk, BlocksDisjoint, BlocksAligned

\* In the current chunk, the new block starts where all the others have ended.
LEMMA HereKeeps ==
  ASSUME Layout, NEW bytes \in Nat \ {0}, NEW align \in Nat \ {0},
         AllocateHere(bytes, align)
  PROVE  Layout'
<1> DEFINE n == Need(bytes, align)
           pad == Pad(offset, align)
           p == offset + pad
           new == Block(Len(chunks), p, bytes, align)
<1> USE DEF Layout
<1>1. /\ chunks' = chunks /\ limit' = limit
      /\ blocks' = blocks \union {new}
      /\ offset' = p + n
      /\ used' = used + n
      /\ offset + pad + n <= limit
  BY DEF AllocateHere, Fits
<1>2. offset \in Nat /\ limit \in Nat /\ used \in Nat /\ chunks \in Seq(Nat)
  BY DEF TypeOK
<1>3. n \in Nat /\ n >= bytes
  BY NeedCovers
<1>4. p \in Nat /\ p >= offset /\ p % align = 0 /\ p + n <= limit
  <2>1. pad \in Nat /\ (offset + pad) % align = 0
    BY <1>2, PadAligns
  <2> HIDE DEF n, pad
  <2> QED
    BY <1>1, <1>2, <1>3, <2>1
<1>5. chunks # <<>> /\ Len(chunks) \in 1..Len(chunks) /\ limit = chunks[Len(chunks)]
  <2>1. limit > 0
    BY <1>2, <1>3, <1>4
  <2> QED
    BY <1>2, <2>1 DEF BlocksInChunk
<1>6. /\ new.chunk = Len(chunks) /\ new.from = p
      /\ new.bytes = bytes /\ new.align = align
      /\ new \in [chunk : Nat, from : Nat, bytes : Nat \ {0}, align : Nat \ {0}]
      /\ End(new) = p + bytes
  BY <1>4, <1>5 DEF Block, End
<1> HIDE DEF n, p, new
<1>7. TypeOK'
  BY <1>1, <1>2, <1>3, <1>4, <1>6 DEF TypeOK
<1>8. BlocksInChunk'
  <2>1. offset' <= limit'
    BY <1>1, <1>4
  <2>2. ASSUME NEW b \in blocks'
        PROVE  /\ b.chunk \in 1..Len(chunks)
               /\ End(b) <= chunks[b.chunk]
               /\ b.chunk = Len(chunks) => End(b) <= p + n
    <3>1. CASE b \in blocks
      <4>1. b.from \in Nat /\ b.bytes \in Nat
        BY <3>1 DEF TypeOK
      <4> QED
        BY <1>2, <1>3, <1>4, <3>1, <4>1 DEF BlocksInChunk, End
    <3>2. CASE b = new
      BY <1>2, <1>3, <1>4, <1>5, <1>6, <3>2
    <3> QED
      BY <1>1, <2>2, <3>1, <3>2
  <2> QED
    BY <1>1, <2>1, <2>2 DEF BlocksInChunk, End
<1>9. BlocksDisjoint'
  <2>1. ASSUME NEW b \in blocks
        PROVE  b.chunk # new.chunk \/ End(b) <= new.from
    <3>1. b.from \in Nat /\ b.bytes \in Nat
      BY DEF TypeOK
    <3> QED
      BY <1>2, <1>4, <1>6, <3>1 DEF BlocksInChunk, End
  <2> QED
    BY <1>1, <2>1 DEF BlocksDisjoint, End
<1>10. BlocksAligned'
  BY <1>1, <1>4, <1>6 DEF BlocksAligned
<1> QED
  BY <1>7, <1>8, <1>9, <1>10

\* In a new chunk the new block is the only one.
LEMMA NewKeeps ==
  ASSUME Layout, NEW bytes \in Nat \ {0}, NEW align \in Nat \ {0},
         AllocateNew(bytes, align)
  PROVE  Layout'
<1> DEFINE n == Need(bytes, align)
           size == NewSize(n)
           new == Block(Len(chunks) + 1, 0, bytes, align)
<1> USE DEF Layout
<1>1. /\ chunks' = Append(chunks, size) /\ limit' = size
      /\ blocks' = blocks \union {new}
      /\ offset' = n
      /\ used' = used + n
  BY DEF AllocateNew
<1>2. offset \in Nat /\ limit \in Nat /\ used \in Nat /\ chunks \in Seq(Nat)
  BY DEF TypeOK
<1>3. n \in Nat /\ n >= bytes /\ size \in Nat /\ n <= size
  BY NeedCovers, SizeAssumption DEF NewSize
<1>4. /\ new.chunk = Len(chunks) + 1 /\ new.from = 0
      /\ new.bytes = bytes /\ new.align = align
      /\ new \in [chunk : Nat, from : Nat, bytes : Nat \ {0}, align : Nat \ {0}]
      /\ End(new) = bytes
  BY <1>2 DEF Block, End
<1> HIDE DEF n, size, new
<1>5. /\ chunks' \in Seq(Nat) /\ chunks' # <<>>
      /\ Len(chunks') = Len(chunks) + 1 /\ Len(chunks) \in Nat
      /\ chunks'[Len(chunks) + 1] = size
      /\ \A c \in 1..Len(chunks) : chunks'[c] = chunks[c]
  BY <1>1, <1>2, <1>3
<1>6. TypeOK'
  BY <1>1, <1>2, <1>3, <1>4, <1>5 DEF TypeOK
<1>7. BlocksInChunk'
  <2>1. ASSUME NEW b \in blocks'
        PROVE  /\ b.chunk \in 1..Len(chunks')
               /\ End(b) <= chunks'[b.chunk]
               /\ b.chunk = Len(chunks') => End(b) <= n
    <3>1. CASE b \in blocks
      BY <1>5, <3>1 DEF BlocksInChunk
    <3>2. CASE b = new
      BY <1>3, <1>4, <1>5, <3>2
    <3> QED
      BY <1>1, <2>1, <3>1, <3>2
  <2> QED
    BY <1>1, <1>3, <1>5, <2>1 DEF BlocksInChunk, End
<1>8. BlocksDisjoint'
  <2>1. ASSUME NEW b \in blocks PROVE b.chunk # new.chunk
    BY <1>4, <1>5 DEF BlocksInChunk
  <2> QED
    BY <1>1, <2>1 DEF BlocksDisjoint, End
<1>9. BlocksAligned'
  <2>1. 0 % align = 0
    OBVIOUS
  <2> QED
    BY <1>1, <1>4, <2>1 DEF BlocksAligned
<1> QED
  BY <1>6, <1>7, <1>8, <1>9

\* No call of allocate, in the current chunk or in a new one, breaks the layout.
LEMMA LayoutStep == Layout /\ [Next]_vars => Layout'
<1> SUFFICES ASSUME Layout, [Next]_vars PROVE Layout'
  OBVIOUS
<1>1. CASE UNCHANGED vars
  BY <1>1 DEF Layout, TypeOK, BlocksInChunk, BlocksDisjoint, BlocksAligned, End, vars
<1>2. ASSUME NEW q \in Request, AllocateHere(q[1], q[2]) \/ AllocateNew(q[1], q[2])
      PROVE  Layout'
  <2>1. q[1] \in Nat \ {0} /\ q[2] \in Nat \ {0}
    BY RequestAssumption
  <2> QED
    BY <1>2, <2>1, HereKeeps, NewKeeps
<1> QED
  BY <1>1, <1>2 DEF Next

\* Arena::allocate never hands out a byte twice.
THEOREM Disjoint == Spec => []BlocksDisjoint
<1>1. Layout => BlocksDisjoint
  BY DEF Layout
<1> QED
  BY <1>1, InitLayout, LayoutStep, PTL DEF Spec

\* Arena::allocate gives every block the alignment asked for.
THEOREM ArenaAligned == Spec => []BlocksAligned
<1>1. Layout => BlocksAligned
  BY DEF Layout
<1> QED
  BY <1>1, InitLayout, LayoutStep, PTL DEF Spec

\* No block passes the end of the chunk it is in.
THEOREM InChunk == Spec => []BlocksInChunk
<1>1. Layout => BlocksInChunk
  BY DEF Layout
<1> QED
  BY <1>1, InitLayout, LayoutStep, PTL DEF Spec

-----------------------------------------------------------------------------
(* AparajitaTraits::allocate, wherever RocksDB puts the raw memory.        *)

\* What an allocation needs of the past: RocksDB gave no byte twice.
RawLayout ==
  /\ raws \subseteq [raw : Nat, size : Nat, from : Nat, bytes : Nat \ {0}, align : Nat \ {0}]
  /\ BlocksInRaw
  /\ \A a, b \in raws : a # b => a.raw + a.size <= b.raw \/ b.raw + b.size <= a.raw

\* Nothing is allocated to begin with.
LEMMA RawInitLayout == RawInit => RawLayout
BY DEF RawInit, RawLayout, BlocksInRaw

\* Blocks that lie in disjoint memory are disjoint.
LEMMA RawsApart == RawLayout => RawsDisjoint
<1> SUFFICES ASSUME RawLayout, NEW a \in raws, NEW b \in raws, a # b
             PROVE  RawEnd(a) <= b.from \/ RawEnd(b) <= a.from
  BY DEF RawsDisjoint
<1>1. /\ a.raw \in Nat /\ a.size \in Nat /\ a.from \in Nat /\ RawEnd(a) \in Nat
      /\ b.raw \in Nat /\ b.size \in Nat /\ b.from \in Nat /\ RawEnd(b) \in Nat
  BY DEF RawLayout, RawEnd
<1>2. a.raw <= a.from /\ RawEnd(a) <= a.raw + a.size /\ b.raw <= b.from /\ RawEnd(b) <= b.raw + b.size
  BY DEF RawLayout, BlocksInRaw
<1>3. a.raw + a.size <= b.raw \/ b.raw + b.size <= a.raw
  BY DEF RawLayout
<1> QED
  BY <1>1, <1>2, <1>3

\* The padding is enough: the rounded block ends where the raw one does, or
\* before.
LEMMA AllocateKeeps ==
  ASSUME RawLayout, NEW bytes \in Nat \ {0}, NEW align \in Nat \ {0}, Allocate(bytes, align)
  PROVE  RawLayout'
<1>1. PICK raw \in 0..MaxAddress :
        /\ AllocateAligned(raw, Enlarged(bytes, align))
        /\ raws' = raws \union
             {[raw |-> raw, size |-> Enlarged(bytes, align),
               from |-> Aligned(raw, align), bytes |-> bytes, align |-> align]}
  BY DEF Allocate
<1>2. PICK size, from : size = Enlarged(bytes, align) /\ from = Aligned(raw, align)
  OBVIOUS
<1>3. raw \in Nat /\ size \in Nat /\ size = bytes + align - 1
  BY <1>2, AllocatorAssumption DEF Enlarged
<1>4. from \in Nat /\ from >= raw /\ from <= raw + align - 1 /\ from % align = 0
  BY <1>2, <1>3, RoundUpCovers DEF Aligned
<1>5. PICK new : new = [raw |-> raw, size |-> size, from |-> from, bytes |-> bytes, align |-> align]
  OBVIOUS
<1>6. /\ new \in [raw : Nat, size : Nat, from : Nat, bytes : Nat \ {0}, align : Nat \ {0}]
      /\ new.raw = raw /\ new.size = size
      /\ new.from % new.align = 0 /\ new.raw <= new.from
  BY <1>3, <1>4, <1>5
<1>7. RawEnd(new) <= new.raw + new.size
  <2>1. RawEnd(new) = from + bytes /\ new.raw + new.size = raw + (bytes + align - 1)
    BY <1>3, <1>5 DEF RawEnd
  <2> QED
    BY <1>3, <1>4, <2>1
<1>8. raws' = raws \union {new}
  BY <1>1, <1>2, <1>5
<1>9. \A b \in raws : raw + size <= b.raw \/ b.raw + b.size <= raw
  BY <1>1, <1>2 DEF AllocateAligned
<1>10. BlocksInRaw'
  BY <1>6, <1>7, <1>8 DEF RawLayout, BlocksInRaw, RawEnd
<1>11. \A a, b \in raws' : a # b => a.raw + a.size <= b.raw \/ b.raw + b.size <= a.raw
  BY <1>6, <1>8, <1>9 DEF RawLayout
<1> QED
  BY <1>6, <1>8, <1>10, <1>11 DEF RawLayout

\* No call of allocate breaks the layout.
LEMMA RawLayoutStep == RawLayout /\ [RawNext]_rawVars => RawLayout'
<1> SUFFICES ASSUME RawLayout, [RawNext]_rawVars PROVE RawLayout'
  OBVIOUS
<1>1. CASE UNCHANGED rawVars
  BY <1>1 DEF RawLayout, BlocksInRaw, RawEnd, rawVars
<1>2. ASSUME NEW q \in RawRequest, Allocate(q[1], q[2])
      PROVE  RawLayout'
  <2>1. q[1] \in Nat \ {0} /\ q[2] \in Nat \ {0}
    BY AllocatorAssumption
  <2> QED
    BY <1>2, <2>1, AllocateKeeps
<1> QED
  BY <1>1, <1>2 DEF RawNext

\* AparajitaTraits::allocate returns memory aligned as asked, inside what RocksDB
\* handed out.
THEOREM InRaw == RawSpec => []BlocksInRaw
<1>1. RawLayout => BlocksInRaw
  BY DEF RawLayout
<1> QED
  BY <1>1, RawInitLayout, RawLayoutStep, PTL DEF RawSpec

\* AparajitaTraits::allocate never returns a byte twice.
THEOREM RepDisjoint == RawSpec => []RawsDisjoint
BY RawsApart, RawInitLayout, RawLayoutStep, PTL DEF RawSpec

-----------------------------------------------------------------------------
(* AparajitaRep::UniqueRandomSample.                                       *)

\* What the pass has kept: different entries of those it has gone over, as many
\* as there is room for.
Kept ==
  /\ reservoir \in Seq(Entry)
  /\ Len(reservoir) = IF seen < target THEN seen ELSE target
  /\ \A i \in DOMAIN reservoir : \E j \in 1..seen : reservoir[i] = table[j]
  /\ \A i, j \in DOMAIN reservoir : reservoir[i] = reservoir[j] => i = j

SampleSound ==
  /\ table \in Seq(Entry) /\ \A i, j \in DOMAIN table : table[i] = table[j] => i = j
  /\ target \in Nat /\ seen \in 0..Len(table)
  /\ Kept
  /\ SampleIsExact

\* The pass starts with nothing kept, over a table of different entries.
LEMMA SampleStarts == SampleInit => SampleSound
<1> SUFFICES ASSUME SampleInit PROVE SampleSound
  OBVIOUS
<1>1. PICK S \in SUBSET Entry : table \in SetToSeqs(S)
  BY DEF SampleInit
<1>2. IsFiniteSet(S) /\ Cardinality(S) \in Nat
  BY SampleAssumption, FS_Subset, FS_CardinalityType
<1>3. PICK n \in Nat : n = Cardinality(S)
  BY <1>2
<1>4. table \in [1..n -> S] /\ \A i, j \in 1..n : i # j => table[i] # table[j]
  BY <1>1, <1>3 DEF SetToSeqs
<1>5. table \in Seq(Entry) /\ \A i, j \in DOMAIN table : table[i] = table[j] => i = j
  BY <1>4
<1>6. target \in Nat /\ seen \in 0..Len(table) /\ seen = 0 /\ ~done /\ reservoir = <<>>
  BY <1>5, SampleAssumption DEF SampleInit
<1>7. Kept
  BY <1>6 DEF Kept
<1> QED
  BY <1>5, <1>6, <1>7 DEF SampleSound, SampleIsExact

\* The lesser of two numbers.
LEMMA LeastOfTwo ==
  ASSUME NEW a \in Nat, NEW b \in Nat
  PROVE  Min({a, b}) = IF a < b THEN a ELSE b
<1>1. PICK m : m = IF a < b THEN a ELSE b
  OBVIOUS
<1>2. m \in {a, b} /\ \A y \in {a, b} : m <= y
  BY <1>1
<1>3. \A x \in {a, b} : (\A y \in {a, b} : x <= y) => x = m
  BY <1>1
<1>4. Min({a, b}) = m
  BY <1>2, <1>3 DEF Min
<1> QED
  BY <1>1, <1>4

\* A sequence without repetition names as many things as it is long.
LEMMA AllDifferent ==
  ASSUME NEW S, NEW s \in Seq(S), \A i, j \in DOMAIN s : s[i] = s[j] => i = j
  PROVE  IsFiniteSet(ToSet(s)) /\ Cardinality(ToSet(s)) = Len(s)
<1>1. PICK n \in Nat : n = Len(s)
  OBVIOUS
<1>2. DOMAIN s = 1..n
  BY <1>1
<1>3. IsFiniteSet(1..n) /\ Cardinality(1..n) = n
  BY FS_Interval
<1>4. s \in [1..n -> ToSet(s)] /\ \A t \in ToSet(s) : \E i \in 1..n : s[i] = t
  BY <1>2 DEF ToSet
<1>5. s \in Surjection(1..n, ToSet(s)) /\ s \in Injection(1..n, ToSet(s))
  BY <1>2, <1>4 DEF Surjection, Injection, IsInjective
<1> QED
  BY <1>1, <1>3, <1>5, FS_Surjection

\* The next entry is kept beside the others or in the place of one.
LEMMA VisitKeeps ==
  ASSUME SampleSound, Visit
  PROVE  SampleSound'
<1>1. /\ seen < Len(table) /\ seen' = seen + 1 /\ ~done /\ ~done'
      /\ table' = table /\ target' = target
  BY DEF Visit
<1>2. seen + 1 \in DOMAIN table /\ seen \in Nat /\ target \in Nat /\ table[seen + 1] \in Entry
  BY <1>1 DEF SampleSound
<1>3. \A i \in DOMAIN reservoir : reservoir[i] # table[seen + 1]
  BY <1>2 DEF SampleSound, Kept
<1>4. PICK e : e = table[seen + 1] /\ e \in Entry
  BY <1>2
<1>5. Kept'
  <2>1. /\ reservoir \in Seq(Entry) /\ Len(reservoir) \in Nat
        /\ DOMAIN reservoir = 1..Len(reservoir)
        /\ Len(reservoir) = IF seen < target THEN seen ELSE target
        /\ \A i \in DOMAIN reservoir : \E j \in 1..seen : reservoir[i] = table[j]
        /\ \A i, j \in DOMAIN reservoir : reservoir[i] = reservoir[j] => i = j
    BY DEF SampleSound, Kept
  <2>2. \A i \in DOMAIN reservoir : reservoir[i] # e
    BY <1>3, <1>4
  <2>3. 1..seen \subseteq 1..(seen + 1) /\ seen + 1 \in 1..(seen + 1)
    BY <1>2
  <2>4. CASE Len(reservoir) < target
    <3>1. reservoir' = Append(reservoir, e)
      BY <1>4, <2>4 DEF Visit
    <3>2. /\ reservoir' \in Seq(Entry) /\ Len(reservoir') = Len(reservoir) + 1
          /\ DOMAIN reservoir' = 1..(Len(reservoir) + 1)
          /\ \A i \in 1..Len(reservoir) : reservoir'[i] = reservoir[i]
          /\ reservoir'[Len(reservoir) + 1] = e
      BY <1>4, <2>1, <3>1
    <3>3. Len(reservoir') = IF seen + 1 < target THEN seen + 1 ELSE target
      BY <1>2, <2>1, <2>4, <3>2
    <3>4. \A i \in DOMAIN reservoir' : \E j \in 1..(seen + 1) : reservoir'[i] = table[j]
      <4> SUFFICES ASSUME NEW i \in 1..(Len(reservoir) + 1)
                   PROVE  \E j \in 1..(seen + 1) : reservoir'[i] = table[j]
        BY <3>2
      <4>1. CASE i = Len(reservoir) + 1
        BY <1>4, <2>3, <3>2, <4>1
      <4>2. CASE i # Len(reservoir) + 1
        <5>1. i \in 1..Len(reservoir)
          BY <2>1, <4>2
        <5> QED
          BY <2>1, <2>3, <3>2, <5>1
      <4> QED
        BY <4>1, <4>2
    <3>5. \A i, j \in DOMAIN reservoir' : reservoir'[i] = reservoir'[j] => i = j
      <4> SUFFICES ASSUME NEW i \in 1..(Len(reservoir) + 1), NEW j \in 1..(Len(reservoir) + 1),
                          reservoir'[i] = reservoir'[j]
                   PROVE  i = j
        BY <3>2
      <4>1. \A m \in 1..(Len(reservoir) + 1) : m = Len(reservoir) + 1 \/ m \in DOMAIN reservoir
        BY <2>1
      <4> QED
        BY <2>1, <2>2, <3>2, <4>1
    <3> QED
      BY <1>1, <3>2, <3>3, <3>4, <3>5 DEF Kept
  <2>5. CASE ~(Len(reservoir) < target)
    <3>1. Len(reservoir) = IF seen + 1 < target THEN seen + 1 ELSE target
      BY <1>2, <2>1, <2>5
    <3>2. PICK d \in 0..seen : reservoir' = IF d < target THEN Replace(d, e) ELSE reservoir
      BY <1>4, <2>5 DEF Visit
    <3>3. CASE ~(d < target)
      <4>1. reservoir' = reservoir
        BY <3>2, <3>3
      <4> QED
        BY <1>1, <2>1, <2>3, <3>1, <4>1 DEF Kept
    <3>4. CASE d < target
      <4>1. reservoir' = [reservoir EXCEPT ![d + 1] = e] /\ d + 1 \in DOMAIN reservoir
        BY <1>2, <2>1, <2>5, <3>2, <3>4 DEF Replace
      <4>2. /\ DOMAIN reservoir' = DOMAIN reservoir /\ reservoir'[d + 1] = e
            /\ \A i \in DOMAIN reservoir : i # d + 1 => reservoir'[i] = reservoir[i]
        BY <4>1
      <4>3. reservoir' \in Seq(Entry) /\ Len(reservoir') = Len(reservoir)
        BY <1>4, <2>1, <4>1
      <4>4. \A i \in DOMAIN reservoir : \E j \in 1..(seen + 1) : reservoir'[i] = table[j]
        BY <1>4, <2>1, <2>3, <4>2
      <4>5. \A i, j \in DOMAIN reservoir : reservoir'[i] = reservoir'[j] => i = j
        BY <2>1, <2>2, <4>2
      <4> QED
        BY <1>1, <3>1, <4>2, <4>3, <4>4, <4>5 DEF Kept
    <3> QED
      BY <3>3, <3>4
  <2> QED
    BY <2>4, <2>5
<1> QED
  BY <1>1, <1>2, <1>5 DEF SampleSound, SampleIsExact

\* When the pass is over the reservoir is the answer.
LEMMA ReturnKeeps ==
  ASSUME SampleSound, Return
  PROVE  SampleSound'
<1>1. /\ UNCHANGED <<table, target, seen, reservoir>> /\ seen = Len(table)
      /\ entries' = ToSet(reservoir)
  BY DEF Return, Cleared
<1>2. /\ reservoir \in Seq(Entry) /\ Len(table) \in Nat /\ target \in Nat
      /\ Len(reservoir) = IF Len(table) < target THEN Len(table) ELSE target
      /\ \A i \in DOMAIN reservoir : \E j \in 1..Len(table) : reservoir[i] = table[j]
      /\ \A i, j \in DOMAIN reservoir : reservoir[i] = reservoir[j] => i = j
  BY <1>1 DEF SampleSound, Kept
<1>3. Cardinality(entries') = Len(reservoir)
  BY <1>1, <1>2, AllDifferent
<1>4. Len(reservoir) = Min({target, Len(table)})
  BY <1>2, LeastOfTwo
<1>5. entries' \subseteq ToSet(table)
  <2>1. DOMAIN table = 1..Len(table)
    BY DEF SampleSound
  <2> QED
    BY <1>1, <1>2, <2>1 DEF ToSet
<1>6. SampleIsExact'
  BY <1>1, <1>3, <1>4, <1>5 DEF SampleIsExact
<1> QED
  BY <1>1, <1>6 DEF SampleSound, Kept

\* Nothing is asked for or nothing is there: nothing is returned.
LEMMA ReturnEarlyKeeps ==
  ASSUME SampleSound, ReturnEarly
  PROVE  SampleSound'
<1>1. UNCHANGED <<table, target, seen, reservoir>> /\ entries' = {}
  BY DEF ReturnEarly, Cleared
<1>2. target \in Nat /\ Len(table) \in Nat /\ (target = 0 \/ Len(table) = 0)
  BY DEF ReturnEarly, NothingToDo, SampleSound
<1>3. Cardinality(entries') = 0
  BY <1>1, FS_EmptySet
<1>4. Min({target, Len(table)}) = 0
  BY <1>2, LeastOfTwo
<1>5. SampleIsExact'
  BY <1>1, <1>3, <1>4 DEF SampleIsExact
<1> QED
  BY <1>1, <1>5 DEF SampleSound, Kept

LEMMA SampleStep == SampleSound /\ [SampleNext]_sampleVars => SampleSound'
<1> SUFFICES ASSUME SampleSound, [SampleNext]_sampleVars PROVE SampleSound'
  OBVIOUS
<1>1. CASE UNCHANGED sampleVars
  BY <1>1 DEF SampleSound, Kept, SampleIsExact, sampleVars
<1> QED
  BY <1>1, VisitKeeps, ReturnKeeps, ReturnEarlyKeeps DEF SampleNext

\* UniqueRandomSample returns exactly as many different entries of the table as
\* it is asked for, or all of them, whatever the generator draws.
THEOREM SampleExact == SampleSpec => []SampleIsExact
<1>1. SampleSound => SampleIsExact
  BY DEF SampleSound
<1> QED
  BY <1>1, SampleStarts, SampleStep, PTL DEF SampleSpec

=============================================================================
